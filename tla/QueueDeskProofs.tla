---------------------------- MODULE QueueDeskProofs ----------------------------
(***************************************************************************)
(* What the mirror of the callers and the board of the agents show, for    *)
(* any calls, queues, agents, requests and mishaps, with every part of the *)
(* process at work at once.  The argument is about the events under way:   *)
(* what they still say of a call or a seat, put after what is shown, is    *)
(* what holds in Asterisk.                                                 *)
(***************************************************************************)
EXTENDS QueueDesk, FiniteSetTheorems, SequenceTheorems, TLAPS

----------------------------------------------------------------------------
(* Events on the wire.                                                     *)

IsWire(w) == w \in Seq({w[i] : i \in DOMAIN w})

\* An event of a call of the mirror, a join, and an event that ends a stay.
OfCall(e) == e.kind \in {"join"} \cup EndKinds /\ e.id \in Calls
Joins(e, ch) == OfCall(e) /\ e.kind = "join" /\ e.channel = ch
Ends(e, c, q) ==
  /\ OfCall(e) /\ e.kind # "join" /\ e.id = c
  /\ e.queue = q \/ (e.kind = "hung_up" /\ e.queue = Nowhere)
EndsBetween(w, i, j, c, q) == \E k \in DOMAIN w : i < k /\ k < j /\ Ends(w[k], c, q)
EndsAfter(w, i, c, q) == \E k \in DOMAIN w : i < k /\ Ends(w[k], c, q)
SilentAfter(w, i, ch) == \A j \in DOMAIN w : i < j => ~(OfCall(w[j]) /\ w[j].channel = ch)

----------------------------------------------------------------------------
(* The mirror.                                                             *)

\* A stay that began: it goes on, or it has ended.  pl is the place of the calls, en the
\* stays that ended.
Stayed(c, q, pl, en) == pl[c] = q \/ <<c, q>> \in en

\* An event on the wire, and a row, tell of a stay that there was.
EventOK(e, pl, en) ==
  /\ e.kind \in {"join"} \cup EndKinds => e.channel \in Channels
  /\ e.kind = "join" => e.id \in Calls
  /\ OfCall(e) =>
       /\ e.channel = ChannelOf[e.id]
       /\ e.kind = "join" => e.queue \in Queues /\ Stayed(e.id, e.queue, pl, en)
       /\ e.kind # "join" => \/ e.queue \in Queues /\ <<e.id, e.queue>> \in en
                             \/ e.kind = "hung_up" /\ e.queue = Nowhere /\ pl[e.id] = "gone"
RowOK(row, ch, pl, en) ==
  row.id \in Calls /\ ChannelOf[row.id] = ch /\ row.queue \in Queues /\ Stayed(row.id, row.queue, pl, en)

\* A channel name is that of one call at a time.
Outside(x) == x \in {"new", "gone"}
OneCall(pl) ==
  \A c, d \in Calls : c # d /\ ChannelOf[c] = ChannelOf[d] => Outside(pl[c]) \/ Outside(pl[d])

\* What a row or a join says holds, or its end is still to be heard; and that comes before
\* the next join on the same channel.
RowEnds(w, row, ch, pl) ==
  /\ pl[row.id] = row.queue \/ EndsAfter(w, 0, row.id, row.queue)
  /\ \A i \in DOMAIN w : Joins(w[i], ch) => EndsBetween(w, 0, i, row.id, row.queue)
JoinEnds(w, i, pl) ==
  /\ pl[w[i].id] = w[i].queue \/ EndsAfter(w, i, w[i].id, w[i].queue)
  /\ \A j \in DOMAIN w : i < j /\ Joins(w[j], w[i].channel) => EndsBetween(w, i, j, w[i].id, w[i].queue)
EndsCome(w, rows, pl) ==
  /\ \A ch \in Channels : rows[ch] # NoRow => RowEnds(w, rows[ch], ch, pl)
  /\ \A i \in DOMAIN w : w[i].kind = "join" => JoinEnds(w, i, pl)

\* A caller is shown, or the join is on its way; and nothing more comes of the channel.
JoinComes(w, c) ==
  \E i \in DOMAIN w : /\ Joins(w[i], ChannelOf[c]) /\ w[i].id = c /\ SilentAfter(w, i, ChannelOf[c])
Announced(c, w, rows) ==
  JoinComes(w, c) \/ (rows[ChannelOf[c]].id = c /\ SilentAfter(w, 0, ChannelOf[c]))

DeskOK ==
  /\ desk = [o \in Operators |-> desk[o]]
  /\ \A o \in Operators :
       /\ desk[o] = [pc |-> desk[o].pc, channel |-> desk[o].channel, queue |-> desk[o].queue,
                     ok |-> desk[o].ok]
       /\ desk[o].ok => desk[o].channel \in stays.pulled
PlacesOK ==
  /\ place = [c \in Calls |-> place[c]]
  /\ \A c \in Calls : place[c] \in Queues \cup {"new", "outside", "gone"}
  /\ stays = [begun |-> stays.begun, ended |-> stays.ended, pulled |-> stays.pulled]
  /\ stays.ended \subseteq Calls \X Queues /\ stays.pulled \subseteq Channels
MirrorInv ==
  /\ IsWire(wire) /\ mishaps = [left |-> mishaps.left, kinds |-> mishaps.kinds]
  /\ waiting = [ch \in Channels |-> waiting[ch]]
  /\ PlacesOK /\ DeskOK /\ OneCall(place)
  /\ \A i \in DOMAIN wire : EventOK(wire[i], place, stays.ended)
  /\ \A ch \in Channels : waiting[ch] # NoRow => RowOK(waiting[ch], ch, place, stays.ended)
  /\ Never({"disorder"}) => EndsCome(wire, waiting, place)

\* With room to count every company.
ShownInv ==
  /\ Counted(counters) \subseteq Companies
  /\ \A ch \in Channels : waiting[ch] # NoRow => RowCompany(waiting[ch]) \in Counted(counters)
  /\ Never({"disorder", "restart"}) /\ Lost = {} =>
       \A c \in Calls : place[c] \in Queues /\ ChannelOf[c] \notin stays.pulled =>
         Announced(c, wire, waiting)

----------------------------------------------------------------------------
(* Sequences of events.                                                    *)

\* A sequence is one of its own elements.
LEMMA OwnElements ==
  ASSUME NEW S, NEW w \in Seq(S)
  PROVE  IsWire(w) /\ Len(w) \in Nat /\ DOMAIN w = 1..Len(w) /\ \A i \in DOMAIN w : w[i] \in S
<1>1. Len(w) \in Nat /\ w \in [1..Len(w) -> S] /\ DOMAIN w = 1..Len(w)
  BY LenProperties
<1>2. w = [i \in 1..Len(w) |-> w[i]]
  BY <1>1
<1>3. w \in Seq({w[i] : i \in DOMAIN w})
  BY <1>1, <1>2
<1> QED BY <1>1, <1>3 DEF IsWire

LEMMA Wires ==
  ASSUME NEW w, IsWire(w)
  PROVE  Len(w) \in Nat /\ DOMAIN w = 1..Len(w)
BY LenProperties DEF IsWire

\* Events told come after the ones under way.
Appends(v, w, E) == v = w \o E
LEMMA WireAppend ==
  ASSUME NEW w, IsWire(w), NEW E, IsWire(E), NEW v, Appends(v, w, E)
  PROVE  /\ IsWire(v) /\ Len(w) \in Nat /\ Len(E) \in Nat
         /\ DOMAIN w = 1..Len(w) /\ DOMAIN E = 1..Len(E) /\ DOMAIN v = 1..(Len(w) + Len(E))
         /\ \A i \in DOMAIN w : v[i] = w[i]
         /\ \A i \in DOMAIN v \ DOMAIN w : i - Len(w) \in DOMAIN E /\ v[i] = E[i - Len(w)]
         /\ \A k \in DOMAIN E : Len(w) + k \in DOMAIN v /\ v[Len(w) + k] = E[k]
<1>. DEFINE S == {w[i] : i \in DOMAIN w} \cup {E[i] : i \in DOMAIN E}
<1>1. w \in Seq(S) /\ E \in Seq(S)
  <2>1. {w[i] : i \in DOMAIN w} \subseteq S /\ {E[i] : i \in DOMAIN E} \subseteq S
    OBVIOUS
  <2> QED BY <2>1, SeqMonotonic DEF IsWire
<1>. HIDE DEF S
<1>2. /\ v \in Seq(S) /\ Len(v) = Len(w) + Len(E)
      /\ \A i \in 1..(Len(w) + Len(E)) : v[i] = IF i <= Len(w) THEN w[i] ELSE E[i - Len(w)]
  BY <1>1, ConcatProperties DEF Appends
<1>3. /\ Len(w) \in Nat /\ Len(E) \in Nat /\ DOMAIN w = 1..Len(w) /\ DOMAIN E = 1..Len(E)
      /\ DOMAIN v = 1..(Len(w) + Len(E)) /\ IsWire(v)
  BY <1>1, <1>2, OwnElements
<1> QED BY <1>2, <1>3

\* An event is taken.
LEMMA WireTake ==
  ASSUME NEW w, IsWire(w), NEW i \in DOMAIN w, NEW v, v = RemoveAt(w, i)
  PROVE  /\ IsWire(v) /\ Len(w) \in Nat /\ DOMAIN w = 1..Len(w) /\ DOMAIN v = 1..(Len(w) - 1)
         /\ \A j \in DOMAIN v : v[j] = IF j < i THEN w[j] ELSE w[j + 1]
<1>. DEFINE S == {w[j] : j \in DOMAIN w}
            a == SubSeq(w, 1, i - 1)
            b == SubSeq(w, i + 1, Len(w))
<1>1. w \in Seq(S) /\ Len(w) \in Nat /\ DOMAIN w = 1..Len(w) /\ i \in 1..Len(w)
      /\ \A j \in 1..Len(w) : w[j] \in S
  BY Wires DEF IsWire
<1>. HIDE DEF S
<1>2. a \in Seq(S) /\ Len(a) = i - 1 /\ \A j \in 1..(i - 1) : a[j] = w[j]
  <2>1. \A j \in 1..(i - 1) : w[j] \in S
    BY <1>1
  <2>2. 1 \in Int /\ i - 1 \in Int
    BY <1>1
  <2> QED BY <1>1, <2>1, <2>2, SubSeqProperties
<1>3. b \in Seq(S) /\ Len(b) = Len(w) - i /\ \A j \in 1..(Len(w) - i) : b[j] = w[i + j]
  <2>1. \A j \in (i + 1)..Len(w) : w[j] \in S
    BY <1>1
  <2>2. i + 1 \in Int /\ Len(w) \in Int /\ \A j \in 1..(Len(w) - i) : i + 1 + j - 1 = i + j
    BY <1>1
  <2> QED BY <1>1, <2>1, <2>2, SubSeqProperties
<1>. HIDE DEF a, b
<1>4. v = a \o b
  BY DEF RemoveAt, a, b
<1>5. /\ v \in Seq(S) /\ Len(v) = Len(a) + Len(b)
      /\ \A j \in 1..(Len(a) + Len(b)) : v[j] = IF j <= Len(a) THEN a[j] ELSE b[j - Len(a)]
  BY <1>2, <1>3, <1>4, ConcatProperties
<1>6. IsWire(v) /\ DOMAIN v = 1..(Len(w) - 1)
  BY <1>1, <1>2, <1>3, <1>5, OwnElements
<1>7. ASSUME NEW j \in 1..(Len(w) - 1) PROVE v[j] = IF j < i THEN w[j] ELSE w[j + 1]
  <2>1. CASE j < i
    BY <1>1, <1>2, <1>3, <1>5, <2>1
  <2>2. CASE ~(j < i)
    <3>1. j - (i - 1) \in 1..(Len(w) - i) /\ i + (j - (i - 1)) = j + 1
      BY <1>1, <2>2
    <3>2. v[j] = b[j - (i - 1)]
      BY <1>1, <1>2, <1>3, <1>5, <2>2
    <3> QED BY <3>1, <3>2, <1>3, <2>2
  <2> QED BY <2>1, <2>2
<1> QED BY <1>1, <1>6, <1>7

----------------------------------------------------------------------------
(* What the operations of the mirror do to its rows and counters.          *)

IsMirror(m) == m = [waiting |-> m.waiting, counters |-> m.counters]

\* Counters of refused and of expired callers.
LostKinds == {"expired", "rejected_global_capacity", "rejected_queue_capacity"}

\* An event ends the stay that a row shows.
EndsRow(e, row) ==
  /\ e.kind \in EndKinds /\ (e.queue = row.queue \/ (e.kind = "hung_up" /\ e.queue = Nowhere))
  /\ row.id = NoId \/ e.id = row.id

\* A counter is added to; there is room for every company.
Roomy == IsFiniteSet(Companies) /\ Cardinality(Companies) <= MaxCounted /\ MaxCounted \in Nat

LEMMA CountedRoom ==
  ASSUME Roomy, NEW cnt, Counted(cnt) \subseteq Companies, NEW t \in Companies
  PROVE  t \in Counted(cnt) \/ Cardinality(Counted(cnt)) < MaxCounted
<1>. SUFFICES ASSUME t \notin Counted(cnt) PROVE Cardinality(Counted(cnt)) < MaxCounted
  OBVIOUS
<1>. DEFINE S == Counted(cnt)
<1>. HIDE DEF S
<1>1. IsFiniteSet(S) /\ S \in SUBSET Companies /\ t \notin S
  BY FS_Subset DEF Roomy, S
<1>2. Cardinality(S \cup {t}) = Cardinality(S) + 1 /\ IsFiniteSet(S \cup {t})
  BY <1>1, FS_AddElement
<1>3. Cardinality(S \cup {t}) <= Cardinality(Companies)
  <2>1. S \cup {t} \in SUBSET Companies
    BY <1>1
  <2> QED BY <2>1, FS_Subset DEF Roomy
<1>4. Cardinality(S) \in Nat /\ Cardinality(Companies) \in Nat
  BY <1>1, FS_CardinalityType DEF Roomy
<1> QED BY <1>2, <1>3, <1>4 DEF Roomy, S

LEMMA Counting ==
  ASSUME NEW m, IsMirror(m), NEW t, NEW k
  PROVE  /\ IsMirror(Count(m, t, k)) /\ Count(m, t, k).waiting = m.waiting
         /\ DOMAIN m.counters \subseteq DOMAIN Count(m, t, k).counters
         /\ DOMAIN Count(m, t, k).counters \subseteq DOMAIN m.counters \cup {<<t, k>>}
         /\ t \in Counted(m.counters) \/ Cardinality(Counted(m.counters)) < MaxCounted =>
              <<t, k>> \in DOMAIN Count(m, t, k).counters
<1>1. DOMAIN Add(m.counters, <<t, k>>) = DOMAIN m.counters \cup {<<t, k>>}
  BY DEF Add
<1>2. [m EXCEPT !.counters = Add(@, <<t, k>>)] =
        [waiting |-> m.waiting, counters |-> Add(m.counters, <<t, k>>)]
  BY DEF IsMirror
<1> QED BY <1>1, <1>2 DEF Count, IsMirror

\* Counted companies stay.
LEMMA CountedGrows ==
  ASSUME NEW cnt, NEW new, DOMAIN cnt \subseteq DOMAIN new
  PROVE  Counted(cnt) \subseteq Counted(new) /\ \A t, k : <<t, k>> \in DOMAIN new => t \in Counted(new)
<1>1. \A t, k : <<t, k>> \in DOMAIN new => t \in Counted(new)
  BY DEF Counted
<1> QED BY <1>1 DEF Counted

\* One company more at most.
LEMMA CountedBound ==
  ASSUME NEW cnt, NEW new, NEW t, NEW k, DOMAIN new \subseteq DOMAIN cnt \cup {<<t, k>>}
  PROVE  Counted(new) \subseteq Counted(cnt) \cup {t}
BY DEF Counted

LEMMA Pruning ==
  ASSUME NEW m, IsMirror(m), m.waiting = [ch \in Channels |-> m.waiting[ch]]
  PROVE  /\ IsMirror(Prune(m))
         /\ Prune(m).waiting = [ch \in Channels |-> IF ch \in Expired(m.waiting) THEN NoRow
                                                    ELSE m.waiting[ch]]
         /\ DOMAIN m.counters \subseteq DOMAIN Prune(m).counters
         /\ Counted(Prune(m).counters) = Counted(m.counters)
         /\ \A ch \in Expired(m.waiting) : RowCompany(m.waiting[ch]) \in Counted(m.counters) =>
              <<RowCompany(m.waiting[ch]), "expired">> \in DOMAIN Prune(m).counters
<1>. DEFINE old == Expired(m.waiting)
            lost == {t \in Counted(m.counters) : \E ch \in old : RowCompany(m.waiting[ch]) = t}
<1>1. DOMAIN Prune(m).counters = DOMAIN m.counters \cup (lost \X {"expired"})
  BY DEF Prune
<1>2. lost \subseteq Counted(m.counters)
      /\ \A ch \in old : RowCompany(m.waiting[ch]) \in Counted(m.counters) => RowCompany(m.waiting[ch]) \in lost
  OBVIOUS
<1>3. IsMirror(Prune(m)) /\ Prune(m).waiting = [ch \in Channels |-> IF ch \in old THEN NoRow ELSE m.waiting[ch]]
  BY DEF Prune, IsMirror
<1>. HIDE DEF lost, old
<1>4. Counted(Prune(m).counters) = Counted(m.counters)
  BY <1>1, <1>2 DEF Counted
<1> QED BY <1>1, <1>2, <1>3, <1>4 DEF old

LEMMA Dropping ==
  ASSUME NEW m, IsMirror(m), NEW ch, NEW k
  PROVE  /\ IsMirror(Drop(m, ch, k)) /\ Drop(m, ch, k).waiting = [m.waiting EXCEPT ![ch] = NoRow]
         /\ DOMAIN m.counters \subseteq DOMAIN Drop(m, ch, k).counters
         /\ DOMAIN Drop(m, ch, k).counters \subseteq DOMAIN m.counters \cup {<<RowCompany(m.waiting[ch]), k>>}
<1>. DEFINE n == [m EXCEPT !.waiting[ch] = NoRow]
<1>1. IsMirror(n) /\ n.waiting = [m.waiting EXCEPT ![ch] = NoRow] /\ n.counters = m.counters
  BY DEF IsMirror
<1>. HIDE DEF n
<1>2. Drop(m, ch, k) = Count(n, RowCompany(m.waiting[ch]), k)
  BY DEF Drop, n
<1>3. /\ IsMirror(Count(n, RowCompany(m.waiting[ch]), k))
      /\ Count(n, RowCompany(m.waiting[ch]), k).waiting = n.waiting
      /\ DOMAIN n.counters \subseteq DOMAIN Count(n, RowCompany(m.waiting[ch]), k).counters
      /\ DOMAIN Count(n, RowCompany(m.waiting[ch]), k).counters
           \subseteq DOMAIN n.counters \cup {<<RowCompany(m.waiting[ch]), k>>}
  BY <1>1, Counting
<1> QED BY <1>1, <1>2, <1>3

\* An end takes off the row whose stay it ends, and no other.
LEMMA Ending ==
  ASSUME NEW m, IsMirror(m), NEW e, e.kind \in EndKinds
  PROVE  /\ IsMirror(Ended(m, e))
         /\ DOMAIN m.counters \subseteq DOMAIN Ended(m, e).counters
         /\ \/ Ended(m, e) = m
            \/ \E k : DOMAIN Ended(m, e).counters \subseteq
                        DOMAIN m.counters \cup {<<RowCompany(m.waiting[e.channel]), k>>}
         /\ Ended(m, e) = m \/ m.waiting[e.channel] # NoRow
         /\ Ended(m, e).waiting = IF m.waiting[e.channel] # NoRow /\ EndsRow(e, m.waiting[e.channel])
                                  THEN [m.waiting EXCEPT ![e.channel] = NoRow] ELSE m.waiting
<1>. DEFINE row == m.waiting[e.channel]
<1>. HIDE DEF row
<1>1. CASE row = NoRow
  BY <1>1 DEF Ended, row
<1>2. CASE row # NoRow /\ e.queue # row.queue /\ (e.kind # "hung_up" \/ e.queue # Nowhere)
  <2>1. Ended(m, e) = Count(m, RowCompany(row), "ignored_mismatched_queue")
    BY <1>2 DEF Ended, row
  <2>2. ~EndsRow(e, row)
    BY <1>2 DEF EndsRow
  <2>. DEFINE n == Count(m, RowCompany(row), "ignored_mismatched_queue")
  <2>3. /\ IsMirror(n) /\ n.waiting = m.waiting /\ DOMAIN m.counters \subseteq DOMAIN n.counters
        /\ DOMAIN n.counters \subseteq DOMAIN m.counters \cup {<<RowCompany(row), "ignored_mismatched_queue">>}
    BY Counting
  <2>. HIDE DEF n
  <2> QED BY <1>2, <2>1, <2>2, <2>3 DEF row, n
<1>3. CASE /\ row # NoRow /\ ~(e.queue # row.queue /\ (e.kind # "hung_up" \/ e.queue # Nowhere))
           /\ row.id # NoId /\ e.id # row.id
  <2>1. Ended(m, e) = Count(m, RowCompany(row), "ignored_mismatched_uniqueid")
    BY <1>3 DEF Ended, row
  <2>2. ~EndsRow(e, row)
    BY <1>3 DEF EndsRow
  <2>. DEFINE n == Count(m, RowCompany(row), "ignored_mismatched_uniqueid")
  <2>3. /\ IsMirror(n) /\ n.waiting = m.waiting /\ DOMAIN m.counters \subseteq DOMAIN n.counters
        /\ DOMAIN n.counters \subseteq DOMAIN m.counters \cup {<<RowCompany(row), "ignored_mismatched_uniqueid">>}
    BY Counting
  <2>. HIDE DEF n
  <2> QED BY <1>3, <2>1, <2>2, <2>3 DEF row, n
<1>4. CASE /\ row # NoRow /\ ~(e.queue # row.queue /\ (e.kind # "hung_up" \/ e.queue # Nowhere))
           /\ ~(row.id # NoId /\ e.id # row.id)
  <2>1. Ended(m, e) = Drop(m, e.channel, e.kind)
    BY <1>4 DEF Ended, row
  <2>2. EndsRow(e, row)
    BY <1>4 DEF EndsRow
  <2>. DEFINE n == Drop(m, e.channel, e.kind)
  <2>3. /\ IsMirror(n) /\ n.waiting = [m.waiting EXCEPT ![e.channel] = NoRow]
        /\ DOMAIN m.counters \subseteq DOMAIN n.counters
        /\ DOMAIN n.counters \subseteq DOMAIN m.counters \cup {<<RowCompany(m.waiting[e.channel]), e.kind>>}
    BY Dropping
  <2>. HIDE DEF n
  <2> QED BY <1>4, <2>1, <2>2, <2>3 DEF row, n
<1> QED BY <1>1, <1>2, <1>3, <1>4

\* A join is written, or refused and counted.
NewRow(e) == [queue |-> e.queue, id |-> e.id, joined |-> now]

LEMMA JoinForms ==
  ASSUME NEW m, NEW e, NEW n, n = Prune(m)
  PROVE  \/ /\ n.waiting[e.channel] # NoRow
            /\ \E t \in {CompanyOf[e.queue], RowCompany(n.waiting[e.channel])} : \E k :
                 Joined(m, e) = Count(n, t, k)
         \/ /\ n.waiting[e.channel] = NoRow
            /\ \E k \in LostKinds : Joined(m, e) = Count(n, CompanyOf[e.queue], k)
         \/ \E k : Joined(m, e) = Count([n EXCEPT !.waiting[e.channel] = NewRow(e)], CompanyOf[e.queue], k)
<1>. DEFINE row == n.waiting[e.channel]
            t == CompanyOf[e.queue]
            x == [n EXCEPT !.waiting[e.channel] = NewRow(e)]
<1>. HIDE DEF row, t, x
<1>1. CASE row # NoRow
  <2>1. \/ Joined(m, e) = Count(n, t, "duplicate_joins")
        \/ Joined(m, e) = Count(n, RowCompany(row), "blocked_ambiguous_requeue")
        \/ Joined(m, e) = Count(x, t, "requeues")
    BY <1>1 DEF Joined, NewRow, row, t, x
  <2> QED BY <1>1, <2>1 DEF row, t, x
<1>2. CASE row = NoRow
  <2>1. \/ Joined(m, e) = Count(n, t, "rejected_global_capacity")
        \/ Joined(m, e) = Count(n, t, "rejected_queue_capacity")
        \/ Joined(m, e) = Count(x, t, "joins")
    BY <1>2 DEF Joined, NewRow, row, t, x
  <2> QED BY <1>2, <2>1 DEF row, t, x, LostKinds
<1> QED BY <1>1, <1>2

\* There is room to count a company.
Room(cnt, t) == t \in Counted(cnt) \/ Cardinality(Counted(cnt)) < MaxCounted

\* After the pruning n of m a join of a queue of t writes its row or counts a refusal.
JoinedAs(m, e, n, t) ==
  /\ IsMirror(Joined(m, e)) /\ DOMAIN n.counters \subseteq DOMAIN Joined(m, e).counters
  /\ \E c, k : /\ DOMAIN Joined(m, e).counters \subseteq DOMAIN n.counters \cup {<<c, k>>}
               /\ c = t \/ (n.waiting[e.channel] # NoRow /\ c = RowCompany(n.waiting[e.channel]))
  /\ \/ /\ Joined(m, e).waiting = n.waiting
        /\ n.waiting[e.channel] = NoRow /\ Room(n.counters, t) =>
             \E k \in LostKinds : <<t, k>> \in DOMAIN Joined(m, e).counters
     \/ /\ Joined(m, e).waiting = [n.waiting EXCEPT ![e.channel] = NewRow(e)]
        /\ Room(n.counters, t) => t \in Counted(Joined(m, e).counters)

LEMMA Joining ==
  ASSUME NEW m, IsMirror(m), m.waiting = [ch \in Channels |-> m.waiting[ch]], NEW e,
         NEW n, n = Prune(m), NEW t, t = CompanyOf[e.queue]
  PROVE  JoinedAs(m, e, n, t)
<1>1. IsMirror(n)
  BY Pruning
<1>2. ASSUME NEW c, NEW k, Joined(m, e) = Count(n, c, k)
      PROVE  /\ IsMirror(Joined(m, e)) /\ DOMAIN n.counters \subseteq DOMAIN Joined(m, e).counters
             /\ DOMAIN Joined(m, e).counters \subseteq DOMAIN n.counters \cup {<<c, k>>}
             /\ Joined(m, e).waiting = n.waiting
             /\ Room(n.counters, c) => <<c, k>> \in DOMAIN Joined(m, e).counters
  BY <1>1, <1>2, Counting DEF Room
<1>3. ASSUME NEW k, Joined(m, e) = Count([n EXCEPT !.waiting[e.channel] = NewRow(e)], t, k)
      PROVE  /\ IsMirror(Joined(m, e)) /\ DOMAIN n.counters \subseteq DOMAIN Joined(m, e).counters
             /\ DOMAIN Joined(m, e).counters \subseteq DOMAIN n.counters \cup {<<t, k>>}
             /\ Joined(m, e).waiting = [n.waiting EXCEPT ![e.channel] = NewRow(e)]
             /\ Room(n.counters, t) => <<t, k>> \in DOMAIN Joined(m, e).counters
  <2>. DEFINE x == [n EXCEPT !.waiting[e.channel] = NewRow(e)]
  <2>1. IsMirror(x) /\ x.waiting = [n.waiting EXCEPT ![e.channel] = NewRow(e)] /\ x.counters = n.counters
    BY <1>1 DEF IsMirror
  <2>2. Joined(m, e) = Count(x, t, k)
    BY <1>3
  <2>. HIDE DEF x
  <2>3. /\ IsMirror(Count(x, t, k)) /\ Count(x, t, k).waiting = x.waiting
        /\ DOMAIN x.counters \subseteq DOMAIN Count(x, t, k).counters
        /\ DOMAIN Count(x, t, k).counters \subseteq DOMAIN x.counters \cup {<<t, k>>}
        /\ Room(x.counters, t) => <<t, k>> \in DOMAIN Count(x, t, k).counters
    BY <2>1, Counting DEF Room
  <2> QED BY <2>1, <2>2, <2>3
<1>4. \A c, k : <<c, k>> \in DOMAIN Joined(m, e).counters => c \in Counted(Joined(m, e).counters)
  BY DEF Counted
<1>5. CASE /\ n.waiting[e.channel] # NoRow
           /\ \E c \in {CompanyOf[e.queue], RowCompany(n.waiting[e.channel])} : \E k :
                 Joined(m, e) = Count(n, c, k)
  BY <1>2, <1>5 DEF JoinedAs
<1>6. CASE /\ n.waiting[e.channel] = NoRow
           /\ \E k \in LostKinds : Joined(m, e) = Count(n, CompanyOf[e.queue], k)
  BY <1>2, <1>6 DEF JoinedAs
<1>7. CASE \E k : Joined(m, e) = Count([n EXCEPT !.waiting[e.channel] = NewRow(e)], CompanyOf[e.queue], k)
  BY <1>3, <1>4, <1>7 DEF JoinedAs
<1>8. \/ /\ n.waiting[e.channel] # NoRow
         /\ \E c \in {CompanyOf[e.queue], RowCompany(n.waiting[e.channel])} : \E k :
              Joined(m, e) = Count(n, c, k)
      \/ /\ n.waiting[e.channel] = NoRow
         /\ \E k \in LostKinds : Joined(m, e) = Count(n, CompanyOf[e.queue], k)
      \/ \E k : Joined(m, e) = Count([n EXCEPT !.waiting[e.channel] = NewRow(e)], CompanyOf[e.queue], k)
  BY JoinForms
<1> QED BY <1>5, <1>6, <1>7, <1>8

----------------------------------------------------------------------------
(* Events that come: what was said of the earlier ones stays.              *)

Extended(w, v) ==
  /\ IsWire(v) /\ DOMAIN w \subseteq DOMAIN v /\ \A i \in DOMAIN w : v[i] = w[i]
  /\ \A i \in DOMAIN w, j \in DOMAIN v \ DOMAIN w : i < j

LEMMA AppendExtends ==
  ASSUME NEW w, IsWire(w), NEW E, IsWire(E), NEW v, Appends(v, w, E)
  PROVE  /\ Extended(w, v)
         /\ \A j \in DOMAIN v \ DOMAIN w : \E k \in DOMAIN E : v[j] = E[k]
         /\ \A k \in DOMAIN E : \E j \in DOMAIN v \ DOMAIN w : v[j] = E[k]
<1>2. /\ IsWire(v) /\ Len(w) \in Nat /\ Len(E) \in Nat
      /\ DOMAIN w = 1..Len(w) /\ DOMAIN E = 1..Len(E) /\ DOMAIN v = 1..(Len(w) + Len(E))
      /\ \A i \in DOMAIN w : v[i] = w[i]
      /\ \A i \in DOMAIN v \ DOMAIN w : i - Len(w) \in DOMAIN E /\ v[i] = E[i - Len(w)]
      /\ \A k \in DOMAIN E : Len(w) + k \in DOMAIN v /\ v[Len(w) + k] = E[k]
  BY WireAppend
<1>3. Extended(w, v)
  BY <1>2 DEF Extended
<1>4. ASSUME NEW j \in DOMAIN v \ DOMAIN w PROVE \E k \in DOMAIN E : v[j] = E[k]
  <2>1. j - Len(w) \in DOMAIN E /\ v[j] = E[j - Len(w)]
    BY <1>2
  <2> QED BY <2>1
<1>5. ASSUME NEW k \in DOMAIN E PROVE \E j \in DOMAIN v \ DOMAIN w : v[j] = E[k]
  <2>1. Len(w) + k \in DOMAIN v \ DOMAIN w /\ v[Len(w) + k] = E[k]
    BY <1>2
  <2> QED BY <2>1
<1> QED BY <1>3, <1>4, <1>5

LEMMA NoEvents ==
  ASSUME NEW w, IsWire(w)
  PROVE  Extended(w, w) /\ DOMAIN w \ DOMAIN w = {}
BY DEF Extended

LEMMA EndsStay ==
  ASSUME NEW w, IsWire(w), NEW v, Extended(w, v), NEW c, NEW q
  PROVE  /\ \A i : EndsAfter(w, i, c, q) => EndsAfter(v, i, c, q)
         /\ \A i, j : EndsBetween(w, i, j, c, q) => EndsBetween(v, i, j, c, q)
         /\ \A i, j : EndsAfter(w, i, c, q) /\ j \in DOMAIN v \ DOMAIN w => EndsBetween(v, i, j, c, q)
<1>1. \A k \in DOMAIN w : k \in DOMAIN v /\ v[k] = w[k] /\ \A j \in DOMAIN v \ DOMAIN w : k < j
  BY DEF Extended
<1> QED BY <1>1 DEF EndsAfter, EndsBetween

\* Events of other parts of the process change nothing of what was to come; nor do ends.
LEMMA EndsComeOn ==
  ASSUME NEW w, IsWire(w), NEW v, Extended(w, v), NEW rows, NEW pl,
         \A j \in DOMAIN v \ DOMAIN w : v[j].kind # "join", EndsCome(w, rows, pl)
  PROVE  EndsCome(v, rows, pl)
<1>1. \A i \in DOMAIN v : v[i].kind = "join" => i \in DOMAIN w /\ v[i] = w[i]
  BY DEF Extended
<1>2. \A i \in DOMAIN v : \A ch : Joins(v[i], ch) => i \in DOMAIN w /\ Joins(w[i], ch)
  BY <1>1 DEF Joins
<1>3. ASSUME NEW ch \in Channels, rows[ch] # NoRow PROVE RowEnds(v, rows[ch], ch, pl)
  BY <1>2, <1>3, EndsStay DEF EndsCome, RowEnds
<1>4. ASSUME NEW i \in DOMAIN v, v[i].kind = "join" PROVE JoinEnds(v, i, pl)
  <2>1. i \in DOMAIN w /\ v[i] = w[i] /\ JoinEnds(w, i, pl)
    BY <1>1, <1>4 DEF EndsCome
  <2> QED BY <1>2, <2>1, EndsStay DEF JoinEnds
<1> QED BY <1>3, <1>4 DEF EndsCome

\* Nor do they change what is announced of a channel, when they are of other channels.
LEMMA AnnouncedOn ==
  ASSUME NEW w, IsWire(w), NEW v, Extended(w, v), NEW rows, NEW c,
         \A j \in DOMAIN v \ DOMAIN w : ~(OfCall(v[j]) /\ v[j].channel = ChannelOf[c]),
         Announced(c, w, rows)
  PROVE  Announced(c, v, rows)
<1>1. \A i \in DOMAIN w : i \in DOMAIN v /\ v[i] = w[i]
  BY DEF Extended
<1>2. \A i : SilentAfter(w, i, ChannelOf[c]) => SilentAfter(v, i, ChannelOf[c])
  BY <1>1 DEF SilentAfter
<1> QED BY <1>1, <1>2 DEF Announced, JoinComes

----------------------------------------------------------------------------
(* The invariant of the mirror, step by step.                              *)

KindsGrow ==
  /\ mishaps.kinds \subseteq mishaps'.kinds
  /\ mishaps' = [left |-> mishaps'.left, kinds |-> mishaps'.kinds]

LEMMA NeverBefore ==
  ASSUME KindsGrow, NEW kinds, Never(kinds)' PROVE Never(kinds)
BY DEF KindsGrow, Never

\* Calls go on: a stay that there was, there was.
Onward(pl, en, pl2, en2) ==
  /\ en \subseteq en2
  /\ \A c \in Calls : /\ pl[c] \in Queues => pl2[c] = pl[c] \/ <<c, pl[c]>> \in en2
                      /\ pl[c] = "gone" => pl2[c] = "gone"

LEMMA TrueStays ==
  ASSUME NEW pl, NEW en, NEW pl2, NEW en2, Onward(pl, en, pl2, en2)
  PROVE  /\ \A e : EventOK(e, pl, en) => EventOK(e, pl2, en2)
         /\ \A row, ch : RowOK(row, ch, pl, en) => RowOK(row, ch, pl2, en2)
<1>1. \A c \in Calls, q \in Queues : Stayed(c, q, pl, en) => Stayed(c, q, pl2, en2)
  BY DEF Stayed, Onward
<1>2. \A e : EventOK(e, pl, en) => EventOK(e, pl2, en2)
  BY <1>1 DEF EventOK, OfCall, Onward
<1>3. \A row, ch : RowOK(row, ch, pl, en) => RowOK(row, ch, pl2, en2)
  BY <1>1 DEF RowOK
<1> QED BY <1>2, <1>3

\* The wire after new events.
LEMMA EventsStay ==
  ASSUME NEW w, NEW v, Extended(w, v), NEW pl, NEW en, NEW pl2, NEW en2, Onward(pl, en, pl2, en2),
         \A i \in DOMAIN w : EventOK(w[i], pl, en),
         \A j \in DOMAIN v \ DOMAIN w : EventOK(v[j], pl2, en2)
  PROVE  \A i \in DOMAIN v : EventOK(v[i], pl2, en2)
<1>1. \A i \in DOMAIN w : v[i] = w[i] /\ EventOK(w[i], pl2, en2)
  BY TrueStays DEF Extended
<1> QED BY <1>1

----------------------------------------------------------------------------
(* What other parts of the process do.                                     *)

Foreign(e) ==
  \/ e.kind \notin {"join"} \cup EndKinds
  \/ e.kind # "join" /\ e.id \notin Calls /\ e.channel \in Channels

Elsewhere ==
  /\ UNCHANGED mirrorVars /\ KindsGrow /\ Extended(wire, wire')
  /\ \A j \in DOMAIN wire' \ DOMAIN wire : Foreign(wire'[j])

LEMMA ForeignOK ==
  ASSUME NEW e, Foreign(e)
  PROVE  e.kind # "join" /\ ~OfCall(e) /\ \A pl, en : EventOK(e, pl, en)
BY DEF Foreign, OfCall, EventOK

LEMMA MirrorElsewhere ==
  ASSUME MirrorInv, Elsewhere PROVE MirrorInv'
<1>1. /\ place' = place /\ stays' = stays /\ waiting' = waiting /\ desk' = desk /\ KindsGrow
      /\ Extended(wire, wire') /\ IsWire(wire')
  BY DEF Elsewhere, mirrorVars, Extended
<1>2. PlacesOK' /\ DeskOK' /\ OneCall(place')
  BY <1>1 DEF MirrorInv, PlacesOK, DeskOK
<1>3. \A j \in DOMAIN wire' \ DOMAIN wire : wire'[j].kind # "join" /\ EventOK(wire'[j], place', stays'.ended)
  BY ForeignOK DEF Elsewhere
<1>4. \A i \in DOMAIN wire' : EventOK(wire'[i], place', stays'.ended)
  <2>1. Onward(place, stays.ended, place', stays'.ended)
    BY <1>1 DEF Onward
  <2> QED BY <1>1, <1>3, <2>1, EventsStay DEF MirrorInv
<1>5. Never({"disorder"})' => EndsCome(wire', waiting', place')
  <2>. SUFFICES ASSUME Never({"disorder"})' PROVE EndsCome(wire', waiting', place')
    OBVIOUS
  <2>1. EndsCome(wire, waiting, place) /\ IsWire(wire)
    BY <1>1, NeverBefore DEF MirrorInv
  <2>2. EndsCome(wire', waiting, place)
    BY <1>1, <1>3, <2>1, EndsComeOn
  <2> QED BY <1>1, <2>2
<1> QED BY <1>1, <1>2, <1>4, <1>5 DEF MirrorInv, KindsGrow

LEMMA ShownElsewhere ==
  ASSUME MirrorInv, ShownInv, Elsewhere PROVE ShownInv'
<1>1. /\ place' = place /\ stays' = stays /\ waiting' = waiting /\ counters' = counters /\ KindsGrow
      /\ Extended(wire, wire') /\ IsWire(wire)
  BY DEF Elsewhere, mirrorVars, MirrorInv
<1>2. \A j \in DOMAIN wire' \ DOMAIN wire : ~OfCall(wire'[j])
  BY ForeignOK DEF Elsewhere
<1>3. ASSUME Never({"disorder", "restart"})', Lost' = {}, NEW c \in Calls, place'[c] \in Queues,
             ChannelOf[c] \notin stays'.pulled
      PROVE  Announced(c, wire', waiting')
  <2>1. Never({"disorder", "restart"}) /\ Lost = {}
    BY <1>1, <1>3, NeverBefore DEF Lost
  <2>2. Announced(c, wire, waiting)
    BY <1>1, <1>3, <2>1 DEF ShownInv
  <2>3. Announced(c, wire', waiting)
    BY <1>1, <1>2, <2>2, AnnouncedOn
  <2> QED BY <1>1, <2>3
<1> QED BY <1>1, <1>3 DEF ShownInv

----------------------------------------------------------------------------
(* Calls enter queues.                                                     *)

\* One event.
Single(e) == <<e>>
LEMMA OneEvent ==
  ASSUME NEW e
  PROVE  /\ IsWire(Single(e)) /\ Len(Single(e)) = 1 /\ DOMAIN Single(e) = {1} /\ Single(e)[1] = e
         /\ \A k \in DOMAIN Single(e) : Single(e)[k] = e
<1>1. Single(e) \in Seq({e}) /\ Len(Single(e)) = 1 /\ Single(e)[1] = e
  BY DEF Single
<1>2. IsWire(Single(e)) /\ DOMAIN Single(e) = 1..Len(Single(e))
  BY <1>1, OwnElements
<1> QED BY <1>1, <1>2

\* The last event of the wire.
LEMMA LastIs ==
  ASSUME NEW w, IsWire(w), NEW E, IsWire(E), NEW v, Appends(v, w, E)
  PROVE  Len(E) = 1 => Extended(w, v) /\ DOMAIN v \ DOMAIN w = {Len(w) + 1} /\ v[Len(w) + 1] = E[1]
<1>1. /\ IsWire(v) /\ Len(w) \in Nat /\ Len(E) \in Nat
      /\ DOMAIN w = 1..Len(w) /\ DOMAIN E = 1..Len(E) /\ DOMAIN v = 1..(Len(w) + Len(E))
      /\ \A i \in DOMAIN w : v[i] = w[i]
      /\ \A i \in DOMAIN v \ DOMAIN w : i - Len(w) \in DOMAIN E /\ v[i] = E[i - Len(w)]
      /\ \A k \in DOMAIN E : Len(w) + k \in DOMAIN v /\ v[Len(w) + k] = E[k]
  BY WireAppend
<1>2. Extended(w, v)
  BY AppendExtends
<1> QED BY <1>1, <1>2

LEMMA LastOne ==
  ASSUME NEW w, IsWire(w), NEW e, NEW v, Appends(v, w, Single(e))
  PROVE  Extended(w, v) /\ DOMAIN v \ DOMAIN w = {Len(w) + 1} /\ v[Len(w) + 1] = e
<1>1. IsWire(Single(e)) /\ Len(Single(e)) = 1 /\ Single(e)[1] = e
  BY OneEvent
<1> QED BY <1>1, LastIs

\* Exactly one event comes.
LEMMA TellsOne ==
  ASSUME IsWire(wire), NEW e, Appends(wire', wire, Single(e))
  PROVE  /\ Extended(wire, wire') /\ \A j \in DOMAIN wire' \ DOMAIN wire : wire'[j] = e
         /\ \E j \in DOMAIN wire' \ DOMAIN wire : wire'[j] = e
BY LastOne

LEMMA MirrorEnters ==
  ASSUME MirrorInv, NEW c \in Calls, NEW q \in Queues, Enter(c, q) PROVE MirrorInv'
<1>. DEFINE e == Event("join", c, q)
            n == Len(wire) + 1
<1>1. /\ place[c] \in {"new", "outside"} /\ Free(c) /\ place' = [place EXCEPT ![c] = q]
      /\ stays' = [stays EXCEPT !.begun = @ + 1] /\ Tell(<<e>>)
      /\ waiting' = waiting /\ desk' = desk /\ mishaps' = mishaps
  BY DEF Enter, Unheard
<1>2. /\ e.kind = "join" /\ e.channel = ChannelOf[c] /\ e.queue = q /\ e.id = c
      /\ Joins(e, ChannelOf[c]) /\ OfCall(e)
  BY DEF Event, Joins, OfCall
<1>3. ChannelOf[c] \in Channels /\ place[c] \notin Queues /\ place[c] # "gone"
      /\ q \notin {"new", "outside", "gone"}
  BY <1>1, MirrorAssumption
<1>. HIDE DEF e
<1>4. /\ IsWire(wire) /\ IsWire(wire') /\ Extended(wire, wire')
      /\ DOMAIN wire' \ DOMAIN wire = {n} /\ wire'[n] = e
  <2>1. IsWire(wire) /\ Appends(wire', wire, Single(e))
    BY <1>1 DEF MirrorInv, Tell, Appends, Single
  <2> QED BY <2>1, LastOne DEF Extended
<1>. HIDE DEF n
<1>5. /\ stays'.ended = stays.ended /\ stays'.pulled = stays.pulled
      /\ stays' = [begun |-> stays'.begun, ended |-> stays'.ended, pulled |-> stays'.pulled]
      /\ place'[c] = q /\ \A d \in Calls \ {c} : place'[d] = place[d]
      /\ place' = [d \in Calls |-> place'[d]]
  BY <1>1 DEF MirrorInv, PlacesOK
<1>6. PlacesOK'
  BY <1>5 DEF MirrorInv, PlacesOK
<1>7. DeskOK'
  BY <1>1, <1>5 DEF MirrorInv, DeskOK
<1>8. OneCall(place')
  <2>1. \A d \in Calls \ {c} : ChannelOf[d] = ChannelOf[c] => Outside(place[d])
    BY <1>1 DEF Free, Outside
  <2> QED BY <1>5, <2>1 DEF MirrorInv, OneCall
<1>9. Onward(place, stays.ended, place', stays'.ended)
  BY <1>3, <1>5 DEF Onward
<1>10. EventOK(e, place', stays'.ended)
  BY <1>2, <1>3, <1>5 DEF EventOK, Stayed
<1>11. \A i \in DOMAIN wire' : EventOK(wire'[i], place', stays'.ended)
  <2>1. \A j \in DOMAIN wire' \ DOMAIN wire : EventOK(wire'[j], place', stays'.ended)
    BY <1>4, <1>10
  <2> QED BY <1>4, <1>9, <2>1, EventsStay DEF MirrorInv
<1>12. \A ch \in Channels : waiting'[ch] # NoRow => RowOK(waiting'[ch], ch, place', stays'.ended)
  BY <1>1, <1>9, TrueStays DEF MirrorInv
<1>13. Never({"disorder"})' => EndsCome(wire', waiting', place')
  <2>. SUFFICES ASSUME Never({"disorder"})' PROVE EndsCome(wire', waiting', place')
    OBVIOUS
  <2>1. EndsCome(wire, waiting, place)
    BY <1>1 DEF MirrorInv, Never
  <2>2. \A i \in DOMAIN wire' : i # n => i \in DOMAIN wire /\ wire'[i] = wire[i]
    BY <1>4 DEF Extended
  \* Nobody waits on the channel.
  <2>3. ASSUME NEW d \in Calls, ChannelOf[d] = ChannelOf[c] PROVE place[d] \notin Queues
    BY <1>1, <1>3, <2>3, MirrorAssumption DEF Free
  <2>4. ASSUME NEW ch \in Channels, waiting[ch] # NoRow PROVE RowEnds(wire', waiting[ch], ch, place')
    <3>. DEFINE row == waiting[ch]
    <3>1. RowOK(row, ch, place, stays.ended) /\ RowEnds(wire, row, ch, place)
      BY <2>1, <2>4 DEF MirrorInv, EndsCome
    <3>. HIDE DEF row
    <3>2. row.id \in Calls /\ row.queue \in Queues /\ ChannelOf[row.id] = ch
      BY <3>1 DEF RowOK
    <3>3. place'[row.id] = row.queue \/ EndsAfter(wire', 0, row.id, row.queue)
      <4>1. CASE row.id = c
        BY <1>3, <1>4, <3>1, <3>2, <4>1, EndsStay DEF RowEnds
      <4>2. CASE row.id # c
        BY <1>4, <1>5, <3>1, <3>2, <4>2, EndsStay DEF RowEnds
      <4> QED BY <4>1, <4>2
    <3>4. ASSUME NEW i \in DOMAIN wire', Joins(wire'[i], ch)
          PROVE  EndsBetween(wire', 0, i, row.id, row.queue)
      <4>1. CASE i = n
        <5>1. ch = ChannelOf[c]
          BY <1>2, <1>4, <3>4, <4>1 DEF Joins
        <5>2. EndsAfter(wire, 0, row.id, row.queue)
          BY <2>3, <3>1, <3>2, <5>1 DEF RowEnds
        <5> QED BY <1>4, <4>1, <5>2, EndsStay
      <4>2. CASE i # n
        <5>1. EndsBetween(wire, 0, i, row.id, row.queue)
          BY <2>2, <3>1, <3>4, <4>2 DEF RowEnds
        <5> QED BY <1>4, <5>1, EndsStay
      <4> QED BY <4>1, <4>2
    <3> QED BY <3>3, <3>4 DEF RowEnds, row
  <2>5. ASSUME NEW i \in DOMAIN wire', wire'[i].kind = "join" PROVE JoinEnds(wire', i, place')
    <3>1. CASE i = n
      <4>1. \A j \in DOMAIN wire' : ~(n < j)
        <5>1. \A j \in DOMAIN wire : j < n
          BY <1>4 DEF Extended
        <5>2. \A j \in DOMAIN wire : j \in Nat
          BY <1>4, Wires
        <5>3. n \in Nat
          BY <1>4, Wires
        <5> QED BY <2>2, <5>1, <5>2, <5>3
      <4> QED BY <1>2, <1>4, <1>5, <3>1, <4>1 DEF JoinEnds
    <3>2. CASE i # n
      <4>. DEFINE x == wire[i]
      <4>1. i \in DOMAIN wire /\ wire'[i] = x /\ x.kind = "join"
        BY <2>2, <2>5, <3>2
      <4>2. JoinEnds(wire, i, place) /\ EventOK(x, place, stays.ended)
        BY <2>1, <4>1 DEF EndsCome, MirrorInv
      <4>3. x.id \in Calls /\ x.queue \in Queues /\ x.channel = ChannelOf[x.id]
        BY <4>1, <4>2 DEF EventOK, OfCall
      <4>4. place'[x.id] = x.queue \/ EndsAfter(wire', i, x.id, x.queue)
        <5>1. place[x.id] = x.queue \/ EndsAfter(wire, i, x.id, x.queue)
          BY <4>2 DEF JoinEnds
        <5>2. CASE x.id = c
          BY <1>3, <1>4, <4>3, <5>1, <5>2, EndsStay
        <5>3. CASE x.id # c
          BY <1>4, <1>5, <4>3, <5>1, <5>3, EndsStay
        <5> QED BY <5>2, <5>3
      <4>5. ASSUME NEW j \in DOMAIN wire', i < j, Joins(wire'[j], x.channel)
            PROVE  EndsBetween(wire', i, j, x.id, x.queue)
        <5>1. CASE j = n
          <6>1. x.channel = ChannelOf[c]
            BY <1>2, <1>4, <4>5, <5>1 DEF Joins
          <6>2. EndsAfter(wire, i, x.id, x.queue)
            BY <2>3, <4>2, <4>3, <6>1 DEF JoinEnds
          <6> QED BY <1>4, <5>1, <6>2, EndsStay
        <5>2. CASE j # n
          <6>1. EndsBetween(wire, i, j, x.id, x.queue)
            BY <2>2, <4>2, <4>5, <5>2 DEF JoinEnds
          <6> QED BY <1>4, <6>1, EndsStay
        <5> QED BY <5>1, <5>2
      <4> QED BY <4>1, <4>4, <4>5 DEF JoinEnds
    <3> QED BY <3>1, <3>2
  <2> QED BY <1>1, <2>4, <2>5 DEF EndsCome
<1> QED BY <1>1, <1>4, <1>6, <1>7, <1>8, <1>11, <1>12, <1>13 DEF MirrorInv

\* Whoever waits is announced, the last to come by the last event.
LEMMA ShownEnters ==
  ASSUME MirrorInv, ShownInv, NEW c \in Calls, NEW q \in Queues, Enter(c, q) PROVE ShownInv'
<1>. DEFINE e == Event("join", c, q)
            n == Len(wire) + 1
<1>1. /\ place[c] \in {"new", "outside"} /\ Free(c) /\ place' = [place EXCEPT ![c] = q]
      /\ stays' = [stays EXCEPT !.begun = @ + 1] /\ Tell(<<e>>)
      /\ waiting' = waiting /\ counters' = counters /\ mishaps' = mishaps
  BY DEF Enter, Unheard
<1>2. e.id = c /\ e.channel = ChannelOf[c] /\ Joins(e, ChannelOf[c])
  BY DEF Event, Joins, OfCall
<1>. HIDE DEF e
<1>3. /\ IsWire(wire) /\ IsWire(wire') /\ Extended(wire, wire')
      /\ DOMAIN wire' \ DOMAIN wire = {n} /\ wire'[n] = e
  <2>1. IsWire(wire) /\ Appends(wire', wire, Single(e))
    BY <1>1 DEF MirrorInv, Tell, Appends, Single
  <2> QED BY <2>1, LastOne DEF Extended
<1>4. \A j \in DOMAIN wire' : ~(n < j)
  <2>1. \A j \in DOMAIN wire' : j = n \/ j < n
    BY <1>3 DEF Extended
  <2>2. \A j \in DOMAIN wire' : j \in Nat
    BY <1>3, Wires
  <2> QED BY <1>3, <2>1, <2>2
<1>. HIDE DEF n
<1>5. /\ stays'.pulled = stays.pulled
      /\ place'[c] = q /\ \A d \in Calls \ {c} : place'[d] = place[d]
  BY <1>1 DEF MirrorInv, PlacesOK
<1>6. ASSUME Never({"disorder", "restart"})', Lost' = {}, NEW d \in Calls, place'[d] \in Queues,
             ChannelOf[d] \notin stays'.pulled
      PROVE  Announced(d, wire', waiting')
  <2>1. CASE d = c
    <3>1. n \in DOMAIN wire' /\ SilentAfter(wire', n, ChannelOf[c])
      BY <1>3, <1>4 DEF SilentAfter
    <3> QED BY <1>2, <1>3, <2>1, <3>1 DEF Announced, JoinComes
  <2>2. CASE d # c
    <3>1. Never({"disorder", "restart"}) /\ Lost = {}
      BY <1>1, <1>6 DEF Lost, Never
    <3>2. Announced(d, wire, waiting)
      BY <1>5, <1>6, <2>2, <3>1 DEF ShownInv
    <3>3. place[d] \in Queues
      BY <1>5, <1>6, <2>2
    <3>4. ChannelOf[d] # ChannelOf[c]
      BY <1>1, <2>2, <3>3, MirrorAssumption DEF Free
    <3>5. \A j \in DOMAIN wire' \ DOMAIN wire : ~(OfCall(wire'[j]) /\ wire'[j].channel = ChannelOf[d])
      BY <1>2, <1>3, <3>4
    <3>6. Announced(d, wire', waiting)
      BY <1>3, <3>2, <3>5, AnnouncedOn
    <3> QED BY <1>1, <3>6
  <2> QED BY <2>1, <2>2
<1> QED BY <1>1, <1>6 DEF ShownInv

----------------------------------------------------------------------------
(* Calls leave queues and end.                                             *)

\* What happens to one call when it leaves a queue, is moved by a pickup or ends: the
\* events told are its own, none is a join, and one of them ends the stay.
Departs(c) ==
  /\ place[c] \in Queues \cup {"outside"}
  /\ place' = [place EXCEPT ![c] = place'[c]] /\ place'[c] \in {"outside", "gone"}
  /\ Extended(wire, wire')
  /\ stays' = [begun |-> stays'.begun, ended |-> stays'.ended, pulled |-> stays'.pulled]
  /\ stays'.ended = stays.ended \cup (IF place[c] \in Queues THEN {<<c, place[c]>>} ELSE {})
  /\ stays.pulled \subseteq stays'.pulled /\ stays'.pulled \subseteq stays.pulled \cup {ChannelOf[c]}
  /\ \A j \in DOMAIN wire' \ DOMAIN wire :
       /\ EventOK(wire'[j], place', stays'.ended) /\ wire'[j].kind # "join" /\ wire'[j].kind \in EndKinds
       /\ wire'[j].channel = ChannelOf[c]
  /\ place[c] \in Queues => \E j \in DOMAIN wire' \ DOMAIN wire : Ends(wire'[j], c, place[c])
  /\ KindsGrow /\ waiting' = waiting /\ counters' = counters

LEMMA MirrorDeparts ==
  ASSUME MirrorInv, NEW c \in Calls, Departs(c), DeskOK' PROVE MirrorInv'
<1>1. /\ IsWire(wire) /\ IsWire(wire') /\ Extended(wire, wire') /\ KindsGrow /\ waiting' = waiting
      /\ stays' = [begun |-> stays'.begun, ended |-> stays'.ended, pulled |-> stays'.pulled]
      /\ place[c] \in Queues \cup {"outside"} /\ place'[c] \in {"outside", "gone"}
  BY DEF Departs, MirrorInv, Extended
<1>2. place' = [d \in Calls |-> place'[d]] /\ \A d \in Calls \ {c} : place'[d] = place[d]
  BY DEF Departs, MirrorInv, PlacesOK
<1>3. PlacesOK'
  <2>1. stays'.ended \subseteq Calls \X Queues /\ stays'.pulled \subseteq Channels
    BY MirrorAssumption DEF Departs, MirrorInv, PlacesOK
  <2> QED BY <1>1, <1>2, <2>1 DEF MirrorInv, PlacesOK
<1>4. OneCall(place')
  <2>1. ~Outside(place[c])
    BY <1>1, MirrorAssumption DEF Outside
  <2>2. \A d \in Calls \ {c} : Outside(place[d]) = Outside(place'[d])
    BY <1>2
  <2> QED BY <2>1, <2>2 DEF MirrorInv, OneCall
<1>5. Onward(place, stays.ended, place', stays'.ended)
  <2>1. stays.ended \subseteq stays'.ended /\ (place[c] \in Queues => <<c, place[c]>> \in stays'.ended)
    BY DEF Departs
  <2>2. place[c] # "gone"
    BY <1>1, MirrorAssumption
  <2> QED BY <1>2, <2>1, <2>2 DEF Onward
<1>6. \A i \in DOMAIN wire' : EventOK(wire'[i], place', stays'.ended)
  <2>1. \A j \in DOMAIN wire' \ DOMAIN wire : EventOK(wire'[j], place', stays'.ended)
    BY DEF Departs
  <2> QED BY <1>1, <1>5, <2>1, EventsStay DEF MirrorInv
<1>7. \A ch \in Channels : waiting'[ch] # NoRow => RowOK(waiting'[ch], ch, place', stays'.ended)
  BY <1>1, <1>5, TrueStays DEF MirrorInv
<1>8. Never({"disorder"})' => EndsCome(wire', waiting', place')
  <2>. SUFFICES ASSUME Never({"disorder"})' PROVE EndsCome(wire', waiting', place')
    OBVIOUS
  <2>1. EndsCome(wire, waiting, place)
    BY <1>1, NeverBefore DEF MirrorInv
  <2>2. EndsCome(wire', waiting, place)
    <3>1. \A j \in DOMAIN wire' \ DOMAIN wire : wire'[j].kind # "join"
      BY DEF Departs
    <3> QED BY <1>1, <2>1, <3>1, EndsComeOn
  \* The stay that ends here is heard of after everything else.
  <2>3. place[c] \in Queues => \E j \in DOMAIN wire' \ DOMAIN wire : Ends(wire'[j], c, place[c])
    BY DEF Departs
  <2>4. ASSUME place[c] \in Queues, NEW i \in DOMAIN wire' \cup {0}, i \in DOMAIN wire \cup {0}
        PROVE  EndsAfter(wire', i, c, place[c])
    <3>1. PICK j \in DOMAIN wire' \ DOMAIN wire : Ends(wire'[j], c, place[c])
      BY <2>3, <2>4
    <3>2. i < j
      <4>1. j \in DOMAIN wire' /\ j \in 1..Len(wire') /\ Len(wire') \in Nat
        BY <1>1, Wires
      <4> QED BY <1>1, <2>4, <4>1 DEF Extended
    <3> QED BY <3>1, <3>2 DEF EndsAfter
  <2>5. ASSUME NEW i \in DOMAIN wire \cup {0}, i \in DOMAIN wire' \cup {0}, NEW d \in Calls, NEW q \in Queues,
               place[d] = q \/ EndsAfter(wire', i, d, q)
        PROVE  place'[d] = q \/ EndsAfter(wire', i, d, q)
    <3>1. CASE d = c
      BY <2>4, <2>5, <3>1
    <3>2. CASE d # c
      BY <1>2, <2>5, <3>2
    <3> QED BY <3>1, <3>2
  <2>6. ASSUME NEW ch \in Channels, waiting[ch] # NoRow PROVE RowEnds(wire', waiting[ch], ch, place')
    <3>1. waiting[ch].id \in Calls /\ waiting[ch].queue \in Queues
      BY <2>6 DEF MirrorInv, RowOK
    <3>2. RowEnds(wire', waiting[ch], ch, place)
      BY <2>2, <2>6 DEF EndsCome
    <3>3. place[waiting[ch].id] = waiting[ch].queue
            \/ EndsAfter(wire', 0, waiting[ch].id, waiting[ch].queue)
      BY <3>2 DEF RowEnds
    <3>4. place'[waiting[ch].id] = waiting[ch].queue
            \/ EndsAfter(wire', 0, waiting[ch].id, waiting[ch].queue)
      BY <2>5, <3>1, <3>3
    <3> QED BY <3>2, <3>4 DEF RowEnds
  <2>7. ASSUME NEW i \in DOMAIN wire', wire'[i].kind = "join" PROVE JoinEnds(wire', i, place')
    <3>1. i \in DOMAIN wire /\ wire'[i] = wire[i]
      BY <1>1, <2>7 DEF Departs, Extended
    <3>2. wire'[i].id \in Calls /\ wire'[i].queue \in Queues
      BY <2>7, <3>1 DEF MirrorInv, EventOK, OfCall
    <3>3. JoinEnds(wire', i, place)
      BY <2>2, <2>7 DEF EndsCome
    <3>4. place[wire'[i].id] = wire'[i].queue \/ EndsAfter(wire', i, wire'[i].id, wire'[i].queue)
      BY <3>3 DEF JoinEnds
    <3>5. place'[wire'[i].id] = wire'[i].queue \/ EndsAfter(wire', i, wire'[i].id, wire'[i].queue)
      BY <2>5, <3>1, <3>2, <3>4
    <3> QED BY <3>3, <3>5 DEF JoinEnds
  <2> QED BY <1>1, <2>6, <2>7 DEF EndsCome
<1> QED BY <1>1, <1>3, <1>4, <1>6, <1>7, <1>8 DEF MirrorInv, KindsGrow

LEMMA ShownDeparts ==
  ASSUME MirrorInv, ShownInv, NEW c \in Calls, Departs(c) PROVE ShownInv'
<1>1. /\ IsWire(wire) /\ Extended(wire, wire') /\ KindsGrow /\ waiting' = waiting
      /\ counters' = counters /\ stays.pulled \subseteq stays'.pulled
      /\ place[c] \in Queues \cup {"outside"} /\ place'[c] \in {"outside", "gone"}
  BY DEF Departs, MirrorInv
<1>2. \A d \in Calls \ {c} : place'[d] = place[d]
  BY DEF Departs, MirrorInv, PlacesOK
<1>3. ASSUME Never({"disorder", "restart"})', Lost' = {}, NEW d \in Calls, place'[d] \in Queues,
             ChannelOf[d] \notin stays'.pulled
      PROVE  Announced(d, wire', waiting')
  <2>1. d # c /\ place[d] \in Queues
    BY <1>1, <1>2, <1>3, MirrorAssumption
  <2>2. ChannelOf[d] # ChannelOf[c]
    BY <1>1, <2>1, MirrorAssumption DEF MirrorInv, OneCall, Outside
  <2>3. Never({"disorder", "restart"}) /\ Lost = {}
    BY <1>1, <1>3, NeverBefore DEF Lost
  <2>4. Announced(d, wire, waiting)
    BY <1>1, <1>3, <2>1, <2>3 DEF ShownInv
  <2>5. \A j \in DOMAIN wire' \ DOMAIN wire : ~(OfCall(wire'[j]) /\ wire'[j].channel = ChannelOf[d])
    BY <2>2 DEF Departs
  <2>6. Announced(d, wire', waiting)
    BY <1>1, <2>4, <2>5, AnnouncedOn
  <2> QED BY <1>1, <2>6
<1> QED BY <1>1, <1>3 DEF ShownInv

\* Mishaps only add to the kinds that came.
LEMMA MishapsGrow ==
  /\ \A kinds, noted : MishapsAnd(kinds, noted) => KindsGrow
  /\ \A kinds : Mishaps(kinds) => KindsGrow
  /\ \A kind : Mishap(kind) => KindsGrow
  /\ MirrorInv /\ mishaps' = mishaps => KindsGrow
<1>1. \A kinds, noted : MishapsAnd(kinds, noted) => KindsGrow
  BY DEF MishapsAnd, KindsGrow
<1>2. MirrorInv /\ mishaps' = mishaps => KindsGrow
  BY DEF MirrorInv, KindsGrow
<1> QED BY <1>1, <1>2 DEF Mishaps, Mishap

\* Events that one call tells when its stay is over, l among them.
Own(e, c, pl, en) ==
  EventOK(e, pl, en) /\ e.kind # "join" /\ e.kind \in EndKinds /\ e.channel = ChannelOf[c]
OwnTelling(E, c, pl, en, l) ==
  /\ IsWire(E) /\ \A k \in DOMAIN E : Own(E[k], c, pl, en)
  /\ \E k \in DOMAIN E : E[k] = l
Pair(a, b) == <<a, b>>
Triple(a, b, d) == <<a, b, d>>

LEMMA OwnEvents ==
  ASSUME NEW c \in Calls, NEW pl, NEW en
  PROVE  /\ \A kind \in EndKinds, q \in Queues : <<c, q>> \in en =>
              Own(Event(kind, c, q), c, pl, en) /\ Ends(Event(kind, c, q), c, q)
         /\ pl[c] = "gone" => Own(Event("hung_up", c, Nowhere), c, pl, en)
<1>1. ChannelOf[c] \in Channels
  BY MirrorAssumption
<1>2. ASSUME NEW kind \in EndKinds, NEW q \in Queues, <<c, q>> \in en
      PROVE  Own(Event(kind, c, q), c, pl, en) /\ Ends(Event(kind, c, q), c, q)
  <2>1. kind # "join"
    BY DEF EndKinds
  <2>. DEFINE e == Event(kind, c, q)
  <2>2. e.kind = kind /\ e.channel = ChannelOf[c] /\ e.queue = q /\ e.id = c
    BY DEF Event
  <2>. HIDE DEF e
  <2>3. OfCall(e)
    BY <2>2 DEF OfCall
  <2> QED BY <1>1, <1>2, <2>1, <2>2, <2>3 DEF Own, EventOK, Ends, e
<1>3. ASSUME pl[c] = "gone" PROVE Own(Event("hung_up", c, Nowhere), c, pl, en)
  <2>. DEFINE e == Event("hung_up", c, Nowhere)
  <2>2. e.kind = "hung_up" /\ e.channel = ChannelOf[c] /\ e.queue = Nowhere /\ e.id = c
    BY DEF Event
  <2>3. "hung_up" \in EndKinds
    BY DEF EndKinds
  <2>. HIDE DEF e
  <2> QED BY <1>1, <1>3, <2>2, <2>3 DEF Own, EventOK, OfCall, e
<1> QED BY <1>2, <1>3

LEMMA PairOf ==
  ASSUME NEW a, NEW b
  PROVE  IsWire(Pair(a, b)) /\ DOMAIN Pair(a, b) = {1, 2} /\ Pair(a, b)[1] = a /\ Pair(a, b)[2] = b
<1>1. Pair(a, b) \in Seq({a, b}) /\ Len(Pair(a, b)) = 2 /\ Pair(a, b)[1] = a /\ Pair(a, b)[2] = b
  BY DEF Pair
<1>2. IsWire(Pair(a, b)) /\ DOMAIN Pair(a, b) = 1..Len(Pair(a, b))
  BY <1>1, OwnElements
<1> QED BY <1>1, <1>2

LEMMA TripleOf ==
  ASSUME NEW a, NEW b, NEW d
  PROVE  /\ IsWire(Triple(a, b, d)) /\ DOMAIN Triple(a, b, d) = {1, 2, 3}
         /\ Triple(a, b, d)[1] = a /\ Triple(a, b, d)[2] = b /\ Triple(a, b, d)[3] = d
<1>1. /\ Triple(a, b, d) \in Seq({a, b, d}) /\ Len(Triple(a, b, d)) = 3
      /\ Triple(a, b, d)[1] = a /\ Triple(a, b, d)[2] = b /\ Triple(a, b, d)[3] = d
  BY DEF Triple
<1>2. IsWire(Triple(a, b, d)) /\ DOMAIN Triple(a, b, d) = 1..Len(Triple(a, b, d))
  BY <1>1, OwnElements
<1> QED BY <1>1, <1>2

LEMMA OwnTellings ==
  ASSUME NEW c, NEW pl, NEW en, NEW l, Own(l, c, pl, en)
  PROVE  /\ OwnTelling(Single(l), c, pl, en, l)
         /\ \A a : Own(a, c, pl, en) =>
              /\ OwnTelling(Pair(l, a), c, pl, en, l) /\ OwnTelling(Pair(a, l), c, pl, en, l)
              /\ \A b : Own(b, c, pl, en) => OwnTelling(Triple(a, l, b), c, pl, en, l)
<1>1. OwnTelling(Single(l), c, pl, en, l)
  BY OneEvent DEF OwnTelling
<1>2. ASSUME NEW a, NEW b, Own(a, c, pl, en), Own(b, c, pl, en), a = l \/ b = l
      PROVE  OwnTelling(Pair(a, b), c, pl, en, l)
  <2>1. IsWire(Pair(a, b)) /\ DOMAIN Pair(a, b) = {1, 2} /\ Pair(a, b)[1] = a /\ Pair(a, b)[2] = b
    BY PairOf
  <2> QED BY <1>2, <2>1 DEF OwnTelling
<1>3. ASSUME NEW a, NEW b, Own(a, c, pl, en), Own(b, c, pl, en)
      PROVE  OwnTelling(Triple(a, l, b), c, pl, en, l)
  <2>1. /\ IsWire(Triple(a, l, b)) /\ DOMAIN Triple(a, l, b) = {1, 2, 3}
        /\ Triple(a, l, b)[1] = a /\ Triple(a, l, b)[2] = l /\ Triple(a, l, b)[3] = b
    BY TripleOf
  <2> QED BY <1>3, <2>1 DEF OwnTelling
<1> QED BY <1>1, <1>2, <1>3

\* A call that tells of its end departs.
LEMMA TellsOwn ==
  ASSUME MirrorInv, NEW c \in Calls, NEW E, NEW l, OwnTelling(E, c, place', stays'.ended, l),
         Appends(wire', wire, E), place[c] \in Queues \cup {"outside"},
         place' = [place EXCEPT ![c] = place'[c]], place'[c] \in {"outside", "gone"},
         stays' = [begun |-> stays'.begun, ended |-> stays'.ended, pulled |-> stays'.pulled],
         stays'.ended = stays.ended \cup (IF place[c] \in Queues THEN {<<c, place[c]>>} ELSE {}),
         stays.pulled \subseteq stays'.pulled, stays'.pulled \subseteq stays.pulled \cup {ChannelOf[c]},
         place[c] \in Queues => Ends(l, c, place[c]),
         KindsGrow, waiting' = waiting, counters' = counters
  PROVE  Departs(c)
<1>1. /\ Extended(wire, wire')
      /\ \A j \in DOMAIN wire' \ DOMAIN wire : \E k \in DOMAIN E : wire'[j] = E[k]
      /\ \A k \in DOMAIN E : \E j \in DOMAIN wire' \ DOMAIN wire : wire'[j] = E[k]
  BY AppendExtends DEF MirrorInv, OwnTelling
<1>2. \A j \in DOMAIN wire' \ DOMAIN wire : Own(wire'[j], c, place', stays'.ended)
  BY <1>1 DEF OwnTelling
<1>3. \E j \in DOMAIN wire' \ DOMAIN wire : wire'[j] = l
  BY <1>1 DEF OwnTelling
<1> QED BY <1>1, <1>2, <1>3 DEF Departs, Own

LEMMA Leaving ==
  ASSUME MirrorInv, NEW c \in Calls, LeaveQueue(c) PROVE Departs(c) /\ DeskOK'
<1>. DEFINE q == place[c]
            l == Event("left", c, q)
            en == stays'.ended
<1>1. /\ q \in Queues /\ stays' = [stays EXCEPT !.ended = @ \cup {<<c, q>>}]
      /\ waiting' = waiting /\ counters' = counters /\ desk' = desk /\ mishaps' = mishaps
  BY DEF LeaveQueue, Leaves, Unheard
<1>2. PICK d \in Departures(c) : place' = [place EXCEPT ![c] = d.to] /\ Tell(d.tells)
  BY DEF LeaveQueue
<1>3. /\ stays' = [begun |-> stays'.begun, ended |-> stays'.ended, pulled |-> stays'.pulled]
      /\ stays'.ended = stays.ended \cup {<<c, q>>} /\ stays'.pulled = stays.pulled
  BY <1>1 DEF MirrorInv, PlacesOK
<1>. HIDE DEF q
<1>4. /\ Own(l, c, place', en) /\ Own(Event("answered", c, q), c, place', en)
      /\ Own(Event("abandoned", c, q), c, place', en) /\ Ends(l, c, q)
      /\ place'[c] = "gone" => Own(Event("hung_up", c, Nowhere), c, place', en)
  <2>1. <<c, q>> \in en /\ {"left", "answered", "abandoned"} \subseteq EndKinds
    BY <1>3 DEF EndKinds
  <2> QED BY <1>1, <2>1, OwnEvents
<1>5. place'[c] = d.to /\ place' = [place EXCEPT ![c] = place'[c]]
  BY <1>2 DEF MirrorInv, PlacesOK
<1>6. \/ d.to = "outside" /\ \/ d.tells = Single(l)
                             \/ d.tells = Pair(l, Event("answered", c, q))
                             \/ d.tells = Pair(Event("answered", c, q), l)
      \/ d.to = "gone" /\ \/ d.tells = Triple(Event("abandoned", c, q), l, Event("hung_up", c, Nowhere))
                          \/ d.tells = Pair(Event("hung_up", c, Nowhere), l)
  BY DEF Departures, Single, Pair, Triple, q
<1>. HIDE DEF l
<1>7. OwnTelling(d.tells, c, place', en, l) /\ d.to \in {"outside", "gone"}
  BY <1>4, <1>5, <1>6, OwnTellings
<1>8. Appends(wire', wire, d.tells) /\ KindsGrow
  BY <1>1, <1>2, MishapsGrow DEF Tell, Appends
<1>9. DeskOK'
  BY <1>1, <1>3 DEF MirrorInv, DeskOK
<1> QED BY <1>1, <1>3, <1>4, <1>5, <1>7, <1>8, <1>9, TellsOwn DEF q

LEMMA HangingUp ==
  ASSUME MirrorInv, NEW c \in Calls, HangUp(c) PROVE Departs(c) /\ DeskOK'
<1>. DEFINE over == Event("hung_up", c, Nowhere)
<1>1. /\ place[c] = "outside" /\ place' = [place EXCEPT ![c] = "gone"] /\ stays' = stays
      /\ waiting' = waiting /\ counters' = counters /\ desk' = desk /\ mishaps' = mishaps
  BY DEF HangUp, Unheard
<1>2. /\ stays' = [begun |-> stays'.begun, ended |-> stays'.ended, pulled |-> stays'.pulled]
      /\ stays.ended \subseteq Calls \X Queues
      /\ place[c] \notin Queues /\ place'[c] = "gone" /\ place' = [place EXCEPT ![c] = place'[c]]
  BY <1>1, MirrorAssumption DEF MirrorInv, PlacesOK
<1>3. Own(over, c, place', stays'.ended)
  BY <1>2, OwnEvents
<1>4. \E E : Appends(wire', wire, E) /\ OwnTelling(E, c, place', stays'.ended, over)
  <2>1. CASE Tell(<<over>>)
    <3>1. Appends(wire', wire, Single(over))
      BY <2>1 DEF Tell, Appends, Single
    <3> QED BY <1>3, <3>1, OwnTellings
  <2>2. CASE \E q \in {s[2] : s \in {s \in stays.ended : s[1] = c}}, kind \in {"completed", "agent_dump"} :
               Tell(<<Event(kind, c, q), over>>)
    <3>1. PICK q \in {s[2] : s \in {s \in stays.ended : s[1] = c}}, kind \in {"completed", "agent_dump"} :
               Tell(<<Event(kind, c, q), over>>)
      BY <2>2
    <3>2. q \in Queues /\ <<c, q>> \in stays'.ended
      BY <1>1, <1>2
    <3>3. Own(Event(kind, c, q), c, place', stays'.ended)
      BY <3>2, OwnEvents DEF EndKinds
    <3>4. Appends(wire', wire, Pair(Event(kind, c, q), over))
      BY <3>1 DEF Tell, Appends, Pair
    <3> QED BY <1>3, <3>3, <3>4, OwnTellings
  <2> QED BY <2>1, <2>2 DEF HangUp
<1>. HIDE DEF over
<1>5. PICK E : Appends(wire', wire, E) /\ OwnTelling(E, c, place', stays'.ended, over)
  BY <1>4
<1>6. KindsGrow
  BY <1>1, MishapsGrow
<1>7. DeskOK'
  BY <1>1 DEF MirrorInv, DeskOK
<1>8. stays'.ended = stays.ended \cup (IF place[c] \in Queues THEN {<<c, place[c]>>} ELSE {})
      /\ stays.pulled \subseteq stays'.pulled /\ stays'.pulled \subseteq stays.pulled
  BY <1>1, <1>2
<1> QED BY <1>1, <1>2, <1>5, <1>6, <1>7, <1>8, TellsOwn

LEMMA Redirecting ==
  ASSUME MirrorInv, NEW o \in Operators, NEW c \in Calls,
         desk[o].pc = "asked", ChannelOf[c] = desk[o].channel, place[c] \in Queues \cup {"outside"},
         place' = [place EXCEPT ![c] = "outside"], waiting' = waiting, counters' = counters,
         IF place[c] \in Queues
         THEN /\ stays' = [stays EXCEPT !.ended = @ \cup {<<c, place[c]>>}, !.pulled = @ \cup {ChannelOf[c]}]
              /\ Tell(<<Event("left", c, place[c])>>)
         ELSE stays' = [stays EXCEPT !.pulled = @ \cup {ChannelOf[c]}] /\ UNCHANGED wire,
         \/ desk' = [desk EXCEPT ![o].pc = "answer", ![o].ok = TRUE] /\ NoMishap
         \/ desk' = [desk EXCEPT ![o].pc = "answer"] /\ Mishap("lost")
  PROVE  Departs(c) /\ DeskOK'
<1>1. KindsGrow
  BY MishapsGrow DEF NoMishap
<1>2. /\ stays' = [begun |-> stays'.begun, ended |-> stays'.ended, pulled |-> stays'.pulled]
      /\ stays'.pulled = stays.pulled \cup {ChannelOf[c]}
      /\ stays'.ended = stays.ended \cup (IF place[c] \in Queues THEN {<<c, place[c]>>} ELSE {})
  BY DEF MirrorInv, PlacesOK
<1>3. place'[c] = "outside" /\ place' = [place EXCEPT ![c] = place'[c]]
  BY DEF MirrorInv, PlacesOK
<1>4. DeskOK'
  <2>1. /\ desk' = [p \in Operators |-> desk'[p]] /\ \A p \in Operators \ {o} : desk'[p] = desk[p]
        /\ desk'[o] = [pc |-> desk'[o].pc, channel |-> desk'[o].channel, queue |-> desk'[o].queue,
                       ok |-> desk'[o].ok]
        /\ desk'[o].channel = desk[o].channel
    BY DEF MirrorInv, DeskOK
  <2>2. desk'[o].channel \in stays'.pulled
    BY <1>2, <2>1
  <2>3. \A p \in Operators : desk'[p].ok => desk'[p].channel \in stays'.pulled
    BY <1>2, <2>1, <2>2 DEF MirrorInv, DeskOK
  <2>4. \A p \in Operators : desk'[p] = [pc |-> desk'[p].pc, channel |-> desk'[p].channel,
                                         queue |-> desk'[p].queue, ok |-> desk'[p].ok]
    BY <2>1 DEF MirrorInv, DeskOK
  <2> QED BY <2>1, <2>3, <2>4 DEF DeskOK
<1>5. CASE place[c] \in Queues
  <2>. DEFINE l == Event("left", c, place[c])
  <2>1. Appends(wire', wire, Single(l))
    BY <1>5 DEF Tell, Appends, Single
  <2>2. Own(l, c, place', stays'.ended) /\ Ends(l, c, place[c])
    BY <1>2, <1>5, OwnEvents DEF EndKinds
  <2>. HIDE DEF l
  <2>3. OwnTelling(Single(l), c, place', stays'.ended, l)
    BY <2>2, OwnTellings
  <2>4. Departs(c)
    BY <1>1, <1>2, <1>3, <2>1, <2>2, <2>3, TellsOwn
  <2> QED BY <1>4, <2>4
<1>6. CASE place[c] \notin Queues
  <2>1. wire' = wire /\ Extended(wire, wire') /\ DOMAIN wire' \ DOMAIN wire = {}
    BY <1>6, NoEvents DEF MirrorInv
  <2> QED BY <1>1, <1>2, <1>3, <1>4, <1>6, <2>1 DEF Departs
<1> QED BY <1>5, <1>6

----------------------------------------------------------------------------
(* Rows only go: by their age or by a pickup.                              *)

Thins ==
  /\ UNCHANGED <<place, stays, streamVars>>
  /\ waiting' = [ch \in Channels |-> waiting'[ch]]
  /\ \A ch \in Channels : waiting'[ch] = waiting[ch] \/ waiting'[ch] = NoRow

LEMMA MirrorThins ==
  ASSUME MirrorInv, Thins, DeskOK' PROVE MirrorInv'
<1>1. /\ place' = place /\ stays' = stays /\ wire' = wire /\ mishaps' = mishaps
      /\ waiting' = [ch \in Channels |-> waiting'[ch]]
      /\ \A ch \in Channels : waiting'[ch] # NoRow => waiting'[ch] = waiting[ch]
  BY DEF Thins, streamVars
<1>2. PlacesOK' /\ OneCall(place')
  BY <1>1 DEF MirrorInv, PlacesOK
<1>3. \A ch \in Channels : waiting'[ch] # NoRow => RowOK(waiting'[ch], ch, place', stays'.ended)
  BY <1>1 DEF MirrorInv
<1>4. Never({"disorder"})' => EndsCome(wire', waiting', place')
  <2>. SUFFICES ASSUME Never({"disorder"})' PROVE EndsCome(wire', waiting', place')
    OBVIOUS
  <2>1. EndsCome(wire, waiting, place)
    BY <1>1 DEF MirrorInv, Never
  <2>2. ASSUME NEW ch \in Channels, waiting'[ch] # NoRow PROVE RowEnds(wire', waiting'[ch], ch, place')
    BY <1>1, <2>1, <2>2 DEF EndsCome
  <2>3. ASSUME NEW i \in DOMAIN wire', wire'[i].kind = "join" PROVE JoinEnds(wire', i, place')
    BY <1>1, <2>1, <2>3 DEF EndsCome
  <2> QED BY <2>2, <2>3 DEF EndsCome
<1> QED BY <1>1, <1>2, <1>3, <1>4 DEF MirrorInv

LEMMA ShownThins ==
  ASSUME MirrorInv, ShownInv, Thins, DOMAIN counters \subseteq DOMAIN counters',
         Counted(counters') \subseteq Companies,
         \A ch \in Channels : waiting'[ch] = waiting[ch] \/ Lost' # {} \/ ch \in stays.pulled
  PROVE  ShownInv'
<1>1. /\ place' = place /\ stays' = stays /\ wire' = wire /\ mishaps' = mishaps
      /\ \A ch \in Channels : waiting'[ch] # NoRow => waiting'[ch] = waiting[ch]
  BY DEF Thins, streamVars
<1>2. \A ch \in Channels : waiting'[ch] # NoRow => RowCompany(waiting'[ch]) \in Counted(counters')
  BY <1>1, CountedGrows DEF ShownInv
<1>3. ASSUME Never({"disorder", "restart"})', Lost' = {}, NEW c \in Calls, place'[c] \in Queues,
             ChannelOf[c] \notin stays'.pulled
      PROVE  Announced(c, wire', waiting')
  <2>1. Never({"disorder", "restart"}) /\ Lost = {}
    BY <1>1, <1>3 DEF Lost, Never
  <2>2. Announced(c, wire, waiting)
    BY <1>1, <1>3, <2>1 DEF ShownInv
  <2>3. waiting'[ChannelOf[c]] = waiting[ChannelOf[c]]
    BY <1>1, <1>3, MirrorAssumption
  <2> QED BY <1>1, <2>2, <2>3 DEF Announced
<1> QED BY <1>2, <1>3 DEF ShownInv

\* What the pruning of the mirror itself does.
LEMMA Prunes ==
  ASSUME MirrorInv, NEW m, m = Prune(Mirror)
  PROVE  /\ IsMirror(m) /\ m.waiting = [ch \in Channels |-> m.waiting[ch]]
         /\ \A ch \in Channels : m.waiting[ch] = IF ch \in Expired(waiting) THEN NoRow ELSE waiting[ch]
         /\ DOMAIN counters \subseteq DOMAIN m.counters /\ Counted(m.counters) = Counted(counters)
         /\ ShownInv => \A ch \in Expired(waiting) :
              \E tk \in DOMAIN m.counters : tk[2] = "expired"
<1>1. IsMirror(Mirror) /\ Mirror.waiting = waiting /\ Mirror.counters = counters
  BY DEF Mirror, IsMirror
<1>2. waiting = [ch \in Channels |-> waiting[ch]] /\ Expired(waiting) \subseteq Channels
      /\ \A ch \in Expired(waiting) : waiting[ch] # NoRow
  BY DEF MirrorInv, Expired, Tracked
<1>. DEFINE n == Mirror
<1>. HIDE DEF n
<1>3. IsMirror(n) /\ n.waiting = [ch \in Channels |-> n.waiting[ch]] /\ m = Prune(n)
      /\ n.waiting = waiting /\ n.counters = counters
  BY <1>1, <1>2 DEF n
<1>4. /\ IsMirror(m)
      /\ m.waiting = [ch \in Channels |-> IF ch \in Expired(n.waiting) THEN NoRow ELSE n.waiting[ch]]
      /\ DOMAIN n.counters \subseteq DOMAIN m.counters /\ Counted(m.counters) = Counted(n.counters)
      /\ \A ch \in Expired(n.waiting) : RowCompany(n.waiting[ch]) \in Counted(n.counters) =>
              <<RowCompany(n.waiting[ch]), "expired">> \in DOMAIN m.counters
  BY <1>3, Pruning
<1>5. ASSUME ShownInv, NEW ch \in Expired(waiting) PROVE \E tk \in DOMAIN m.counters : tk[2] = "expired"
  <2>1. RowCompany(waiting[ch]) \in Counted(counters)
    BY <1>2, <1>5 DEF ShownInv
  <2>2. <<RowCompany(waiting[ch]), "expired">> \in DOMAIN m.counters
    BY <1>3, <1>4, <1>5, <2>1
  <2> QED BY <2>2
<1> QED BY <1>3, <1>4, <1>5

\* Every reading of the mirror prunes it.
LEMMA Pruned ==
  ASSUME MirrorInv, SetMirror(Prune(Mirror)), UNCHANGED <<place, stays, streamVars>>, DeskOK'
  PROVE  MirrorInv' /\ (ShownInv => ShownInv')
<1>. DEFINE m == Prune(Mirror)
<1>1. /\ IsMirror(m) /\ m.waiting = [ch \in Channels |-> m.waiting[ch]]
      /\ \A ch \in Channels : m.waiting[ch] = IF ch \in Expired(waiting) THEN NoRow ELSE waiting[ch]
      /\ DOMAIN counters \subseteq DOMAIN m.counters /\ Counted(m.counters) = Counted(counters)
      /\ ShownInv => \A ch \in Expired(waiting) :
              \E tk \in DOMAIN m.counters : tk[2] = "expired"
  BY Prunes
<1>2. waiting' = m.waiting /\ counters' = m.counters
  BY DEF SetMirror
<1>. HIDE DEF m
<1>3. Thins
  BY <1>1, <1>2 DEF Thins
<1>4. MirrorInv'
  BY <1>3, MirrorThins
<1>5. ASSUME ShownInv PROVE ShownInv'
  <2>1. ASSUME NEW ch \in Channels, waiting'[ch] # waiting[ch] PROVE Lost' # {}
    <3>1. PICK tk \in DOMAIN counters' : tk[2] = "expired"
      BY <1>1, <1>2, <1>5, <2>1
    <3> QED BY <3>1 DEF Lost
  <2>2. Counted(counters') \subseteq Companies
    BY <1>1, <1>2, <1>5 DEF ShownInv
  <2> QED BY <1>1, <1>2, <1>3, <1>5, <2>1, <2>2, ShownThins
<1> QED BY <1>4, <1>5

\* A pickup that was answered removes the row of its channel, if it is still of its queue.
LEMMA PickingUp ==
  ASSUME MirrorInv, NEW o \in Operators, PickupAnswer(o)
  PROVE  MirrorInv' /\ (ShownInv => ShownInv')
<1>. DEFINE ch == desk[o].channel
            m == Drop(Mirror, ch, "removed_by_pickup")
<1>1. /\ SetMirror(IF desk[o].ok THEN RemoveRow(Mirror, ch, desk[o].queue) ELSE Mirror)
      /\ desk' = [desk EXCEPT ![o] = IdleDesk] /\ UNCHANGED <<place, stays, streamVars>>
  BY DEF PickupAnswer
<1>2. DeskOK'
  BY <1>1 DEF MirrorInv, DeskOK, IdleDesk
<1>3. IsMirror(Mirror) /\ Mirror.waiting = waiting /\ Mirror.counters = counters
  BY DEF Mirror, IsMirror
<1>4. \/ waiting' = waiting /\ counters' = counters
      \/ /\ desk[o].ok /\ waiting[ch] # NoRow
         /\ waiting' = m.waiting /\ counters' = m.counters
  BY <1>1, <1>3 DEF SetMirror, RemoveRow
<1>5. /\ m.waiting = [waiting EXCEPT ![ch] = NoRow] /\ DOMAIN counters \subseteq DOMAIN m.counters
      /\ DOMAIN m.counters \subseteq DOMAIN counters \cup {<<RowCompany(waiting[ch]), "removed_by_pickup">>}
  <2>. DEFINE n == Mirror
  <2>1. IsMirror(n) /\ n.waiting = waiting /\ n.counters = counters
    BY <1>3
  <2>. HIDE DEF n
  <2>2. /\ IsMirror(Drop(n, ch, "removed_by_pickup"))
        /\ Drop(n, ch, "removed_by_pickup").waiting = [n.waiting EXCEPT ![ch] = NoRow]
        /\ DOMAIN n.counters \subseteq DOMAIN Drop(n, ch, "removed_by_pickup").counters
        /\ DOMAIN Drop(n, ch, "removed_by_pickup").counters
             \subseteq DOMAIN n.counters \cup {<<RowCompany(n.waiting[ch]), "removed_by_pickup">>}
    BY <2>1, Dropping
  <2> QED BY <2>1, <2>2 DEF n
<1>6. desk[o].ok => ch \in stays.pulled /\ ch \in Channels
  BY DEF MirrorInv, DeskOK, PlacesOK
<1>. HIDE DEF m, ch
<1>7. waiting = [c \in Channels |-> waiting[c]]
  BY DEF MirrorInv
<1>8. Thins
  <2>1. waiting' = [c \in Channels |-> waiting'[c]]
    BY <1>4, <1>5, <1>7
  <2>2. \A c \in Channels : waiting'[c] = waiting[c] \/ waiting'[c] = NoRow
    BY <1>4, <1>5, <1>7
  <2> QED BY <1>1, <2>1, <2>2 DEF Thins
<1>9. MirrorInv'
  BY <1>2, <1>8, MirrorThins
<1>10. ASSUME ShownInv PROVE ShownInv'
  <2>1. DOMAIN counters \subseteq DOMAIN counters'
    BY <1>4, <1>5
  <2>2. Counted(counters') \subseteq Companies
    <3>1. CASE counters' = counters
      BY <1>10, <3>1 DEF ShownInv
    <3>2. CASE /\ desk[o].ok /\ waiting[ch] # NoRow
               /\ waiting' = m.waiting /\ counters' = m.counters
      <4>1. RowCompany(waiting[ch]) \in Counted(counters) /\ Counted(counters) \subseteq Companies
        BY <1>6, <1>10, <3>2 DEF ShownInv
      <4>2. Counted(m.counters) \subseteq Counted(counters) \cup {RowCompany(waiting[ch])}
        BY <1>5, CountedBound
      <4> QED BY <3>2, <4>1, <4>2
    <3> QED BY <1>4, <3>1, <3>2
  <2>3. \A c \in Channels : waiting'[c] = waiting[c] \/ c \in stays.pulled
    BY <1>4, <1>5, <1>6, <1>7
  <2> QED BY <1>8, <1>10, <2>1, <2>2, <2>3, ShownThins
<1> QED BY <1>9, <1>10

\* Requests and calls.
LEMMA MirrorSteps ==
  ASSUME MirrorInv, MirrorStep
  PROVE  MirrorInv' /\ (ShownInv => ShownInv')
<1>1. ASSUME NEW c \in Calls, LeaveQueue(c) PROVE MirrorInv' /\ (ShownInv => ShownInv')
  BY <1>1, Leaving, MirrorDeparts, ShownDeparts
<1>2. ASSUME NEW c \in Calls, HangUp(c) PROVE MirrorInv' /\ (ShownInv => ShownInv')
  BY <1>2, HangingUp, MirrorDeparts, ShownDeparts
<1>3. ASSUME NEW c \in Calls, NEW q \in Queues, Enter(c, q) PROVE MirrorInv' /\ (ShownInv => ShownInv')
  BY <1>3, MirrorEnters, ShownEnters
<1>4. ASSUME Read PROVE MirrorInv' /\ (ShownInv => ShownInv')
  <2>1. SetMirror(Prune(Mirror)) /\ desk' = desk /\ UNCHANGED <<place, stays, streamVars>>
    BY <1>4 DEF Read
  <2>2. DeskOK'
    BY <2>1 DEF MirrorInv, DeskOK
  <2> QED BY <2>1, <2>2, Pruned
<1>5. ASSUME NEW o \in Operators, NEW ch \in Channels, QueueForChannel(o, ch)
      PROVE  MirrorInv' /\ (ShownInv => ShownInv')
  <2>. DEFINE q == Prune(Mirror).waiting[ch].queue
  <2>1. /\ SetMirror(Prune(Mirror)) /\ UNCHANGED <<place, stays, streamVars>>
        /\ desk' = [desk EXCEPT ![o] = [IdleDesk EXCEPT !.pc = "asked", !.channel = ch, !.queue = q]]
    BY <1>5 DEF QueueForChannel
  <2>. HIDE DEF q
  <2>2. DeskOK'
    BY <2>1 DEF MirrorInv, DeskOK, IdleDesk
  <2> QED BY <2>1, <2>2, Pruned
<1>6. ASSUME NEW o \in Operators, Redirect(o) PROVE MirrorInv' /\ (ShownInv => ShownInv')
  <2>1. waiting' = waiting /\ counters' = counters /\ now' = now /\ desk[o].pc = "asked"
    BY <1>6 DEF Redirect
  <2>2. CASE \E c \in Calls :
               /\ ChannelOf[c] = desk[o].channel /\ place[c] \in Queues \cup {"outside"}
               /\ place' = [place EXCEPT ![c] = "outside"]
               /\ IF place[c] \in Queues
                  THEN /\ stays' = [stays EXCEPT !.ended = @ \cup {<<c, place[c]>>},
                                                  !.pulled = @ \cup {ChannelOf[c]}]
                       /\ Tell(<<Event("left", c, place[c])>>)
                  ELSE stays' = [stays EXCEPT !.pulled = @ \cup {ChannelOf[c]}] /\ UNCHANGED wire
               /\ \/ desk' = [desk EXCEPT ![o].pc = "answer", ![o].ok = TRUE] /\ NoMishap
                  \/ desk' = [desk EXCEPT ![o].pc = "answer"] /\ Mishap("lost")
    <3>1. PICK c \in Calls : Departs(c) /\ DeskOK'
      BY <2>1, <2>2, Redirecting
    <3> QED BY <3>1, MirrorDeparts, ShownDeparts
  <2>3. CASE desk' = [desk EXCEPT ![o].pc = "answer"] /\ UNCHANGED <<place, stays, wire, mishaps>>
    <3>1. DeskOK'
      BY <2>3 DEF MirrorInv, DeskOK
    <3>2. Thins
      BY <2>1, <2>3 DEF Thins, MirrorInv, streamVars
    <3>3. ShownInv => Counted(counters') \subseteq Companies
      BY <2>1 DEF ShownInv
    <3>4. MirrorInv'
      BY <3>1, <3>2, MirrorThins
    <3> QED BY <2>1, <3>2, <3>3, <3>4, ShownThins
  <2> QED BY <1>6, <2>2, <2>3 DEF Redirect
<1>7. ASSUME NEW o \in Operators, PickupAnswer(o) PROVE MirrorInv' /\ (ShownInv => ShownInv')
  BY <1>7, PickingUp
<1> QED BY <1>1, <1>2, <1>3, <1>4, <1>5, <1>6, <1>7 DEF MirrorStep

----------------------------------------------------------------------------
(* The event at the head of the wire is heard.                             *)

\* w without its head.
Behind(w, v) ==
  /\ IsWire(w) /\ IsWire(v) /\ 1 \in DOMAIN w /\ DOMAIN v = 1..(Len(w) - 1)
  /\ \A j \in DOMAIN v : v[j] = w[j + 1]

LEMMA BehindFacts ==
  ASSUME NEW w, NEW v, Behind(w, v)
  PROVE  /\ DOMAIN w \subseteq Nat /\ DOMAIN v \subseteq Nat
         /\ \A k \in DOMAIN w : k # 1 => k - 1 \in DOMAIN v /\ v[k - 1] = w[k] /\ 1 < k
         /\ \A j \in DOMAIN v : j + 1 \in DOMAIN w /\ v[j] = w[j + 1] /\ 1 < j + 1 /\ 0 < j /\ (j + 1) - 1 = j
         /\ 1 \in DOMAIN w /\ \A k \in DOMAIN w : ~(0 < k /\ k < 1)
<1>1. Len(w) \in Nat /\ DOMAIN w = 1..Len(w) /\ 1 \in DOMAIN w
      /\ DOMAIN v = 1..(Len(w) - 1) /\ \A j \in DOMAIN v : v[j] = w[j + 1]
  BY Wires DEF Behind
<1>2. ASSUME NEW k \in DOMAIN w, k # 1 PROVE k - 1 \in DOMAIN v /\ v[k - 1] = w[k] /\ 1 < k
  <2>1. k - 1 \in DOMAIN v /\ (k - 1) + 1 = k /\ 1 < k
    BY <1>1, <1>2
  <2> QED BY <1>1, <2>1
<1> QED BY <1>1, <1>2

LEMMA EndsBehind ==
  ASSUME NEW w, NEW v, Behind(w, v), NEW c, NEW q
  PROVE  /\ EndsAfter(w, 0, c, q) => Ends(w[1], c, q) \/ EndsAfter(v, 0, c, q)
         /\ \A i \in DOMAIN v : EndsAfter(w, i + 1, c, q) => EndsAfter(v, i, c, q)
         /\ EndsAfter(w, 1, c, q) => EndsAfter(v, 0, c, q)
         /\ \A j \in DOMAIN v : /\ EndsBetween(w, 0, j + 1, c, q) => Ends(w[1], c, q) \/ EndsBetween(v, 0, j, c, q)
                                /\ EndsBetween(w, 1, j + 1, c, q) => EndsBetween(v, 0, j, c, q)
         /\ \A i, j \in DOMAIN v : EndsBetween(w, i + 1, j + 1, c, q) => EndsBetween(v, i, j, c, q)
<1>1. /\ DOMAIN w \subseteq Nat /\ DOMAIN v \subseteq Nat
      /\ \A k \in DOMAIN w : k # 1 => k - 1 \in DOMAIN v /\ v[k - 1] = w[k] /\ 1 < k
  BY BehindFacts
<1>2. ASSUME NEW k \in DOMAIN w, Ends(w[k], c, q), k # 1
      PROVE  /\ EndsAfter(v, 0, c, q)
             /\ \A i \in DOMAIN v : i + 1 < k => EndsAfter(v, i, c, q)
             /\ \A j \in DOMAIN v : k < j + 1 => EndsBetween(v, 0, j, c, q)
             /\ \A i, j \in DOMAIN v : i + 1 < k /\ k < j + 1 => EndsBetween(v, i, j, c, q)
  <2>. DEFINE l == k - 1
  <2>1. l \in DOMAIN v /\ Ends(v[l], c, q) /\ k \in Nat /\ l \in Nat /\ k = l + 1 /\ 0 < l
    BY <1>1, <1>2
  <2>. HIDE DEF l
  <2>2. \A i \in DOMAIN v : (i + 1 < k => i < l) /\ (k < i + 1 => l < i)
    BY <1>1, <2>1
  <2> QED BY <2>1, <2>2 DEF EndsAfter, EndsBetween
<1>3. \A i \in DOMAIN v : ~(i + 1 < 1)
  BY <1>1
<1> QED BY <1>2, <1>3 DEF EndsAfter, EndsBetween

LEMMA RowBehind ==
  ASSUME NEW w, NEW v, Behind(w, v), NEW row, NEW ch, NEW pl, RowEnds(w, row, ch, pl),
         ~Ends(w[1], row.id, row.queue)
  PROVE  RowEnds(v, row, ch, pl)
<1>1. pl[row.id] = row.queue \/ EndsAfter(v, 0, row.id, row.queue)
  BY EndsBehind DEF RowEnds
<1>2. ASSUME NEW j \in DOMAIN v, Joins(v[j], ch) PROVE EndsBetween(v, 0, j, row.id, row.queue)
  <2>1. j + 1 \in DOMAIN w /\ Joins(w[j + 1], ch)
    BY <1>2, BehindFacts
  <2>2. EndsBetween(w, 0, j + 1, row.id, row.queue)
    BY <2>1 DEF RowEnds
  <2> QED BY <1>2, <2>2, EndsBehind
<1> QED BY <1>1, <1>2 DEF RowEnds

LEMMA JoinBehind ==
  ASSUME NEW w, NEW v, Behind(w, v), NEW pl
  PROVE  /\ \A i \in DOMAIN v : JoinEnds(w, i + 1, pl) => JoinEnds(v, i, pl)
         /\ \A row : row.id = w[1].id /\ row.queue = w[1].queue /\ JoinEnds(w, 1, pl) =>
              RowEnds(v, row, w[1].channel, pl)
<1>1. \A j \in DOMAIN v : j + 1 \in DOMAIN w /\ v[j] = w[j + 1] /\ 1 < j + 1
  BY BehindFacts
<1>2. ASSUME NEW i \in DOMAIN v, JoinEnds(w, i + 1, pl) PROVE JoinEnds(v, i, pl)
  <2>1. v[i] = w[i + 1]
    BY <1>1
  <2>2. pl[v[i].id] = v[i].queue \/ EndsAfter(v, i, v[i].id, v[i].queue)
    <3>1. pl[v[i].id] = v[i].queue \/ EndsAfter(w, i + 1, v[i].id, v[i].queue)
      BY <1>2, <2>1 DEF JoinEnds
    <3> QED BY <3>1, EndsBehind
  <2>3. ASSUME NEW j \in DOMAIN v, i < j, Joins(v[j], v[i].channel)
        PROVE  EndsBetween(v, i, j, v[i].id, v[i].queue)
    <3>1. j + 1 \in DOMAIN w /\ Joins(w[j + 1], w[i + 1].channel)
      BY <1>1, <2>1, <2>3
    <3>2. i + 1 < j + 1
      BY <2>3, BehindFacts
    <3>3. EndsBetween(w, i + 1, j + 1, v[i].id, v[i].queue)
      BY <1>2, <2>1, <3>1, <3>2 DEF JoinEnds
    <3> QED BY <3>3, EndsBehind
  <2> QED BY <2>2, <2>3 DEF JoinEnds
<1>3. ASSUME NEW row, row.id = w[1].id, row.queue = w[1].queue, JoinEnds(w, 1, pl)
      PROVE  RowEnds(v, row, w[1].channel, pl)
  <2>1. pl[row.id] = row.queue \/ EndsAfter(v, 0, row.id, row.queue)
    <3>1. pl[row.id] = row.queue \/ EndsAfter(w, 1, row.id, row.queue)
      BY <1>3 DEF JoinEnds
    <3> QED BY <3>1, EndsBehind
  <2>2. ASSUME NEW j \in DOMAIN v, Joins(v[j], w[1].channel)
        PROVE  EndsBetween(v, 0, j, row.id, row.queue)
    <3>1. j + 1 \in DOMAIN w /\ Joins(w[j + 1], w[1].channel) /\ 1 < j + 1
      BY <1>1, <2>2
    <3>2. EndsBetween(w, 1, j + 1, row.id, row.queue)
      BY <1>3, <3>1 DEF JoinEnds
    <3> QED BY <3>2, EndsBehind
  <2> QED BY <2>1, <2>2 DEF RowEnds
<1> QED BY <1>2, <1>3

LEMMA SilentBehind ==
  ASSUME NEW w, NEW v, Behind(w, v), NEW ch
  PROVE  /\ SilentAfter(w, 1, ch) => SilentAfter(v, 0, ch)
         /\ SilentAfter(w, 0, ch) => SilentAfter(v, 0, ch) /\ ~(OfCall(w[1]) /\ w[1].channel = ch)
         /\ \A k \in DOMAIN w : k # 1 /\ SilentAfter(w, k, ch) => SilentAfter(v, k - 1, ch)
<1>1. /\ DOMAIN w \subseteq Nat /\ DOMAIN v \subseteq Nat /\ 1 \in DOMAIN w
      /\ \A j \in DOMAIN v : j + 1 \in DOMAIN w /\ v[j] = w[j + 1] /\ 1 < j + 1 /\ 0 < j + 1
  BY BehindFacts
<1>2. SilentAfter(w, 1, ch) => SilentAfter(v, 0, ch)
  BY <1>1 DEF SilentAfter
<1>3. SilentAfter(w, 0, ch) => SilentAfter(v, 0, ch) /\ ~(OfCall(w[1]) /\ w[1].channel = ch)
  BY <1>1 DEF SilentAfter
<1>4. ASSUME NEW k \in DOMAIN w, k # 1, SilentAfter(w, k, ch) PROVE SilentAfter(v, k - 1, ch)
  <2>1. \A j \in DOMAIN v : k - 1 < j => k < j + 1
    BY <1>1
  <2> QED BY <1>1, <1>4, <2>1 DEF SilentAfter
<1> QED BY <1>2, <1>3, <1>4

\* What the mirror does with an event, in or out of order.
HeardRows(e) ==
  /\ waiting' = [ch \in Channels |-> waiting'[ch]]
  /\ \A ch \in Channels :
       \/ waiting'[ch] = waiting[ch]
       \/ waiting'[ch] = NoRow /\ \/ e.kind = "join" /\ ch \in Expired(waiting)
                                  \/ e.kind \in EndKinds /\ ch = e.channel /\ EndsRow(e, waiting[ch])
       \/ waiting'[ch] = NewRow(e) /\ e.kind = "join" /\ ch = e.channel
  /\ \A ch \in Channels :
       e.kind \in EndKinds /\ ch = e.channel /\ waiting[ch] # NoRow /\ EndsRow(e, waiting[ch])
         => waiting'[ch] = NoRow
  /\ DOMAIN counters \subseteq DOMAIN counters'

\* And what it counts.
HeardCounts(e) ==
  /\ Counted(counters') \subseteq Companies
  /\ \A ch \in Channels : waiting'[ch] # NoRow => RowCompany(waiting'[ch]) \in Counted(counters')
  /\ e.kind = "join" =>
       /\ \A ch \in Channels : waiting[ch] # NoRow /\ waiting'[ch] = NoRow => Lost' # {}
       /\ waiting[e.channel] = NoRow => waiting'[e.channel] = NewRow(e) \/ Lost' # {}

LEMMA JoinHeard ==
  ASSUME MirrorInv, NEW e, e.kind = "join", EventOK(e, place, stays.ended),
         SetMirror(Joined(Mirror, e))
  PROVE  HeardRows(e) /\ (Roomy /\ ShownInv => HeardCounts(e))
<1>. DEFINE n == Prune(Mirror)
            m == Joined(Mirror, e)
            t == CompanyOf[e.queue]
            ech == e.channel
<1>1. /\ IsMirror(n) /\ n.waiting = [ch \in Channels |-> n.waiting[ch]]
      /\ \A ch \in Channels : n.waiting[ch] = IF ch \in Expired(waiting) THEN NoRow ELSE waiting[ch]
      /\ DOMAIN counters \subseteq DOMAIN n.counters /\ Counted(n.counters) = Counted(counters)
      /\ ShownInv => \A ch \in Expired(waiting) :
              \E tk \in DOMAIN n.counters : tk[2] = "expired"
  BY Prunes
<1>2. /\ IsMirror(Mirror) /\ Mirror.waiting = [ch \in Channels |-> Mirror.waiting[ch]]
  BY DEF Mirror, IsMirror, MirrorInv
<1>3. /\ DOMAIN n.counters \subseteq DOMAIN m.counters
      /\ \E c, k : /\ DOMAIN m.counters \subseteq DOMAIN n.counters \cup {<<c, k>>}
                   /\ c = t \/ (n.waiting[ech] # NoRow /\ c = RowCompany(n.waiting[ech]))
      /\ \/ /\ m.waiting = n.waiting
            /\ n.waiting[ech] = NoRow /\ Room(n.counters, t) =>
                 \E k \in LostKinds : <<t, k>> \in DOMAIN m.counters
         \/ /\ m.waiting = [n.waiting EXCEPT ![ech] = NewRow(e)]
            /\ Room(n.counters, t) => t \in Counted(m.counters)
  <2>. DEFINE M == Mirror
  <2>1. IsMirror(M) /\ M.waiting = [ch \in Channels |-> M.waiting[ch]]
    BY <1>2
  <2>. HIDE DEF M
  <2>2. n = Prune(M) /\ t = CompanyOf[e.queue] /\ m = Joined(M, e)
    BY DEF M
  <2>. HIDE DEF n, m, t
  <2>3. JoinedAs(M, e, n, t)
    BY <2>1, <2>2, Joining
  <2> QED BY <2>2, <2>3 DEF JoinedAs
<1>4. waiting' = m.waiting /\ counters' = m.counters
  BY DEF SetMirror
<1>5. ech \in Channels /\ t \in Companies /\ RowCompany(NewRow(e)) = t /\ NewRow(e) # NoRow
  BY MirrorAssumption DEF EventOK, OfCall, RowCompany, NewRow, NoRow
<1>. HIDE DEF n, m, t, ech
<1>6. DOMAIN counters \subseteq DOMAIN counters' /\ DOMAIN n.counters \subseteq DOMAIN counters'
  BY <1>1, <1>3, <1>4
<1>7. \/ waiting' = n.waiting
      \/ waiting' = [n.waiting EXCEPT ![ech] = NewRow(e)]
  BY <1>3, <1>4
<1>8. /\ waiting' = [ch \in Channels |-> waiting'[ch]]
      /\ \A ch \in Channels : waiting'[ch] = n.waiting[ch] \/ (ch = ech /\ waiting'[ch] = NewRow(e))
  BY <1>1, <1>5, <1>7
<1>9. HeardRows(e)
  <2>1. e.kind \notin EndKinds
    BY DEF EndKinds
  <2> QED BY <1>1, <1>6, <1>8, <2>1 DEF HeardRows, ech
<1>10. ASSUME Roomy, ShownInv PROVE HeardCounts(e)
  <2>1. Counted(counters) \subseteq Companies /\ Room(n.counters, t)
    <3>1. Counted(n.counters) \subseteq Companies
      BY <1>1, <1>10 DEF ShownInv
    <3> QED BY <1>1, <1>5, <1>10, <3>1, CountedRoom DEF ShownInv, Room
  <2>2. ASSUME NEW ch \in Channels, n.waiting[ch] # NoRow
        PROVE  n.waiting[ch] = waiting[ch] /\ RowCompany(n.waiting[ch]) \in Counted(counters)
    <3>1. n.waiting[ch] = waiting[ch]
      BY <1>1, <2>2
    <3> QED BY <1>10, <2>2, <3>1 DEF ShownInv
  <2>3. Counted(counters) \subseteq Counted(counters')
    BY <1>6, CountedGrows
  <2>4. Counted(counters') \subseteq Companies
    <3>1. PICK c, k : /\ DOMAIN m.counters \subseteq DOMAIN n.counters \cup {<<c, k>>}
                      /\ c = t \/ (n.waiting[ech] # NoRow /\ c = RowCompany(n.waiting[ech]))
      BY <1>3
    <3>2. c \in Companies
      BY <1>5, <2>1, <2>2, <3>1
    <3>3. Counted(m.counters) \subseteq Counted(n.counters) \cup {c}
      BY <3>1, CountedBound
    <3> QED BY <1>1, <1>4, <2>1, <3>2, <3>3
  <2>5. ASSUME NEW ch \in Channels, waiting'[ch] # NoRow PROVE RowCompany(waiting'[ch]) \in Counted(counters')
    <3>1. CASE waiting'[ch] = n.waiting[ch]
      BY <2>2, <2>3, <2>5, <3>1
    <3>2. CASE waiting' = [n.waiting EXCEPT ![ech] = NewRow(e)] /\ t \in Counted(m.counters)
      BY <1>1, <1>4, <1>5, <2>2, <2>3, <2>5, <3>2
    <3> QED BY <1>3, <1>4, <2>1, <3>1, <3>2
  <2>6. (\E tk \in DOMAIN n.counters : tk[2] = "expired") => Lost' # {}
    BY <1>6 DEF Lost
  <2>7. ASSUME NEW ch \in Channels, waiting[ch] # NoRow, waiting'[ch] = NoRow PROVE Lost' # {}
    <3>1. n.waiting[ch] = NoRow
      BY <1>5, <1>8, <2>7
    <3>2. ch \in Expired(waiting)
      BY <1>1, <2>7, <3>1
    <3> QED BY <1>1, <1>10, <2>6, <3>2
  <2>8. ASSUME waiting[ech] = NoRow, waiting'[ech] # NewRow(e) PROVE Lost' # {}
    <3>1. n.waiting[ech] = NoRow
      BY <1>1, <1>5, <2>8
    <3>2. waiting' # [n.waiting EXCEPT ![ech] = NewRow(e)]
      BY <1>1, <1>5, <2>8
    <3>3. PICK k \in LostKinds : <<t, k>> \in DOMAIN counters'
      BY <1>3, <1>4, <2>1, <3>1, <3>2
    <3> QED BY <3>3 DEF Lost, LostKinds
  <2> QED BY <2>4, <2>5, <2>7, <2>8 DEF HeardCounts, ech
<1> QED BY <1>9, <1>10

LEMMA EndHeard ==
  ASSUME MirrorInv, NEW e, e.kind \in EndKinds, e.channel \in Channels, SetMirror(Ended(Mirror, e))
  PROVE  HeardRows(e) /\ (ShownInv => HeardCounts(e))
<1>. DEFINE ech == e.channel
            row == waiting[ech]
<1>1. IsMirror(Mirror) /\ Mirror.waiting = waiting /\ Mirror.counters = counters
  BY DEF Mirror, IsMirror
<1>2. /\ DOMAIN counters \subseteq DOMAIN counters'
      /\ \/ waiting' = waiting /\ counters' = counters
         \/ /\ row # NoRow
            /\ \E k : DOMAIN counters' \subseteq DOMAIN counters \cup {<<RowCompany(row), k>>}
      /\ waiting' = IF row # NoRow /\ EndsRow(e, row) THEN [waiting EXCEPT ![ech] = NoRow] ELSE waiting
  <2>. DEFINE M == Mirror
  <2>1. IsMirror(M) /\ M.waiting = waiting /\ M.counters = counters
    BY <1>1
  <2>2. waiting' = Ended(M, e).waiting /\ counters' = Ended(M, e).counters
    BY DEF SetMirror
  <2>. HIDE DEF M
  <2>3. /\ DOMAIN M.counters \subseteq DOMAIN Ended(M, e).counters
        /\ \/ Ended(M, e) = M
           \/ \E k : DOMAIN Ended(M, e).counters \subseteq
                       DOMAIN M.counters \cup {<<RowCompany(M.waiting[e.channel]), k>>}
        /\ Ended(M, e) = M \/ M.waiting[e.channel] # NoRow
        /\ Ended(M, e).waiting = IF M.waiting[e.channel] # NoRow /\ EndsRow(e, M.waiting[e.channel])
                                  THEN [M.waiting EXCEPT ![e.channel] = NoRow] ELSE M.waiting
    BY <2>1, Ending
  <2> QED BY <2>1, <2>2, <2>3
<1>3. waiting = [ch \in Channels |-> waiting[ch]] /\ e.kind # "join"
  BY DEF MirrorInv, EndKinds
<1>. HIDE DEF row, ech
<1>4. /\ waiting' = [ch \in Channels |-> waiting'[ch]]
      /\ \A ch \in Channels : \/ waiting'[ch] = waiting[ch]
                              \/ waiting'[ch] = NoRow /\ ch = ech /\ EndsRow(e, row)
      /\ ech \in Channels /\ row # NoRow /\ EndsRow(e, row) => waiting'[ech] = NoRow
  BY <1>2, <1>3
<1>5. HeardRows(e)
  BY <1>2, <1>3, <1>4 DEF HeardRows, ech, row
<1>6. ASSUME ShownInv PROVE HeardCounts(e)
  <2>1. Counted(counters) \subseteq Counted(counters')
    BY <1>2, CountedGrows
  <2>2. \A ch \in Channels : waiting'[ch] # NoRow => RowCompany(waiting'[ch]) \in Counted(counters')
    <3>1. \A ch \in Channels : waiting[ch] # NoRow => RowCompany(waiting[ch]) \in Counted(counters)
      BY <1>6 DEF ShownInv
    <3> QED BY <1>4, <2>1, <3>1
  <2>3. Counted(counters') \subseteq Companies
    <3>1. CASE counters' = counters
      BY <1>6, <3>1 DEF ShownInv
    <3>2. CASE /\ row # NoRow
               /\ \E k : DOMAIN counters' \subseteq DOMAIN counters \cup {<<RowCompany(row), k>>}
      <4>1. RowCompany(row) \in Counted(counters) /\ Counted(counters) \subseteq Companies
        BY <1>6, <3>2 DEF ShownInv, row, ech
      <4>2. Counted(counters') \subseteq Counted(counters) \cup {RowCompany(row)}
        BY <3>2, CountedBound
      <4> QED BY <4>1, <4>2
    <3> QED BY <1>2, <3>1, <3>2
  <2> QED BY <1>3, <2>2, <2>3 DEF HeardCounts
<1> QED BY <1>5, <1>6

LEMMA EventHeard ==
  ASSUME MirrorInv, NEW e, EventOK(e, place, stays.ended), SetMirror(ApplyEvent(Mirror, e))
  PROVE  HeardRows(e) /\ (Roomy /\ ShownInv => HeardCounts(e))
<1>1. CASE e.kind = "join"
  <2>1. ApplyEvent(Mirror, e) = Joined(Mirror, e)
    BY <1>1 DEF ApplyEvent, EndKinds
  <2> QED BY <1>1, <2>1, JoinHeard
<1>2. CASE e.kind \in EndKinds
  <2>1. ApplyEvent(Mirror, e) = Ended(Mirror, e)
    BY <1>2 DEF ApplyEvent, EndKinds
  <2>2. e.channel \in Channels
    BY <1>2 DEF EventOK
  <2> QED BY <1>2, <2>1, <2>2, EndHeard
<1>3. CASE e.kind \notin {"join"} \cup EndKinds
  <2>1. ApplyEvent(Mirror, e) = Mirror
    BY <1>3 DEF ApplyEvent
  <2>2. waiting' = waiting /\ counters' = counters /\ waiting = [ch \in Channels |-> waiting[ch]]
    BY <2>1 DEF SetMirror, Mirror, MirrorInv
  <2>3. HeardRows(e)
    BY <1>3, <2>2 DEF HeardRows
  <2>4. ShownInv => HeardCounts(e)
    BY <1>3, <2>2 DEF HeardCounts, ShownInv
  <2> QED BY <2>3, <2>4
<1> QED BY <1>1, <1>2, <1>3

\* What the reader does to the mirror with an event.
Hears(i, again) ==
  /\ i \in DOMAIN wire /\ wire' = IF again THEN wire ELSE RemoveAt(wire, i)
  /\ SetMirror(ApplyEvent(Mirror, wire[i])) /\ UNCHANGED <<place, stays, desk>>
  /\ KindsGrow /\ (Never({"disorder"})' => i = 1 /\ ~again)

LEMMA Hearing ==
  ASSUME MirrorInv, NEW i \in DOMAIN wire, NEW again \in BOOLEAN, HandleAmiEvent(i, again)
  PROVE  Hears(i, again)
<1>. DEFINE d == Disorder(i, again)
<1>1. /\ wire' = IF again THEN wire ELSE RemoveAt(wire, i)
      /\ SetMirror(ApplyEvent(Mirror, wire[i])) /\ UNCHANGED <<place, stays, desk>>
  BY DEF HandleAmiEvent, FirstTrackers, Take
<1>2. \E kinds, noted : MishapsAnd(d \cup kinds, noted)
  <2>1. \/ Mishaps(d) \/ MishapsAnd(d, {"failed"}) \/ Mishaps(d \cup {"failed"})
        \/ \E how \in {"full", "failed", "torn"} : Mishaps(d \cup {how})
    BY DEF HandleAmiEvent
  <2>2. d \cup {} = d
    OBVIOUS
  <2>. HIDE DEF d
  <2> QED BY <2>1, <2>2 DEF Mishaps
<1>3. KindsGrow /\ d \subseteq mishaps'.kinds
  BY <1>2, MishapsGrow DEF MishapsAnd
<1>4. Never({"disorder"})' => i = 1 /\ ~again
  BY <1>3 DEF Never, Disorder
<1> QED BY <1>1, <1>3, <1>4 DEF Hears

\* The wire afterwards.
LEMMA WireHeard ==
  ASSUME MirrorInv, NEW i \in DOMAIN wire, NEW again \in BOOLEAN, Hears(i, again)
  PROVE  /\ IsWire(wire') /\ \A j \in DOMAIN wire' : \E k \in DOMAIN wire : wire'[j] = wire[k]
         /\ Never({"disorder"})' => i = 1 /\ Behind(wire, wire')
<1>1. IsWire(wire)
  BY DEF MirrorInv
<1>2. CASE again
  BY <1>1, <1>2 DEF Hears
<1>3. CASE ~again
  <2>1. wire' = RemoveAt(wire, i)
    BY <1>3 DEF Hears
  <2>2. /\ IsWire(wire') /\ Len(wire) \in Nat /\ DOMAIN wire = 1..Len(wire)
        /\ DOMAIN wire' = 1..(Len(wire) - 1)
        /\ \A j \in DOMAIN wire' : wire'[j] = IF j < i THEN wire[j] ELSE wire[j + 1]
    BY <1>1, <2>1, WireTake
  <2>3. \A j \in DOMAIN wire' : j \in DOMAIN wire /\ j + 1 \in DOMAIN wire /\ (i = 1 => ~(j < i))
    BY <2>2
  <2>4. \A j \in DOMAIN wire' : \E k \in DOMAIN wire : wire'[j] = wire[k]
    BY <2>2, <2>3
  <2>5. i = 1 => Behind(wire, wire')
    BY <1>1, <2>2, <2>3 DEF Behind
  <2> QED BY <2>2, <2>4, <2>5 DEF Hears
<1> QED BY <1>2, <1>3

LEMMA MirrorHears ==
  ASSUME MirrorInv, NEW i \in DOMAIN wire, NEW again \in BOOLEAN, Hears(i, again)
  PROVE  MirrorInv'
<1>. DEFINE e == wire[i]
<1>1. /\ place' = place /\ stays' = stays /\ desk' = desk /\ KindsGrow
      /\ SetMirror(ApplyEvent(Mirror, e))
  BY DEF Hears
<1>2. EventOK(e, place, stays.ended)
  BY DEF MirrorInv
<1>. HIDE DEF e
<1>3. HeardRows(e)
  BY <1>1, <1>2, EventHeard
<1>4. /\ IsWire(wire') /\ \A j \in DOMAIN wire' : \E k \in DOMAIN wire : wire'[j] = wire[k]
      /\ Never({"disorder"})' => i = 1 /\ Behind(wire, wire')
  BY WireHeard
<1>5. PlacesOK' /\ DeskOK' /\ OneCall(place')
  BY <1>1 DEF MirrorInv, PlacesOK, DeskOK
<1>6. \A j \in DOMAIN wire' : EventOK(wire'[j], place', stays'.ended)
  BY <1>1, <1>4 DEF MirrorInv
<1>7. e.kind = "join" => NewRow(e) # NoRow /\ RowOK(NewRow(e), e.channel, place, stays.ended)
                         /\ NewRow(e).id = e.id /\ NewRow(e).queue = e.queue
  BY <1>2, MirrorAssumption DEF EventOK, OfCall, RowOK, NewRow, NoRow
<1>8. \A ch \in Channels : waiting'[ch] # NoRow =>
        waiting'[ch] = waiting[ch] \/ (waiting'[ch] = NewRow(e) /\ e.kind = "join" /\ ch = e.channel)
  BY <1>3 DEF HeardRows
<1>9. \A ch \in Channels : waiting'[ch] # NoRow => RowOK(waiting'[ch], ch, place', stays'.ended)
  BY <1>1, <1>7, <1>8 DEF MirrorInv
<1>10. Never({"disorder"})' => EndsCome(wire', waiting', place')
  <2>. SUFFICES ASSUME Never({"disorder"})' PROVE EndsCome(wire', waiting', place')
    OBVIOUS
  <2>1. EndsCome(wire, waiting, place) /\ Behind(wire, wire') /\ e = wire[1]
    BY <1>1, <1>4, NeverBefore DEF MirrorInv, e
  <2>2. 1 \in DOMAIN wire /\ (e.kind = "join" => JoinEnds(wire, 1, place))
    BY <2>1 DEF EndsCome, Behind
  <2>3. ASSUME NEW ch \in Channels, waiting'[ch] # NoRow PROVE RowEnds(wire', waiting'[ch], ch, place')
    <3>1. CASE waiting'[ch] = waiting[ch]
      <4>. DEFINE row == waiting[ch]
      <4>1. RowEnds(wire, row, ch, place) /\ RowOK(row, ch, place, stays.ended) /\ row # NoRow
        BY <2>1, <2>3, <3>1 DEF EndsCome, MirrorInv
      <4>. HIDE DEF row
      <4>2. ASSUME Ends(e, row.id, row.queue) PROVE FALSE
        <5>1. e.kind \in EndKinds /\ e.channel = ch /\ e.id = row.id
          BY <1>2, <4>1, <4>2 DEF Ends, OfCall, EventOK, RowOK
        <5>2. EndsRow(e, row)
          BY <4>2, <5>1 DEF Ends, EndsRow
        <5>3. waiting'[ch] = NoRow
          BY <1>3, <4>1, <5>1, <5>2 DEF HeardRows, row
        <5> QED BY <2>3, <5>3
      <4>3. RowEnds(wire', row, ch, place)
        BY <2>1, <4>1, <4>2, RowBehind
      <4> QED BY <1>1, <3>1, <4>3 DEF row
    <3>2. CASE waiting'[ch] = NewRow(e) /\ e.kind = "join" /\ ch = e.channel
      <4>. DEFINE row == NewRow(e)
      <4>1. row.id = wire[1].id /\ row.queue = wire[1].queue /\ JoinEnds(wire, 1, place)
        BY <1>7, <2>1, <2>2, <3>2
      <4>. HIDE DEF row
      <4>2. RowEnds(wire', row, wire[1].channel, place)
        BY <2>1, <4>1, JoinBehind
      <4> QED BY <1>1, <2>1, <3>2, <4>2 DEF row
    <3> QED BY <1>8, <2>3, <3>1, <3>2
  <2>4. ASSUME NEW j \in DOMAIN wire', wire'[j].kind = "join" PROVE JoinEnds(wire', j, place')
    <3>1. j + 1 \in DOMAIN wire /\ wire'[j] = wire[j + 1]
      BY <2>1, BehindFacts
    <3>2. JoinEnds(wire, j + 1, place)
      BY <2>1, <2>4, <3>1 DEF EndsCome
    <3>3. JoinEnds(wire', j, place)
      BY <2>1, <3>2, JoinBehind
    <3> QED BY <1>1, <3>3
  <2> QED BY <2>3, <2>4 DEF EndsCome
<1>11. waiting' = [ch \in Channels |-> waiting'[ch]]
  BY <1>3 DEF HeardRows
<1> QED BY <1>1, <1>4, <1>5, <1>6, <1>9, <1>10, <1>11 DEF MirrorInv, KindsGrow

LEMMA ShownHears ==
  ASSUME Roomy, MirrorInv, ShownInv, NEW i \in DOMAIN wire, NEW again \in BOOLEAN, Hears(i, again)
  PROVE  ShownInv'
<1>. DEFINE e == wire[i]
<1>1. /\ place' = place /\ stays' = stays /\ KindsGrow /\ SetMirror(ApplyEvent(Mirror, e))
  BY DEF Hears
<1>2. EventOK(e, place, stays.ended)
  BY DEF MirrorInv
<1>. HIDE DEF e
<1>3. HeardRows(e) /\ HeardCounts(e)
  BY <1>1, <1>2, EventHeard
<1>4. Never({"disorder"})' => i = 1 /\ Behind(wire, wire')
  BY WireHeard
<1>5. ASSUME Never({"disorder", "restart"})', Lost' = {}, NEW c \in Calls, place'[c] \in Queues,
             ChannelOf[c] \notin stays'.pulled
      PROVE  Announced(c, wire', waiting')
  <2>. DEFINE ch == ChannelOf[c]
  <2>1. Never({"disorder"})' /\ Never({"disorder", "restart"}) /\ Lost = {}
    <3>1. DOMAIN counters \subseteq DOMAIN counters'
      BY <1>3 DEF HeardRows
    <3> QED BY <1>1, <1>5, <3>1, NeverBefore DEF Lost, Never
  <2>2. Behind(wire, wire') /\ e = wire[1] /\ EndsCome(wire, waiting, place)
    BY <1>1, <1>4, <2>1, NeverBefore DEF MirrorInv, e
  <2>3. Announced(c, wire, waiting) /\ ch \in Channels
    BY <1>1, <1>5, <2>1, MirrorAssumption DEF ShownInv
  <2>. HIDE DEF ch
  \* The caller is shown already.
  <2>4. CASE waiting[ch].id = c /\ SilentAfter(wire, 0, ch)
    <3>1. SilentAfter(wire', 0, ch) /\ ~(OfCall(e) /\ e.channel = ch)
      BY <2>2, <2>4, SilentBehind
    <3>2. waiting[ch] # NoRow
      BY <2>4, MirrorAssumption DEF NoRow
    <3>3. waiting'[ch] = waiting[ch]
      <4>1. CASE e.kind = "join"
        <5>1. OfCall(e)
          BY <1>2, <4>1 DEF EventOK, OfCall
        <5>2. waiting'[ch] = waiting[ch] \/ waiting'[ch] = NoRow
          BY <1>3, <2>3, <3>1, <5>1 DEF HeardRows
        <5> QED BY <1>3, <1>5, <2>3, <3>2, <4>1, <5>2 DEF HeardCounts
      <4>2. CASE e.kind # "join"
        <5>1. ASSUME ch = e.channel, EndsRow(e, waiting[ch]) PROVE FALSE
          <6>1. e.id = c /\ e.kind \in EndKinds
            BY <2>4, <5>1, MirrorAssumption DEF EndsRow
          <6> QED BY <3>1, <5>1, <6>1 DEF OfCall
        <5> QED BY <1>3, <2>3, <4>2, <5>1 DEF HeardRows
      <4> QED BY <4>1, <4>2
    <3> QED BY <2>4, <3>1, <3>3 DEF Announced, ch
  \* The join is under way.
  <2>5. CASE JoinComes(wire, c)
    <3>1. PICK k \in DOMAIN wire : Joins(wire[k], ch) /\ wire[k].id = c /\ SilentAfter(wire, k, ch)
      BY <2>5 DEF JoinComes, ch
    <3>2. CASE k # 1
      <4>1. k - 1 \in DOMAIN wire' /\ wire'[k - 1] = wire[k]
        BY <2>2, <3>2, BehindFacts
      <4>2. SilentAfter(wire', k - 1, ch)
        BY <2>2, <3>1, <3>2, SilentBehind
      <4> QED BY <3>1, <4>1, <4>2 DEF Announced, JoinComes, ch
    <3>3. CASE k = 1
      <4>1. Joins(e, ch) /\ e.id = c /\ SilentAfter(wire', 0, ch) /\ e.kind = "join" /\ e.channel = ch
        BY <2>2, <3>1, <3>3, SilentBehind DEF Joins
      <4>2. waiting[ch] = NoRow
        <5>1. 1 \in DOMAIN wire /\ ~\E j \in DOMAIN wire : 0 < j /\ j < 1
          BY <2>2, BehindFacts
        <5>2. ASSUME waiting[ch] # NoRow PROVE FALSE
          <6>1. EndsBetween(wire, 0, 1, waiting[ch].id, waiting[ch].queue)
            BY <2>2, <2>3, <3>1, <3>3, <5>1, <5>2 DEF EndsCome, RowEnds
          <6> QED BY <5>1, <6>1 DEF EndsBetween
        <5> QED BY <5>2
      <4>3. waiting'[ch] = NewRow(e)
        BY <1>3, <1>5, <4>1, <4>2 DEF HeardCounts
      <4>4. waiting'[ch].id = c
        BY <4>1, <4>3 DEF NewRow
      <4> QED BY <4>1, <4>4 DEF Announced, ch
    <3> QED BY <3>2, <3>3
  <2> QED BY <2>3, <2>4, <2>5 DEF Announced, ch
<1>6. /\ Counted(counters') \subseteq Companies
      /\ \A ch \in Channels : waiting'[ch] # NoRow => RowCompany(waiting'[ch]) \in Counted(counters')
  BY <1>3 DEF HeardCounts
<1> QED BY <1>5, <1>6 DEF ShownInv

----------------------------------------------------------------------------
(* The other steps of the process.                                         *)

\* A finite set put in sequence has its elements and no others.
LEMMA InSequence ==
  ASSUME NEW S, IsFiniteSet(S), NEW q, q = SetToSeq(S)
  PROVE  q \in Seq(S) /\ {q[i] : i \in DOMAIN q} = S
<1>. DEFINE n == Cardinality(S)
<1>1. n \in Nat /\ ExistsBijection(1..n, S)
  BY FS_CardinalityType
<1>2. \E f \in [1..n -> S] : IsInjective(f)
  BY <1>1 DEF ExistsBijection, Bijection, Injection, IsInjective
<1>3. q \in [1..n -> S] /\ IsInjective(q)
  BY <1>2 DEF SetToSeq
<1>. HIDE DEF n
<1>4. q \in Injection(1..n, S)
  BY <1>3 DEF Injection, IsInjective
<1>5. IsFiniteSet(1..n) /\ Cardinality(1..n) = n
  <2>1. 1 \in Int /\ n \in Int
    BY <1>1
  <2>2. IsFiniteSet(1..n) /\ Cardinality(1..n) = IF 1 > n THEN 0 ELSE n - 1 + 1
    BY <2>1, FS_Interval
  <2> QED BY <1>1, <2>2
<1>6. q \in Surjection(1..n, S)
  BY <1>4, <1>5, FS_Injection DEF n
<1>7. {q[i] : i \in DOMAIN q} = S
  BY <1>3, <1>6 DEF Surjection
<1> QED BY <1>1, <1>3, <1>7

\* Events of other parts.
LEMMA TellsForeign ==
  ASSUME MirrorInv, NEW E, IsWire(E), Appends(wire', wire, E), \A k \in DOMAIN E : Foreign(E[k]),
         UNCHANGED mirrorVars, KindsGrow
  PROVE  Elsewhere
<1>1. /\ Extended(wire, wire')
      /\ \A j \in DOMAIN wire' \ DOMAIN wire : \E k \in DOMAIN E : wire'[j] = E[k]
  BY AppendExtends DEF MirrorInv
<1> QED BY <1>1 DEF Elsewhere

LEMMA TellsOneForeign ==
  ASSUME MirrorInv, NEW e, Tell(<<e>>), Foreign(e), UNCHANGED mirrorVars, KindsGrow
  PROVE  Elsewhere
<1>1. Appends(wire', wire, Single(e))
  BY DEF Tell, Appends, Single
<1>2. IsWire(Single(e)) /\ \A k \in DOMAIN Single(e) : Foreign(Single(e)[k])
  BY OneEvent
<1> QED BY <1>1, <1>2, TellsForeign

LEMMA TellsNothing ==
  ASSUME MirrorInv, wire' = wire, UNCHANGED mirrorVars, KindsGrow
  PROVE  Elsewhere
<1>1. Extended(wire, wire) /\ DOMAIN wire \ DOMAIN wire = {}
  BY NoEvents DEF MirrorInv
<1> QED BY <1>1 DEF Elsewhere

LEMMA SlaElsewhere ==
  ASSUME MirrorInv, OfSla PROVE Elsewhere
<1>1. UNCHANGED mirrorVars
  BY DEF OfSla
<1>2. CASE SlaSnapshot
  <2>1. wire' = wire /\ (NoMishap \/ \E how : Trouble(how))
    BY <1>2 DEF SlaSnapshot
  <2>2. KindsGrow
    BY <2>1, MishapsGrow DEF NoMishap, Trouble, Note
  <2> QED BY <1>1, <2>1, <2>2, TellsNothing
<1>3. ASSUME NEW q \in SlaQueues, NEW id \in SlaIds, NEW kind \in {"abandoned", "answered"}, NEW hold,
             OfferEnds(kind, q, id, hold)
      PROVE  Elsewhere
  <2>. DEFINE e == [kind |-> kind, channel |-> AnyChannel, queue |-> q, id |-> id, hold |-> hold]
  <2>1. Tell(<<e>>) /\ mishaps' = mishaps
    BY <1>3 DEF OfferEnds
  <2>2. Foreign(e)
    BY DeskAssumption DEF Foreign
  <2>. HIDE DEF e
  <2> QED BY <1>1, <2>1, <2>2, TellsOneForeign, MishapsGrow
<1> QED BY <1>2, <1>3 DEF OfSla, SlaStep

LEMMA RecordsElsewhere ==
  ASSUME MirrorInv, OfCdrs \/ OfCalls PROVE Elsewhere
<1>1. UNCHANGED mirrorVars
  BY DEF OfCdrs, OfCalls
<1>2. ASSUME NEW e, Emit(e), e.kind \in {"cdr", "dial_begin", "missed", "quality", "survey"} PROVE Elsewhere
  <2>1. Tell(<<e>>) /\ mishaps' = mishaps
    BY <1>2 DEF Emit
  <2>2. Foreign(e)
    BY <1>2 DEF Foreign, EndKinds
  <2> QED BY <1>1, <2>1, <2>2, TellsOneForeign, MishapsGrow
<1>3. ASSUME NEW leg, NEW t, NEW x, NEW d, NEW s, CallEnds(leg, t, x, d, s) PROVE Elsewhere
  BY <1>2, <1>3 DEF CallEnds
<1>4. ASSUME NEW x, NEW external, CallRings(x, external) PROVE Elsewhere
  BY <1>2, <1>4 DEF CallRings
<1>5. ASSUME NEW x, NEW report, QualityTold(x, report) PROVE Elsewhere
  BY <1>2, <1>5 DEF QualityTold
<1>6. ASSUME NEW t, CallLost(t) PROVE Elsewhere
  BY <1>2, <1>6 DEF CallLost
<1>7. ASSUME NEW x, NEW score, CallRated(x, score) PROVE Elsewhere
  BY <1>2, <1>7 DEF CallRated
<1> QED BY <1>3, <1>4, <1>5, <1>6, <1>7 DEF OfCdrs, OfCalls, CdrStep, CallStep

LEMMA OneThenMore ==
  ASSUME NEW a, NEW b
  PROVE  <<a>> \o <<>> = <<a>> /\ <<a>> \o <<b>> = <<a, b>>
<1>. DEFINE s == <<a>>
            t == <<b>>
            u == <<a, b>>
            v == s \o t
<1>1. /\ s \in Seq({a, b}) /\ t \in Seq({a, b}) /\ u \in Seq({a, b})
      /\ Len(s) = 1 /\ Len(t) = 1 /\ Len(u) = 2 /\ s[1] = a /\ t[1] = b /\ u[1] = a /\ u[2] = b
  OBVIOUS
<1>. HIDE DEF s, t, u
<1>2. v \in Seq({a, b}) /\ Len(v) = Len(s) + Len(t)
      /\ \A i \in 1..(Len(s) + Len(t)) : v[i] = IF i <= Len(s) THEN s[i] ELSE t[i - Len(s)]
  BY <1>1, ConcatProperties
<1>. HIDE DEF v
<1>3. Len(v) = Len(u) /\ \A i \in 1..Len(u) : v[i] = u[i]
  BY <1>1, <1>2
<1>4. v = u
  BY <1>1, <1>2, <1>3, SeqEqual
<1>5. s \o <<>> = s
  BY <1>1, ConcatEmptySeq
<1> QED BY <1>4, <1>5 DEF s, t, u, v

\* What an agent's change tells of.
PauseToldOK(e) == e.kind = "member_pause" => e.agent \in Agents /\ e.paused \in BOOLEAN
OfAgents(e) == e.kind \in {"hint"} \cup MemberKinds /\ PauseToldOK(e)
LEMMA BoardTells ==
  ASSUME BoardStep
  PROVE  /\ mishaps' = mishaps \/ \E kind : Note(kind)
         /\ \E E : /\ IsWire(E) /\ Appends(wire', wire, E)
                   /\ \A k \in DOMAIN E : OfAgents(E[k])
<1>0. ASSUME NEW kind \in MemberKinds, NEW p \in Pairs, NEW seat
      PROVE  MemberEvent(kind, p, seat).kind = kind /\ OfAgents(MemberEvent(kind, p, seat))
  BY <1>0 DEF MemberEvent, OfAgents, PauseToldOK, Pairs
<1>1. ASSUME NEW p \in Pairs, NEW operation, NEW seat, MemberChange(p, operation, seat)
      PROVE  /\ mishaps' = mishaps \/ \E kind : Note(kind)
             /\ \E E : /\ IsWire(E) /\ Appends(wire', wire, E)
                       /\ \A k \in DOMAIN E : OfAgents(E[k])
  <2>1. mishaps' = mishaps \/ \E kind : Note(kind)
    BY <1>1 DEF MemberChange, NoMishap
  <2>2. \E e : Tell(<<e>>) /\ OfAgents(e)
    BY <1>0, <1>1 DEF MemberChange, MemberKinds
  <2>3. PICK e : Appends(wire', wire, Single(e)) /\ OfAgents(e)
    BY <2>2 DEF Tell, Appends, Single
  <2>4. IsWire(Single(e)) /\ \A k \in DOMAIN Single(e) : OfAgents(Single(e)[k])
    BY <2>3, OneEvent
  <2> QED BY <2>1, <2>3, <2>4
<1>2. ASSUME NEW x, NEW seat, SetPause(x, seat)
      PROVE  /\ mishaps' = mishaps
             /\ \E E : /\ IsWire(E) /\ Appends(wire', wire, E)
                       /\ \A k \in DOMAIN E : OfAgents(E[k])
  <2>. DEFINE mine == {p \in Pairs : p[2] = x /\ seats[p] # "out"}
              T == {MemberEvent("member_pause", p, seat) : p \in mine}
              E == SetToSeq(T)
  <2>1. IsFiniteSet(Pairs)
    BY FS_Product, BoardAssumption DEF Pairs
  <2>2. IsFiniteSet(mine)
    BY <2>1, FS_Subset
  <2>. HIDE DEF mine
  <2>3. IsFiniteSet(T)
    <3>. DEFINE f == [p \in mine |-> MemberEvent("member_pause", p, seat)]
    <3>1. f \in Surjection(mine, T)
      BY DEF Surjection
    <3>. HIDE DEF f, T
    <3> QED BY <2>2, <3>1, FS_Surjection
  <2>4. \A e \in T : OfAgents(e)
    BY <1>0 DEF mine, MemberKinds
  <2>5. mishaps' = mishaps /\ Appends(wire', wire, E)
    BY <1>2 DEF SetPause, NoMishap, Tell, Appends, mine
  <2>. HIDE DEF T
  <2>6. E \in Seq(T)
    BY <2>3, InSequence
  <2>. HIDE DEF E
  <2>7. IsWire(E) /\ \A k \in DOMAIN E : E[k] \in T
    BY <2>6, OwnElements
  <2> QED BY <2>4, <2>5, <2>7
<1>3. ASSUME NEW p \in Pairs, NEW h, NEW s, DeviceChange(p, h, s)
      PROVE  /\ mishaps' = mishaps
             /\ \E E : /\ IsWire(E) /\ Appends(wire', wire, E)
                       /\ \A k \in DOMAIN E : OfAgents(E[k])
  <2>. DEFINE a == [kind |-> "hint", hint |-> h, state |-> s]
              b == MemberEvent("member_status", p, seats[p])
  <2>1. OfAgents(a) /\ OfAgents(b)
    BY <1>0 DEF OfAgents, PauseToldOK, MemberKinds
  <2>2. mishaps' = mishaps /\ (Tell(<<a>> \o <<>>) \/ Tell(<<a>> \o <<b>>))
    BY <1>3 DEF DeviceChange, NoMishap
  <2>. HIDE DEF a, b
  <2>3. <<a>> \o <<>> = <<a>> /\ <<a>> \o <<b>> = <<a, b>>
    BY OneThenMore
  <2>4. Appends(wire', wire, Single(a)) \/ Appends(wire', wire, Pair(a, b))
    BY <2>2, <2>3 DEF Tell, Appends, Single, Pair
  <2>5. /\ IsWire(Single(a)) /\ \A k \in DOMAIN Single(a) : OfAgents(Single(a)[k])
        /\ IsWire(Pair(a, b)) /\ \A k \in DOMAIN Pair(a, b) : OfAgents(Pair(a, b)[k])
    BY <2>1, OneEvent, PairOf
  <2> QED BY <2>2, <2>4, <2>5
<1> QED BY <1>1, <1>2, <1>3 DEF BoardStep

LEMMA BoardElsewhere ==
  ASSUME MirrorInv, OfBoard PROVE Elsewhere
<1>1. UNCHANGED mirrorVars
  BY DEF OfBoard
<1>2. PICK E : /\ IsWire(E) /\ Appends(wire', wire, E)
               /\ \A k \in DOMAIN E : OfAgents(E[k])
  BY BoardTells DEF OfBoard
<1>3. KindsGrow
  <2>1. mishaps' = mishaps \/ \E kind : Note(kind)
    BY BoardTells DEF OfBoard
  <2> QED BY <2>1, MishapsGrow DEF Note
<1>4. \A k \in DOMAIN E : Foreign(E[k])
  BY <1>2 DEF OfAgents, Foreign, MemberKinds, EndKinds
<1> QED BY <1>1, <1>2, <1>3, <1>4, TellsForeign

LEMMA PresenceElsewhere ==
  ASSUME MirrorInv, OfPresence \/ Clock PROVE Elsewhere
<1>1. UNCHANGED mirrorVars
  BY DEF OfPresence, Clock
<1>2. CASE OfPresence
  <2>1. wire' = wire /\ (NoMishap \/ Mishap("failed") \/ Note("overlap"))
    BY <1>2 DEF OfPresence, PresenceStep, SavePresence, AskPresence
  <2>2. KindsGrow
    BY <2>1, MishapsGrow DEF NoMishap, Note
  <2> QED BY <1>1, <2>1, <2>2, TellsNothing
<1>3. CASE Clock
  <2>1. wire' = wire /\ (NoMishap \/ Mishap("setback"))
    BY <1>3 DEF Clock, SetClock
  <2>2. KindsGrow
    BY <2>1, MishapsGrow DEF NoMishap
  <2> QED BY <1>1, <2>1, <2>2, TellsNothing
<1> QED BY <1>2, <1>3

\* Nothing is under way.
LEMMA NoWire ==
  ASSUME NEW w, w = <<>>
  PROVE  IsWire(w) /\ DOMAIN w = {}
BY DEF IsWire

LEMMA MirrorRestarts ==
  ASSUME MirrorInv, Restart PROVE MirrorInv' /\ (ShownInv => ShownInv')
<1>1. /\ wire' = <<>> /\ waiting' = [ch \in Channels |-> NoRow] /\ counters' = <<>>
      /\ desk' = [o \in Operators |-> IdleDesk] /\ place' = place /\ stays' = stays
      /\ Mishap("restart")
  BY DEF Restart
<1>2. IsWire(wire') /\ DOMAIN wire' = {} /\ KindsGrow /\ "restart" \in mishaps'.kinds
  BY <1>1, NoWire, MishapsGrow DEF Mishap, Mishaps, MishapsAnd
<1>3. PlacesOK' /\ DeskOK' /\ OneCall(place')
  BY <1>1 DEF MirrorInv, PlacesOK, DeskOK, IdleDesk
<1>4. EndsCome(wire', waiting', place')
  BY <1>1, <1>2 DEF EndsCome
<1>5. MirrorInv'
  BY <1>1, <1>2, <1>3, <1>4 DEF MirrorInv, KindsGrow
<1>6. Counted(counters') = {}
  BY <1>1 DEF Counted
<1>7. ShownInv'
  BY <1>1, <1>2, <1>6 DEF ShownInv, Never
<1> QED BY <1>5, <1>7

LEMMA MirrorBegins == DeskInit => MirrorInv /\ ShownInv
<1>. SUFFICES ASSUME DeskInit PROVE MirrorInv /\ ShownInv
  OBVIOUS
<1>1. /\ wire = <<>> /\ mishaps = [left |-> MaxMishaps, kinds |-> {}]
      /\ waiting = [ch \in Channels |-> NoRow] /\ counters = <<>>
      /\ desk = [o \in Operators |-> IdleDesk] /\ place = [c \in Calls |-> "new"]
      /\ stays = [begun |-> 0, ended |-> {}, pulled |-> {}]
  BY DEF DeskInit, StreamInit, MirrorInit
<1>2. IsWire(wire) /\ DOMAIN wire = {}
  BY <1>1, NoWire
<1>3. PlacesOK /\ DeskOK /\ OneCall(place)
  BY <1>1 DEF PlacesOK, DeskOK, IdleDesk, OneCall, Outside
<1>4. EndsCome(wire, waiting, place)
  BY <1>1, <1>2 DEF EndsCome
<1>5. MirrorInv
  BY <1>1, <1>2, <1>3, <1>4 DEF MirrorInv
<1>6. Counted(counters) = {}
  BY <1>1 DEF Counted
<1>7. \A c \in Calls : place[c] \notin Queues
  BY <1>1, MirrorAssumption
<1>8. ShownInv
  BY <1>1, <1>6, <1>7 DEF ShownInv
<1> QED BY <1>5, <1>8

\* Whatever the process does.
LEMMA DeskSteps ==
  ASSUME MirrorInv, [DeskNext]_deskVars
  PROVE  MirrorInv' /\ (Roomy /\ ShownInv => ShownInv')
<1>1. ASSUME Elsewhere PROVE MirrorInv' /\ (Roomy /\ ShownInv => ShownInv')
  BY <1>1, MirrorElsewhere, ShownElsewhere
<1>2. ASSUME NEW i \in DOMAIN wire, NEW again \in BOOLEAN, HandleAmiEvent(i, again)
      PROVE  MirrorInv' /\ (Roomy /\ ShownInv => ShownInv')
  BY <1>2, Hearing, MirrorHears, ShownHears
<1>3. CASE Restart
  BY <1>3, MirrorRestarts
<1>4. CASE OfMirror
  BY <1>4, MirrorSteps DEF OfMirror
<1>5. CASE OfSla \/ OfBoard \/ OfPresence \/ Clock \/ OfCdrs \/ OfCalls
  BY <1>1, <1>5, SlaElsewhere, BoardElsewhere, PresenceElsewhere, RecordsElsewhere
<1>6. CASE UNCHANGED deskVars
  <2>1. wire' = wire /\ mishaps' = mishaps /\ UNCHANGED mirrorVars
    BY <1>6 DEF deskVars, streamVars
  <2>2. KindsGrow
    BY <2>1, MishapsGrow
  <2> QED BY <1>1, <2>1, <2>2, TellsNothing
<1> QED BY <1>2, <1>3, <1>4, <1>5, <1>6 DEF DeskNext

\* The events under way and the rows tell of the calls as they were, and in order and once
\* they say how they are: whoever reads them to the end knows who waits.
THEOREM MirrorIsBehind == DeskSpec => []MirrorInv
<1>1. DeskInit => MirrorInv
  BY MirrorBegins
<1>2. MirrorInv /\ [DeskNext]_deskVars => MirrorInv'
  BY DeskSteps
<1> QED BY <1>1, <1>2, PTL DEF DeskSpec

\* Where every company can be counted nobody who waits is forgotten without a trace.
THEOREM CallersAreAnnounced ==
  ASSUME Roomy
  PROVE  DeskSpec => [](MirrorInv /\ ShownInv)
<1>1. DeskInit => MirrorInv /\ ShownInv
  BY MirrorBegins
<1>2. MirrorInv /\ ShownInv /\ [DeskNext]_deskVars => (MirrorInv /\ ShownInv)'
  BY DeskSteps
<1> QED BY <1>1, <1>2, PTL DEF DeskSpec

\* Nobody is shown who does not wait.
NobodyElse ==
  wire = <<>> /\ Never({"disorder"}) => \A ch \in Tracked(waiting) : place[waiting[ch].id] = waiting[ch].queue

LEMMA ShownWait == MirrorInv => NobodyElse
<1>. SUFFICES ASSUME MirrorInv, wire = <<>>, Never({"disorder"}), NEW ch \in Tracked(waiting)
              PROVE  place[waiting[ch].id] = waiting[ch].queue
  BY DEF NobodyElse
<1>1. DOMAIN wire = {}
  BY NoWire
<1>2. RowEnds(wire, waiting[ch], ch, place)
  BY DEF MirrorInv, EndsCome, Tracked
<1> QED BY <1>1, <1>2 DEF RowEnds, EndsAfter

\* Once every event has been heard, each in its turn and once, nobody is shown who does
\* not wait (queue_state.py), whatever the limits of the mirror.
THEOREM NobodyElseIsShown == DeskSpec => []NobodyElse
BY MirrorIsBehind, ShownWait, PTL

\* Once every event has been heard, each in its turn and once, the mirror shows exactly
\* the callers that wait, but for those it dropped and counted and those that a pickup
\* moved (queue_state.py).
THEOREM MirrorFollows ==
  ASSUME Roomy
  PROVE  DeskSpec => []MirrorFollowsQueue
<1>1. MirrorInv /\ ShownInv => MirrorFollowsQueue
  <2>. SUFFICES ASSUME MirrorInv, ShownInv, wire = <<>>, Never({"disorder"})
                PROVE  /\ \A ch \in Tracked(waiting) : place[waiting[ch].id] = waiting[ch].queue
                       /\ \A c \in Calls :
                            place[c] \in Queues /\ ChannelOf[c] \notin stays.pulled
                              /\ Never({"restart"}) /\ Lost = {}
                            => waiting[ChannelOf[c]].id = c
    BY DEF MirrorFollowsQueue
  <2>1. \A ch \in Tracked(waiting) : place[waiting[ch].id] = waiting[ch].queue
    BY ShownWait DEF NobodyElse
  <2>2. ASSUME NEW c \in Calls, place[c] \in Queues, ChannelOf[c] \notin stays.pulled,
               Never({"restart"}), Lost = {}
        PROVE  waiting[ChannelOf[c]].id = c
    <3>1. Never({"disorder", "restart"})
      BY <2>2 DEF Never
    <3>2. Announced(c, wire, waiting)
      BY <2>2, <3>1 DEF ShownInv
    <3>3. ~JoinComes(wire, c)
      BY NoWire DEF JoinComes
    <3> QED BY <3>2, <3>3 DEF Announced
  <2> QED BY <2>1, <2>2
<1> QED BY <1>1, CallersAreAnnounced, PTL

----------------------------------------------------------------------------
(* Why a row goes.                                                         *)

\* A row went because its own call left its own queue, because it was old, or because a
\* pickup was answered.
GoneRightly(ch) ==
  \/ <<waiting[ch].id, waiting[ch].queue>> \in stays.ended
  \/ ch \in Expired(waiting)
  \/ \E o \in Operators : desk[o].pc = "answer" /\ desk[o].channel = ch

LEMMA EndsOwnStay ==
  ASSUME NEW e, NEW row, NEW ch, NEW pl, NEW en, EndsRow(e, row), EventOK(e, pl, en), RowOK(row, ch, pl, en)
  PROVE  <<row.id, row.queue>> \in en
<1>1. e.id = row.id /\ row.id \in Calls /\ row.queue \in Queues /\ e.kind # "join" /\ OfCall(e)
  BY MirrorAssumption DEF EndsRow, RowOK, OfCall, EndKinds
<1>2. \/ e.queue \in Queues /\ <<e.id, e.queue>> \in en
      \/ e.queue = Nowhere /\ pl[e.id] = "gone"
  BY <1>1 DEF EventOK
<1>3. row.queue # Nowhere /\ row.queue # "gone"
  BY <1>1, MirrorAssumption
<1>4. CASE e.queue \in Queues
  BY <1>1, <1>2, <1>4, MirrorAssumption DEF EndsRow
<1>5. CASE e.queue = Nowhere /\ pl[e.id] = "gone"
  BY <1>1, <1>3, <1>5 DEF RowOK, Stayed
<1> QED BY <1>2, <1>4, <1>5

LEMMA RowsGoRightly ==
  ASSUME MirrorInv, [DeskNext]_deskVars, ~Restart, NEW ch \in Channels,
         waiting[ch] # NoRow, waiting'[ch] = NoRow
  PROVE  GoneRightly(ch)
<1>0. waiting' # waiting
  OBVIOUS
<1>1. ASSUME SetMirror(Prune(Mirror)) PROVE ch \in Expired(waiting)
  <2>. DEFINE m == Prune(Mirror)
  <2>1. \A c \in Channels : m.waiting[c] = IF c \in Expired(waiting) THEN NoRow ELSE waiting[c]
    BY Prunes
  <2>2. waiting' = m.waiting
    BY <1>1 DEF SetMirror
  <2>. HIDE DEF m
  <2> QED BY <2>1, <2>2
<1>2. ASSUME NEW i \in DOMAIN wire, NEW again \in BOOLEAN, HandleAmiEvent(i, again)
      PROVE  GoneRightly(ch)
  <2>. DEFINE e == wire[i]
  <2>1. SetMirror(ApplyEvent(Mirror, e))
    BY <1>2, Hearing DEF Hears
  <2>2. EventOK(e, place, stays.ended) /\ RowOK(waiting[ch], ch, place, stays.ended)
    BY DEF MirrorInv
  <2>. HIDE DEF e
  <2>3. HeardRows(e)
    BY <2>1, <2>2, EventHeard
  <2>4. NewRow(e) # NoRow \/ e.kind # "join"
    BY <2>2, MirrorAssumption DEF EventOK, OfCall, NewRow, NoRow
  <2>5. ch \in Expired(waiting) \/ EndsRow(e, waiting[ch])
    BY <2>3, <2>4 DEF HeardRows
  <2> QED BY <2>2, <2>5, EndsOwnStay DEF GoneRightly
<1>3. ASSUME OfMirror PROVE GoneRightly(ch)
  <2>1. ASSUME NEW c \in Calls, LeaveQueue(c) \/ HangUp(c) \/ \E q \in Queues : Enter(c, q) PROVE FALSE
    BY <1>0, <2>1 DEF LeaveQueue, HangUp, Enter, Unheard
  <2>2. CASE Read \/ \E o \in Operators, c \in Channels : QueueForChannel(o, c)
    BY <1>1, <2>2 DEF Read, QueueForChannel, GoneRightly
  <2>3. ASSUME NEW o \in Operators, Redirect(o) PROVE FALSE
    BY <1>0, <2>3 DEF Redirect
  <2>4. ASSUME NEW o \in Operators, PickupAnswer(o) PROVE GoneRightly(ch)
    <3>. DEFINE n == Mirror
                x == desk[o].channel
    <3>1. IsMirror(n) /\ n.waiting = waiting
      BY DEF Mirror, IsMirror
    <3>2. desk[o].pc = "answer" /\ (waiting' = n.waiting \/ waiting' = Drop(n, x, "removed_by_pickup").waiting)
      BY <2>4 DEF PickupAnswer, SetMirror, RemoveRow
    <3>. HIDE DEF n, x
    <3>3. Drop(n, x, "removed_by_pickup").waiting = [n.waiting EXCEPT ![x] = NoRow]
      BY <3>1, Dropping
    <3>4. waiting = [c \in Channels |-> waiting[c]]
      BY DEF MirrorInv
    <3>5. x = ch
      BY <1>0, <3>1, <3>2, <3>3, <3>4
    <3> QED BY <3>2, <3>5 DEF GoneRightly, x
  <2> QED BY <1>3, <2>1, <2>2, <2>3, <2>4 DEF OfMirror, MirrorStep
<1>4. CASE OfSla \/ OfBoard \/ OfPresence \/ Clock \/ OfCdrs \/ OfCalls
  BY <1>0, <1>4 DEF OfSla, OfBoard, OfPresence, Clock, OfCdrs, OfCalls, mirrorVars
<1>5. CASE UNCHANGED deskVars
  BY <1>0, <1>5 DEF deskVars, mirrorVars
<1> QED BY <1>2, <1>3, <1>4, <1>5 DEF DeskNext

\* Whatever the order in which events come, a row of the mirror is only removed by the end
\* of its own call's stay in its own queue, by its age or by a pickup: "Nunca deixar um
\* evento antigo remover a nova chamada" (queue_state.py).
THEOREM RowsEnd == DeskSpec => RowsEndWithTheirCall
<1>1. MirrorInv /\ [DeskNext]_deskVars =>
        [\A ch \in Channels :
           waiting[ch] # NoRow /\ waiting'[ch] = NoRow /\ ~Restart =>
             \/ <<waiting[ch].id, waiting[ch].queue>> \in stays.ended
             \/ ch \in Expired(waiting)
             \/ \E o \in Operators : desk[o].pc = "answer" /\ desk[o].channel = ch]_mirrorVars
  <2>1. MirrorInv /\ [DeskNext]_deskVars =>
          \A ch \in Channels : waiting[ch] # NoRow /\ waiting'[ch] = NoRow /\ ~Restart => GoneRightly(ch)
    BY RowsGoRightly
  <2> QED BY <2>1 DEF GoneRightly
<1> QED BY <1>1, MirrorIsBehind, PTL DEF DeskSpec, RowsEndWithTheirCall

----------------------------------------------------------------------------
(* The board.                                                              *)

\* The last event of a seat says how it is; without one the row does.
OfSeat(e, p) == e.kind \in MemberKinds /\ e.queue = p[1] /\ e.agent = p[2]
Creates(e, p) == OfSeat(e, p) /\ e.kind \in {"member_added", "member_status"}
Removes(e, p) == OfSeat(e, p) /\ e.kind = "member_removed"
LastOf(w, i, p) == OfSeat(w[i], p) /\ \A j \in DOMAIN w : i < j => ~OfSeat(w[j], p)
Paused(seat) == seat \notin {"out", "free"}
Says(e, seat) == IF seat = "out" THEN e.kind = "member_removed"
                 ELSE e.kind # "member_removed" /\ e.paused = Paused(seat)
SeatHeard(p, w, seat, row) ==
  /\ \A i \in DOMAIN w : LastOf(w, i, p) => Says(w[i], seat)
  /\ row.known /\ (\A i \in DOMAIN w : ~OfSeat(w[i], p)) => seat # "out" /\ row.paused = Paused(seat)

\* The row of a seat is there to stay, or will be.
Comes(p, w, row) ==
  \/ row.known /\ \A i \in DOMAIN w : ~Removes(w[i], p)
  \/ \E i \in DOMAIN w : Creates(w[i], p) /\ \A j \in DOMAIN w : i < j => ~Removes(w[j], p)
Claimed(w, rows) == {p \in Pairs : rows[p].known \/ \E i \in DOMAIN w : Creates(w[i], p)}

\* The same of the hints.
OfHint(e, h) == e.kind = "hint" /\ e.hint = h
LastHint(w, i, h) == OfHint(w[i], h) /\ \A j \in DOMAIN w : i < j => ~OfHint(w[j], h)
HintHeard(h, w, lamp, states) ==
  /\ \A i \in DOMAIN w : LastHint(w, i, h) => w[i].state = lamp
  /\ h \in DOMAIN states /\ (\A i \in DOMAIN w : ~OfHint(w[i], h)) => states[h] = lamp

\* Who is shown as paused has a paused seat, or is told of otherwise.
PauseOf(e, x) == e.kind = "member_pause" /\ e.agent = x
LastPause(w, i, x) == PauseOf(w[i], x) /\ \A j \in DOMAIN w : i < j => ~PauseOf(w[j], x)
SeatPaused(x, places) == \E p \in Pairs : p[2] = x /\ Paused(places[p])
PauseHeard(x, w, shown, places) ==
  /\ \A i \in DOMAIN w : LastPause(w, i, x) /\ w[i].paused => SeatPaused(x, places)
  /\ shown[x].paused /\ (\A i \in DOMAIN w : ~PauseOf(w[i], x)) => SeatPaused(x, places)

FileTrue ==
  /\ overrides = wanted
  /\ \A t \in PresenceThreads : presence[t].pc = "loaded" =>
       presence[t].data = overrides /\ \A u \in PresenceThreads \ {t} : presence[u].pc # "loaded"

BoardOK ==
  /\ seats = [p \in Pairs |-> seats[p]] /\ members = [p \in Pairs |-> members[p]]
  /\ pauses = [x \in Agents |-> pauses[x]] /\ lamps = [h \in Hints |-> lamps[h]]
  /\ presence = [t \in PresenceThreads |-> presence[t]]
  /\ told \in Nat /\ DOMAIN lit \subseteq Hints
  /\ \A i \in DOMAIN wire : wire[i].kind = "hint" => wire[i].hint \in Hints
BoardHeard ==
  /\ \A p \in Pairs : /\ SeatHeard(p, wire, seats[p], members[p])
                      /\ told <= MaxSeats /\ seats[p] # "out" => Comes(p, wire, members[p])
  /\ \A h \in Hints : HintHeard(h, wire, lamps[h], lit)
  /\ Never({"failed", "left_paused"}) => \A x \in Agents : PauseHeard(x, wire, pauses, seats)
BoardInv ==
  /\ BoardOK
  /\ Cardinality(Claimed(wire, members)) <= told
  /\ Never({"disorder", "restart"}) => BoardHeard
  /\ Never({"overlap"}) => FileTrue

\* There are finitely many seats.
LEMMA SeatsFinite ==
  /\ IsFiniteSet(Pairs) /\ \A w, rows : IsFiniteSet(Claimed(w, rows)) /\ Cardinality(Claimed(w, rows)) \in Nat
  /\ \A S, T : T \subseteq Pairs /\ S \subseteq T => Cardinality(S) <= Cardinality(T)
<1>1. IsFiniteSet(Pairs)
  BY FS_Product, BoardAssumption DEF Pairs
<1>2. ASSUME NEW T, T \subseteq Pairs PROVE IsFiniteSet(T)
  BY <1>1, <1>2, FS_Subset
<1>3. \A w, rows : Claimed(w, rows) \subseteq Pairs
  BY DEF Claimed
<1>4. \A w, rows : IsFiniteSet(Claimed(w, rows)) /\ Cardinality(Claimed(w, rows)) \in Nat
  BY <1>2, <1>3, FS_CardinalityType
<1>5. ASSUME NEW S, NEW T, T \subseteq Pairs, S \subseteq T PROVE Cardinality(S) <= Cardinality(T)
  <2>1. IsFiniteSet(T) /\ S \in SUBSET T
    BY <1>2, <1>5
  <2> QED BY <2>1, FS_Subset
<1> QED BY <1>1, <1>4, <1>5

----------------------------------------------------------------------------
(* New events of seats, hints and pauses.                                  *)

LEMMA SeatTold ==
  ASSUME NEW w, NEW v, Extended(w, v), NEW p, NEW seat, NEW old, NEW row, SeatHeard(p, w, old, row),
         \A j \in DOMAIN v \ DOMAIN w : OfSeat(v[j], p) => Says(v[j], seat),
         seat = old \/ \E j \in DOMAIN v \ DOMAIN w : OfSeat(v[j], p)
  PROVE  SeatHeard(p, v, seat, row)
<1>1. \A i \in DOMAIN w : i \in DOMAIN v /\ v[i] = w[i] /\ \A j \in DOMAIN v \ DOMAIN w : i < j
  BY DEF Extended
<1>2. ASSUME NEW i \in DOMAIN v, LastOf(v, i, p) PROVE Says(v[i], seat)
  <2>1. CASE i \notin DOMAIN w
    BY <1>2, <2>1 DEF LastOf
  <2>2. CASE i \in DOMAIN w
    <3>1. \A j \in DOMAIN v \ DOMAIN w : ~OfSeat(v[j], p)
      BY <1>1, <1>2, <2>2 DEF LastOf
    <3>2. LastOf(w, i, p)
      BY <1>1, <1>2, <2>2 DEF LastOf
    <3> QED BY <1>1, <2>2, <3>1, <3>2 DEF SeatHeard
  <2> QED BY <2>1, <2>2
<1>3. ASSUME row.known, \A i \in DOMAIN v : ~OfSeat(v[i], p)
      PROVE  seat # "out" /\ row.paused = Paused(seat)
  <2>1. seat = old /\ \A i \in DOMAIN w : ~OfSeat(w[i], p)
    BY <1>1, <1>3
  <2> QED BY <1>3, <2>1 DEF SeatHeard
<1> QED BY <1>2, <1>3 DEF SeatHeard

LEMMA ComesStill ==
  ASSUME NEW w, NEW v, Extended(w, v), NEW p, NEW row,
         \A j \in DOMAIN v \ DOMAIN w : ~Removes(v[j], p),
         Comes(p, w, row) \/ \E j \in DOMAIN v \ DOMAIN w : Creates(v[j], p)
  PROVE  Comes(p, v, row)
<1>1. \A i \in DOMAIN w : i \in DOMAIN v /\ v[i] = w[i] /\ \A j \in DOMAIN v \ DOMAIN w : i < j
  BY DEF Extended
<1>2. DOMAIN v \subseteq Nat
  BY Wires DEF Extended
<1>3. CASE Comes(p, w, row)
  BY <1>1, <1>3 DEF Comes
<1>4. CASE \E j \in DOMAIN v \ DOMAIN w : Creates(v[j], p)
  <2>1. PICK j \in DOMAIN v \ DOMAIN w : Creates(v[j], p)
    BY <1>4
  <2>2. \A k \in DOMAIN v : j < k => k \notin DOMAIN w
    BY <1>1, <1>2
  <2> QED BY <2>1, <2>2 DEF Comes
<1> QED BY <1>3, <1>4

LEMMA HintTold ==
  ASSUME NEW w, NEW v, Extended(w, v), NEW h, NEW lamp, NEW old, NEW states, HintHeard(h, w, old, states),
         \A j \in DOMAIN v \ DOMAIN w : OfHint(v[j], h) => v[j].state = lamp,
         lamp = old \/ \E j \in DOMAIN v \ DOMAIN w : OfHint(v[j], h)
  PROVE  HintHeard(h, v, lamp, states)
<1>1. \A i \in DOMAIN w : i \in DOMAIN v /\ v[i] = w[i] /\ \A j \in DOMAIN v \ DOMAIN w : i < j
  BY DEF Extended
<1>2. ASSUME NEW i \in DOMAIN v, LastHint(v, i, h) PROVE v[i].state = lamp
  <2>1. CASE i \notin DOMAIN w
    BY <1>2, <2>1 DEF LastHint
  <2>2. CASE i \in DOMAIN w
    <3>1. \A j \in DOMAIN v \ DOMAIN w : ~OfHint(v[j], h)
      BY <1>1, <1>2, <2>2 DEF LastHint
    <3>2. LastHint(w, i, h)
      BY <1>1, <1>2, <2>2 DEF LastHint
    <3> QED BY <1>1, <2>2, <3>1, <3>2 DEF HintHeard
  <2> QED BY <2>1, <2>2
<1>3. ASSUME h \in DOMAIN states, \A i \in DOMAIN v : ~OfHint(v[i], h) PROVE states[h] = lamp
  <2>1. lamp = old /\ \A i \in DOMAIN w : ~OfHint(w[i], h)
    BY <1>1, <1>3
  <2> QED BY <1>3, <2>1 DEF HintHeard
<1> QED BY <1>2, <1>3 DEF HintHeard

LEMMA PauseTold ==
  ASSUME NEW w, NEW v, Extended(w, v), NEW x, NEW shown, NEW old, NEW places, PauseHeard(x, w, shown, old),
         \A j \in DOMAIN v \ DOMAIN w : PauseOf(v[j], x) /\ v[j].paused => SeatPaused(x, places),
         \/ SeatPaused(x, old) => SeatPaused(x, places)
         \/ \E j \in DOMAIN v \ DOMAIN w : PauseOf(v[j], x)
  PROVE  PauseHeard(x, v, shown, places)
<1>1. \A i \in DOMAIN w : i \in DOMAIN v /\ v[i] = w[i] /\ \A j \in DOMAIN v \ DOMAIN w : i < j
  BY DEF Extended
<1>2. ASSUME NEW i \in DOMAIN v, LastPause(v, i, x), v[i].paused PROVE SeatPaused(x, places)
  <2>1. CASE i \notin DOMAIN w
    BY <1>2, <2>1 DEF LastPause
  <2>2. CASE i \in DOMAIN w
    <3>1. \A j \in DOMAIN v \ DOMAIN w : ~PauseOf(v[j], x)
      BY <1>1, <1>2, <2>2 DEF LastPause
    <3>2. LastPause(w, i, x) /\ w[i].paused
      BY <1>1, <1>2, <2>2 DEF LastPause
    <3> QED BY <2>2, <3>1, <3>2 DEF PauseHeard
  <2> QED BY <2>1, <2>2
<1>3. ASSUME shown[x].paused, \A i \in DOMAIN v : ~PauseOf(v[i], x) PROVE SeatPaused(x, places)
  <2>1. (SeatPaused(x, old) => SeatPaused(x, places)) /\ \A i \in DOMAIN w : ~PauseOf(w[i], x)
    BY <1>1, <1>3
  <2> QED BY <1>3, <2>1 DEF PauseHeard
<1> QED BY <1>2, <1>3 DEF PauseHeard

\* The seats that are claimed: new ones are created by new events.
LEMMA ClaimedTold ==
  ASSUME NEW w, NEW v, Extended(w, v), NEW rows, NEW p,
         \A j \in DOMAIN v \ DOMAIN w, r \in Pairs : Creates(v[j], r) => r = p
  PROVE  /\ Cardinality(Claimed(v, rows)) <= Cardinality(Claimed(w, rows)) + 1
         /\ (\A j \in DOMAIN v \ DOMAIN w : ~Creates(v[j], p)) =>
              Cardinality(Claimed(v, rows)) <= Cardinality(Claimed(w, rows))
<1>1. \A i \in DOMAIN w : v[i] = w[i]
  BY DEF Extended
<1>2. Claimed(v, rows) \subseteq Claimed(w, rows) \cup {p}
  BY <1>1 DEF Claimed
<1>3. (\A j \in DOMAIN v \ DOMAIN w : ~Creates(v[j], p)) => Claimed(v, rows) \subseteq Claimed(w, rows)
  BY <1>1 DEF Claimed
<1>. DEFINE A == Claimed(w, rows)
            B == Claimed(v, rows)
<1>4. IsFiniteSet(A) /\ A \subseteq Pairs /\ Cardinality(A) \in Nat
  BY SeatsFinite DEF Claimed
<1>. HIDE DEF A, B
<1>5. /\ IsFiniteSet(A \cup {p})
      /\ Cardinality(A \cup {p}) = IF p \in A THEN Cardinality(A) ELSE Cardinality(A) + 1
  BY <1>4, FS_AddElement
<1>6. Cardinality(B) <= Cardinality(A \cup {p})
  <2>1. B \in SUBSET (A \cup {p})
    BY <1>2 DEF A, B
  <2> QED BY <1>5, <2>1, FS_Subset
<1>7. B \subseteq A => Cardinality(B) <= Cardinality(A)
  BY <1>4, SeatsFinite
<1>8. Cardinality(B) \in Nat
  BY SeatsFinite DEF B
<1> QED BY <1>3, <1>4, <1>5, <1>6, <1>7, <1>8 DEF A, B

----------------------------------------------------------------------------
(* The board hears the event at the head of the wire.                      *)

LEMMA SeatBehind ==
  ASSUME NEW w, NEW v, Behind(w, v), NEW p, NEW seat, NEW old, NEW row, SeatHeard(p, w, seat, old),
         ~OfSeat(w[1], p) => row = old,
         OfSeat(w[1], p) /\ row.known => w[1].kind # "member_removed" /\ row.paused = w[1].paused
  PROVE  SeatHeard(p, v, seat, row)
<1>1. /\ DOMAIN w \subseteq Nat /\ 1 \in DOMAIN w
      /\ \A k \in DOMAIN w : k # 1 => k - 1 \in DOMAIN v /\ v[k - 1] = w[k] /\ 1 < k
      /\ \A j \in DOMAIN v : j + 1 \in DOMAIN w /\ v[j] = w[j + 1]
  BY BehindFacts
<1>2. ASSUME NEW i \in DOMAIN v, LastOf(v, i, p) PROVE Says(v[i], seat)
  <2>1. \A k \in DOMAIN w : i + 1 < k => k # 1 /\ i < k - 1
    BY <1>1, BehindFacts
  <2>2. LastOf(w, i + 1, p)
    BY <1>1, <1>2, <2>1 DEF LastOf
  <2> QED BY <1>1, <2>2 DEF SeatHeard
<1>3. ASSUME row.known, \A i \in DOMAIN v : ~OfSeat(v[i], p)
      PROVE  seat # "out" /\ row.paused = Paused(seat)
  <2>1. \A k \in DOMAIN w : k # 1 => ~OfSeat(w[k], p)
    BY <1>1, <1>3
  <2>2. CASE OfSeat(w[1], p)
    <3>1. LastOf(w, 1, p)
      BY <1>1, <2>1, <2>2 DEF LastOf
    <3>2. Says(w[1], seat)
      BY <1>1, <3>1 DEF SeatHeard
    <3> QED BY <1>3, <2>2, <3>2 DEF Says
  <2>3. CASE ~OfSeat(w[1], p)
    BY <1>3, <2>1, <2>3 DEF SeatHeard
  <2> QED BY <2>2, <2>3
<1> QED BY <1>2, <1>3 DEF SeatHeard

LEMMA ComesBehind ==
  ASSUME NEW w, NEW v, Behind(w, v), NEW p, NEW old, NEW row, Comes(p, w, old),
         old.known /\ ~Removes(w[1], p) => row.known, Creates(w[1], p) => row.known
  PROVE  Comes(p, v, row)
<1>1. /\ DOMAIN w \subseteq Nat /\ DOMAIN v \subseteq Nat /\ 1 \in DOMAIN w
      /\ \A k \in DOMAIN w : k # 1 => k - 1 \in DOMAIN v /\ v[k - 1] = w[k] /\ 1 < k
      /\ \A j \in DOMAIN v : j + 1 \in DOMAIN w /\ v[j] = w[j + 1] /\ 1 < j + 1
  BY BehindFacts
<1>2. CASE old.known /\ \A i \in DOMAIN w : ~Removes(w[i], p)
  BY <1>1, <1>2 DEF Comes
<1>3. CASE \E i \in DOMAIN w : Creates(w[i], p) /\ \A j \in DOMAIN w : i < j => ~Removes(w[j], p)
  <2>1. PICK i \in DOMAIN w : Creates(w[i], p) /\ \A j \in DOMAIN w : i < j => ~Removes(w[j], p)
    BY <1>3
  <2>2. CASE i = 1
    BY <1>1, <2>1, <2>2 DEF Comes
  <2>3. CASE i # 1
    <3>1. \A j \in DOMAIN v : i - 1 < j => i < j + 1
      BY <1>1
    <3>2. \A j \in DOMAIN v : i - 1 < j => ~Removes(v[j], p)
      BY <1>1, <2>1, <3>1
    <3> QED BY <1>1, <2>1, <2>3, <3>2 DEF Comes
  <2> QED BY <2>2, <2>3
<1> QED BY <1>2, <1>3 DEF Comes

LEMMA HintBehind ==
  ASSUME NEW w, NEW v, Behind(w, v), NEW h, NEW lamp, NEW old, NEW states, HintHeard(h, w, lamp, old),
         ~OfHint(w[1], h) /\ h \in DOMAIN states => h \in DOMAIN old /\ states[h] = old[h],
         OfHint(w[1], h) /\ h \in DOMAIN states => states[h] = w[1].state
  PROVE  HintHeard(h, v, lamp, states)
<1>1. /\ DOMAIN w \subseteq Nat /\ 1 \in DOMAIN w
      /\ \A k \in DOMAIN w : k # 1 => k - 1 \in DOMAIN v /\ v[k - 1] = w[k] /\ 1 < k
      /\ \A j \in DOMAIN v : j + 1 \in DOMAIN w /\ v[j] = w[j + 1]
  BY BehindFacts
<1>2. ASSUME NEW i \in DOMAIN v, LastHint(v, i, h) PROVE v[i].state = lamp
  <2>1. \A k \in DOMAIN w : i + 1 < k => k # 1 /\ i < k - 1
    BY <1>1, BehindFacts
  <2>2. LastHint(w, i + 1, h)
    BY <1>1, <1>2, <2>1 DEF LastHint
  <2> QED BY <1>1, <2>2 DEF HintHeard
<1>3. ASSUME h \in DOMAIN states, \A i \in DOMAIN v : ~OfHint(v[i], h) PROVE states[h] = lamp
  <2>1. \A k \in DOMAIN w : k # 1 => ~OfHint(w[k], h)
    BY <1>1, <1>3
  <2>2. CASE OfHint(w[1], h)
    <3>1. LastHint(w, 1, h)
      BY <1>1, <2>1, <2>2 DEF LastHint
    <3> QED BY <1>1, <1>3, <2>2, <3>1 DEF HintHeard
  <2>3. CASE ~OfHint(w[1], h)
    BY <1>3, <2>1, <2>3 DEF HintHeard
  <2> QED BY <2>2, <2>3
<1> QED BY <1>2, <1>3 DEF HintHeard

LEMMA PauseBehind ==
  ASSUME NEW w, NEW v, Behind(w, v), NEW x, NEW old, NEW shown, NEW places, PauseHeard(x, w, old, places),
         ~PauseOf(w[1], x) /\ shown[x].paused => old[x].paused,
         PauseOf(w[1], x) /\ shown[x].paused => w[1].paused
  PROVE  PauseHeard(x, v, shown, places)
<1>1. /\ DOMAIN w \subseteq Nat /\ 1 \in DOMAIN w
      /\ \A k \in DOMAIN w : k # 1 => k - 1 \in DOMAIN v /\ v[k - 1] = w[k] /\ 1 < k
      /\ \A j \in DOMAIN v : j + 1 \in DOMAIN w /\ v[j] = w[j + 1]
  BY BehindFacts
<1>2. ASSUME NEW i \in DOMAIN v, LastPause(v, i, x), v[i].paused PROVE SeatPaused(x, places)
  <2>1. \A k \in DOMAIN w : i + 1 < k => k # 1 /\ i < k - 1
    BY <1>1, BehindFacts
  <2>2. LastPause(w, i + 1, x) /\ w[i + 1].paused
    BY <1>1, <1>2, <2>1 DEF LastPause
  <2> QED BY <1>1, <2>2 DEF PauseHeard
<1>3. ASSUME shown[x].paused, \A i \in DOMAIN v : ~PauseOf(v[i], x) PROVE SeatPaused(x, places)
  <2>1. \A k \in DOMAIN w : k # 1 => ~PauseOf(w[k], x)
    BY <1>1, <1>3
  <2>2. CASE PauseOf(w[1], x)
    <3>1. LastPause(w, 1, x)
      BY <1>1, <2>1, <2>2 DEF LastPause
    <3> QED BY <1>1, <1>3, <2>2, <3>1 DEF PauseHeard
  <2>3. CASE ~PauseOf(w[1], x)
    BY <1>3, <2>1, <2>3 DEF PauseHeard
  <2> QED BY <2>2, <2>3
<1> QED BY <1>2, <1>3 DEF PauseHeard

\* What the reader does to the board with an event.
BoardHears(e) ==
  /\ members' = IF e.kind \in MemberKinds THEN MemberApply(e) ELSE members
  /\ lit' = IF e.kind = "hint" THEN HintApply(e) ELSE lit
  /\ pauses' = [x \in Agents |-> pauses'[x]]
  /\ Never({"failed"})' =>
       \A x \in Agents : /\ ~PauseOf(e, x) /\ pauses'[x].paused => pauses[x].paused
                         /\ PauseOf(e, x) /\ pauses'[x].paused => e.paused
  /\ UNCHANGED <<seats, lamps, told, overrides, presence, wanted>>

LEMMA PausesHear ==
  ASSUME BoardOK, NEW e, PauseHears(e)
  PROVE  /\ pauses' = [x \in Agents |-> pauses'[x]]
         /\ \A x \in Agents : /\ e.agent # x => pauses'[x] = pauses[x]
                              /\ e.agent = x /\ pauses'[x].paused => e.paused
<1>1. pauses = [x \in Agents |-> pauses[x]]
  BY DEF BoardOK
<1>2. CASE Repeats(e)
  <2>1. pauses' = pauses /\ pauses[e.agent].paused = e.paused
    BY <1>2 DEF PauseHears, Repeats
  <2> QED BY <1>1, <2>1
<1>3. CASE ~Repeats(e)
  <2>. DEFINE r == [known |-> TRUE, paused |-> e.paused, reason |-> IF e.paused THEN e.reason ELSE "",
                    since |-> now]
  <2>1. pauses' = [pauses EXCEPT ![e.agent] = r] /\ r.paused = e.paused
    BY <1>3 DEF PauseHears
  <2>. HIDE DEF r
  <2> QED BY <1>1, <2>1
<1> QED BY <1>2, <1>3

LEMMA BoardHearing ==
  ASSUME BoardOK, NEW i \in DOMAIN wire, NEW again \in BOOLEAN, HandleAmiEvent(i, again)
  PROVE  BoardHears(wire[i])
<1>. DEFINE e == wire[i]
            d == Disorder(i, again)
<1>1. /\ members' = IF e.kind \in MemberKinds THEN MemberApply(e) ELSE members
      /\ UNCHANGED <<seats, lamps, told, overrides, presence, wanted>>
  BY DEF HandleAmiEvent, FirstTrackers
<1>2. \/ Hint(e) /\ Pause(e)
      \/ Outcome(e) /\ lit' = lit /\ pauses' = pauses
      \/ Hint(e) /\ PauseFails(e) /\ e.kind = "member_pause" /\ "failed" \in mishaps'.kinds
  <2>1. \/ Hint(e) /\ Pause(e)
        \/ Outcome(e) /\ lit' = lit /\ pauses' = pauses
        \/ Hint(e) /\ PauseFails(e) /\ e.kind = "member_pause" /\ Mishaps(d \cup {"failed"})
    BY DEF HandleAmiEvent, NoPauseHeard
  <2>2. Mishaps(d \cup {"failed"}) => "failed" \in mishaps'.kinds
    BY DEF Mishaps, MishapsAnd
  <2> QED BY <2>1, <2>2
<1>3. pauses = [x \in Agents |-> pauses[x]]
  BY DEF BoardOK
<1>. HIDE DEF e, d
<1>4. lit' = IF e.kind = "hint" THEN HintApply(e) ELSE lit
  BY <1>2 DEF Hint, Outcome
<1>5. CASE pauses' = pauses /\ e.kind # "member_pause"
  BY <1>1, <1>3, <1>4, <1>5 DEF BoardHears, PauseOf, e
<1>6. CASE e.kind = "member_pause" /\ PauseHears(e)
  <2>1. /\ pauses' = [x \in Agents |-> pauses'[x]]
        /\ \A x \in Agents : /\ e.agent # x => pauses'[x] = pauses[x]
                             /\ e.agent = x /\ pauses'[x].paused => e.paused
    BY <1>6, PausesHear
  <2> QED BY <1>1, <1>4, <1>6, <2>1 DEF BoardHears, PauseOf, e
<1>7. CASE PauseFails(e) /\ "failed" \in mishaps'.kinds
  <2>1. pauses' = pauses /\ ~Never({"failed"})'
    BY <1>7 DEF PauseFails, Never
  <2> QED BY <1>1, <1>3, <1>4, <2>1 DEF BoardHears, e
<1>8. \/ pauses' = pauses /\ e.kind # "member_pause"
      \/ e.kind = "member_pause" /\ PauseHears(e)
      \/ PauseFails(e) /\ "failed" \in mishaps'.kinds
  BY <1>2 DEF Pause, Outcome, NoPauseHeard
<1> QED BY <1>5, <1>6, <1>7, <1>8

\* How a row follows an event.
SeatsKnown == {r \in Pairs : members[r].known}
RowHeard(e, p, old, row) ==
  /\ ~OfSeat(e, p) => row = old
  /\ OfSeat(e, p) /\ row.known => e.kind # "member_removed" /\ row.paused = e.paused
  /\ old.known /\ ~Removes(e, p) => row.known
  /\ Creates(e, p) /\ (Cardinality(SeatsKnown) >= MaxSeats => old.known) => row.known
  /\ row.known => old.known \/ Creates(e, p)
RowsHeard(e, rows) ==
  rows = [p \in Pairs |-> rows[p]] /\ \A p \in Pairs : RowHeard(e, p, members[p], rows[p])

LEMMA RowsApply ==
  ASSUME BoardOK, NEW e
  PROVE  RowsHeard(e, IF e.kind \in MemberKinds THEN MemberApply(e) ELSE members)
<1>0. members = [p \in Pairs |-> members[p]]
  BY DEF BoardOK
<1>1. CASE e.kind \notin MemberKinds
  BY <1>0, <1>1 DEF RowsHeard, RowHeard, OfSeat, Creates, Removes
<1>2. CASE e.kind \in MemberKinds
  <2>. DEFINE s == <<e.queue, e.agent>>
              r == [known |-> TRUE, paused |-> e.paused]
              creates == e.kind \in {"member_added", "member_status"}
              rows == MemberApply(e)
  <2>1. ASSUME NEW p \in Pairs PROVE OfSeat(e, p) <=> p = s
    <3>1. p = <<p[1], p[2]>>
      BY DEF Pairs
    <3>2. (e.queue = p[1] /\ e.agent = p[2]) <=> p = s
      BY <3>1
    <3> QED BY <1>2, <3>2 DEF OfSeat
  <2>2. \/ e.kind = "member_removed" /\ rows = [members EXCEPT ![s] = NoSeat]
        \/ /\ e.kind # "member_removed" /\ ~members[s].known /\ rows = members
           /\ ~creates \/ Cardinality(SeatsKnown) >= MaxSeats
        \/ /\ e.kind # "member_removed" /\ rows = [members EXCEPT ![s] = r]
           /\ members[s].known \/ creates
    BY DEF MemberApply, SeatsKnown
  <2>3. r.known /\ r.paused = e.paused /\ ~NoSeat.known
    BY DEF NoSeat
  <2>4. ASSUME NEW p \in Pairs
        PROVE  (Creates(e, p) <=> p = s /\ creates) /\ (Removes(e, p) <=> p = s /\ e.kind = "member_removed")
    BY <2>1 DEF Creates, Removes
  <2>5. e.kind = "member_removed" => ~creates
    OBVIOUS
  <2>. HIDE DEF s, r, rows, creates
  <2>6. rows = [p \in Pairs |-> rows[p]]
    BY <1>0, <2>2
  <2>7. ASSUME NEW p \in Pairs PROVE RowHeard(e, p, members[p], rows[p])
    <3>1. CASE p # s
      <4>1. rows[p] = members[p]
        BY <1>0, <2>2, <3>1
      <4> QED BY <2>1, <2>4, <3>1, <4>1 DEF RowHeard
    <3>2. CASE p = s /\ e.kind = "member_removed"
      <4>1. rows[p] = NoSeat
        BY <1>0, <2>2, <3>2
      <4>2. ~rows[p].known /\ OfSeat(e, p) /\ Removes(e, p) /\ ~Creates(e, p)
        BY <2>1, <2>3, <2>4, <2>5, <3>2, <4>1
      <4> QED BY <4>2 DEF RowHeard
    <3>3. CASE p = s /\ e.kind # "member_removed"
      <4>1. \/ /\ ~members[p].known /\ rows[p] = members[p]
               /\ ~creates \/ Cardinality(SeatsKnown) >= MaxSeats
            \/ rows[p] = r /\ (members[p].known \/ creates)
        BY <1>0, <2>2, <3>3
      <4> QED BY <2>1, <2>3, <2>4, <3>3, <4>1 DEF RowHeard
    <3> QED BY <3>1, <3>2, <3>3
  <2> QED BY <1>2, <2>6, <2>7 DEF RowsHeard, rows
<1> QED BY <1>1, <1>2

\* There is room for the row of a seat that is told of, while few changes were made.
LEMMA RoomForSeat ==
  ASSUME BoardInv, told <= MaxSeats, NEW p \in Pairs, NEW i \in DOMAIN wire, Creates(wire[i], p),
         Cardinality(SeatsKnown) >= MaxSeats
  PROVE  members[p].known
<1>. SUFFICES ASSUME ~members[p].known PROVE FALSE
  OBVIOUS
<1>. DEFINE C == Claimed(wire, members)
            K == SeatsKnown
<1>1. K \cup {p} \subseteq C /\ C \subseteq Pairs /\ p \notin K
  BY DEF SeatsKnown, Claimed
<1>2. IsFiniteSet(K) /\ Cardinality(K) \in Nat
  <2>1. IsFiniteSet(Pairs) /\ K \in SUBSET Pairs
    BY <1>1, SeatsFinite
  <2>. HIDE DEF K
  <2> QED BY <2>1, FS_Subset, FS_CardinalityType
<1>. HIDE DEF C, K
<1>3. Cardinality(K \cup {p}) = Cardinality(K) + 1
  BY <1>1, <1>2, FS_AddElement
<1>4. Cardinality(K \cup {p}) <= Cardinality(C)
  BY <1>1, SeatsFinite
<1>5. Cardinality(C) \in Nat /\ Cardinality(C) <= told /\ told \in Nat /\ MaxSeats \in Nat
  BY SeatsFinite, BoardAssumption DEF BoardInv, BoardOK, C
<1> QED BY <1>2, <1>3, <1>4, <1>5 DEF K

LEMMA BoardTakes ==
  ASSUME MirrorInv, BoardInv, NEW i \in DOMAIN wire, NEW again \in BOOLEAN, HandleAmiEvent(i, again)
  PROVE  BoardInv'
<1>. DEFINE e == wire[i]
<1>1. Hears(i, again) /\ KindsGrow
  BY Hearing DEF Hears
<1>2. /\ IsWire(wire') /\ \A j \in DOMAIN wire' : \E k \in DOMAIN wire : wire'[j] = wire[k]
      /\ Never({"disorder"})' => i = 1 /\ Behind(wire, wire')
  BY <1>1, WireHeard
<1>3. BoardHears(e) /\ RowsHeard(e, members') /\ BoardOK
  BY BoardHearing, RowsApply DEF BoardInv, BoardHears
<1>. HIDE DEF e
<1>5. /\ members' = [p \in Pairs |-> members'[p]] /\ pauses' = [x \in Agents |-> pauses'[x]]
      /\ seats' = seats /\ lamps' = lamps /\ told' = told /\ overrides' = overrides
      /\ presence' = presence /\ wanted' = wanted
      /\ lit' = IF e.kind = "hint" THEN HintApply(e) ELSE lit
  BY <1>3 DEF BoardHears, RowsHeard
<1>6. /\ DOMAIN lit' \subseteq DOMAIN lit \cup {h \in {e.hint} : e.kind = "hint"}
      /\ \A h \in DOMAIN lit' : /\ ~OfHint(e, h) => h \in DOMAIN lit /\ lit'[h] = lit[h]
                                /\ OfHint(e, h) => lit'[h] = e.state
  <2>1. CASE e.kind = "hint" /\ lit' = With(lit, e.hint, e.state)
    BY <2>1 DEF With, OfHint
  <2>2. CASE lit' = lit /\ (e.kind = "hint" => e.hint \notin DOMAIN lit)
    BY <2>2 DEF OfHint
  <2> QED BY <1>5, <2>1, <2>2 DEF HintApply
<1>7. BoardOK'
  <2>1. e.kind = "hint" => e.hint \in Hints
    BY <1>3 DEF BoardOK, e
  <2>2. DOMAIN lit' \subseteq Hints
    BY <1>3, <1>6, <2>1 DEF BoardOK
  <2>3. \A j \in DOMAIN wire' : wire'[j].kind = "hint" => wire'[j].hint \in Hints
    BY <1>2, <1>3 DEF BoardOK
  <2> QED BY <1>3, <1>5, <2>2, <2>3 DEF BoardOK
<1>8. Cardinality(Claimed(wire', members')) <= told'
  <2>1. Claimed(wire', members') \subseteq Claimed(wire, members)
    <3>1. ASSUME NEW p \in Pairs, members'[p].known
          PROVE  members[p].known \/ \E k \in DOMAIN wire : Creates(wire[k], p)
      BY <1>3, <3>1 DEF RowsHeard, RowHeard, e
    <3> QED BY <1>2, <3>1 DEF Claimed
  <2>2. Claimed(wire, members) \subseteq Pairs
    BY DEF Claimed
  <2>. DEFINE A == Claimed(wire, members)
              B == Claimed(wire', members')
  <2>3. Cardinality(A) \in Nat /\ Cardinality(B) \in Nat /\ Cardinality(A) <= told /\ told \in Nat
    BY SeatsFinite DEF BoardInv, BoardOK
  <2>. HIDE DEF A, B
  <2>4. B \subseteq A /\ A \subseteq Pairs
    BY <2>1, <2>2 DEF A, B
  <2>5. Cardinality(B) <= Cardinality(A)
    BY <2>4, SeatsFinite
  <2>6. Cardinality(B) <= told
    BY <2>3, <2>5
  <2> QED BY <1>5, <2>6 DEF B
<1>9. ASSUME Never({"disorder", "restart"})' PROVE BoardHeard'
  <2>1. Never({"disorder"})' /\ Never({"disorder", "restart"})
    BY <1>1, <1>9, NeverBefore DEF Never
  <2>2. Behind(wire, wire') /\ e = wire[1] /\ BoardHeard
    BY <1>2, <2>1 DEF BoardInv, e
  <2>3. ASSUME NEW p \in Pairs PROVE SeatHeard(p, wire', seats[p], members'[p])
    <3>. DEFINE row == members'[p]
                old == members[p]
                seat == seats[p]
    <3>1. SeatHeard(p, wire, seat, old)
      BY <2>2 DEF BoardHeard
    <3>2. /\ ~OfSeat(wire[1], p) => row = old
          /\ OfSeat(wire[1], p) /\ row.known => wire[1].kind # "member_removed" /\ row.paused = wire[1].paused
      BY <1>3, <2>2 DEF RowsHeard, RowHeard
    <3>. HIDE DEF row, old, seat
    <3>3. SeatHeard(p, wire', seat, row)
      BY <2>2, <3>1, <3>2, SeatBehind
    <3> QED BY <3>3 DEF seat, row
  <2>4. ASSUME NEW p \in Pairs, told <= MaxSeats, seats[p] # "out" PROVE Comes(p, wire', members'[p])
    <3>. DEFINE row == members'[p]
                old == members[p]
    <3>1. Comes(p, wire, old)
      BY <2>2, <2>4 DEF BoardHeard
    <3>2. Creates(wire[1], p) /\ Cardinality(SeatsKnown) >= MaxSeats => members[p].known
      BY <2>2, <2>4, RoomForSeat DEF Behind
    <3>3. (old.known /\ ~Removes(wire[1], p) => row.known) /\ (Creates(wire[1], p) => row.known)
      BY <1>3, <2>2, <3>2 DEF RowsHeard, RowHeard
    <3>. HIDE DEF row, old
    <3>4. Comes(p, wire', row)
      BY <2>2, <3>1, <3>3, ComesBehind
    <3> QED BY <3>4 DEF row
  <2>5. ASSUME NEW h \in Hints PROVE HintHeard(h, wire', lamps[h], lit')
    <3>. DEFINE lamp == lamps[h]
    <3>1. HintHeard(h, wire, lamp, lit)
      BY <2>2 DEF BoardHeard
    <3>2. /\ ~OfHint(wire[1], h) /\ h \in DOMAIN lit' => h \in DOMAIN lit /\ lit'[h] = lit[h]
          /\ OfHint(wire[1], h) /\ h \in DOMAIN lit' => lit'[h] = wire[1].state
      BY <1>6, <2>2
    <3>. HIDE DEF lamp
    <3>3. HintHeard(h, wire', lamp, lit')
      BY <2>2, <3>1, <3>2, HintBehind
    <3> QED BY <3>3 DEF lamp
  <2>6. ASSUME Never({"failed", "left_paused"})', NEW x \in Agents PROVE PauseHeard(x, wire', pauses', seats)
    <3>1. Never({"failed"})' /\ Never({"failed", "left_paused"})
      BY <1>1, <2>6, NeverBefore DEF Never
    <3>2. PauseHeard(x, wire, pauses, seats)
      BY <2>2, <3>1 DEF BoardHeard
    <3>3. /\ ~PauseOf(wire[1], x) /\ pauses'[x].paused => pauses[x].paused
          /\ PauseOf(wire[1], x) /\ pauses'[x].paused => wire[1].paused
      BY <1>3, <2>2, <3>1 DEF BoardHears
    <3> QED BY <2>2, <3>2, <3>3, PauseBehind
  <2> QED BY <1>5, <2>3, <2>4, <2>5, <2>6 DEF BoardHeard
<1>10. Never({"overlap"})' => FileTrue'
  <2>1. Never({"overlap"})' => FileTrue
    BY <1>1, NeverBefore DEF BoardInv
  <2> QED BY <1>5, <2>1 DEF FileTrue
<1> QED BY <1>7, <1>8, <1>9, <1>10 DEF BoardInv

----------------------------------------------------------------------------
(* What Asterisk and the requests do: the events they tell of come last.   *)

New == DOMAIN wire' \ DOMAIN wire
SeatNews(p) ==
  /\ \A j \in New : OfSeat(wire'[j], p) => Says(wire'[j], seats'[p])
  /\ seats'[p] = seats[p] \/ \E j \in New : OfSeat(wire'[j], p)
  /\ seats'[p] # "out" => seats[p] # "out" \/ \E j \in New : Creates(wire'[j], p)
HintNews(h) ==
  /\ \A j \in New : OfHint(wire'[j], h) => wire'[j].state = lamps'[h]
  /\ lamps'[h] = lamps[h] \/ \E j \in New : OfHint(wire'[j], h)
PauseNews(x) ==
  /\ \A j \in New : PauseOf(wire'[j], x) /\ wire'[j].paused => SeatPaused(x, seats')
  /\ \/ SeatPaused(x, seats) => SeatPaused(x, seats')
     \/ \E j \in New : PauseOf(wire'[j], x)
\* A change creates one seat at the most.
ClaimNews ==
  \E p : /\ \A j \in New, r \in Pairs : Creates(wire'[j], r) => r = p
         /\ told' = told + 1 \/ (told' = told /\ \A j \in New : ~Creates(wire'[j], p))
BoardNews ==
  /\ KindsGrow /\ Extended(wire, wire') /\ BoardOK'
  /\ members' = members /\ pauses' = pauses /\ lit' = lit
  /\ ClaimNews /\ (\A p \in Pairs : SeatNews(p)) /\ (\A h \in Hints : HintNews(h))
  /\ Never({"left_paused"})' => \A x \in Agents : PauseNews(x)
  /\ Never({"overlap"})' => FileTrue'

LEMMA BoardLearns ==
  ASSUME BoardInv, BoardNews PROVE BoardInv'
<1>1. /\ KindsGrow /\ Extended(wire, wire') /\ BoardOK' /\ told \in Nat
      /\ members' = members /\ pauses' = pauses /\ lit' = lit
  BY DEF BoardNews, BoardInv, BoardOK
<1>2. Cardinality(Claimed(wire', members)) <= told' /\ told <= told' /\ told' \in Nat
  <2>1. PICK p : /\ \A j \in DOMAIN wire' \ DOMAIN wire, r \in Pairs : Creates(wire'[j], r) => r = p
                 /\ \/ told' = told + 1
                    \/ told' = told /\ \A j \in DOMAIN wire' \ DOMAIN wire : ~Creates(wire'[j], p)
    BY DEF BoardNews, ClaimNews, New
  <2>. DEFINE a == Cardinality(Claimed(wire, members))
              b == Cardinality(Claimed(wire', members))
  <2>2. a \in Nat /\ b \in Nat /\ a <= told
    BY SeatsFinite DEF BoardInv
  <2>3. /\ b <= a + 1
        /\ (\A j \in DOMAIN wire' \ DOMAIN wire : ~Creates(wire'[j], p)) => b <= a
    BY <1>1, <2>1, ClaimedTold
  <2>. HIDE DEF a, b
  <2>4. b <= told' /\ told <= told' /\ told' \in Nat
    BY <1>1, <2>1, <2>2, <2>3
  <2> QED BY <2>4 DEF b
<1>3. ASSUME Never({"disorder", "restart"})' PROVE BoardHeard'
  <2>1. BoardHeard
    BY <1>1, <1>3, NeverBefore DEF BoardInv
  <2>2. ASSUME NEW p \in Pairs PROVE SeatHeard(p, wire', seats'[p], members'[p])
    <3>. DEFINE seat == seats'[p]
                old == seats[p]
                row == members[p]
    <3>1. SeatHeard(p, wire, old, row)
      BY <2>1 DEF BoardHeard
    <3>2. /\ \A j \in DOMAIN wire' \ DOMAIN wire : OfSeat(wire'[j], p) => Says(wire'[j], seat)
          /\ seat = old \/ \E j \in DOMAIN wire' \ DOMAIN wire : OfSeat(wire'[j], p)
      BY DEF BoardNews, SeatNews, New
    <3>. HIDE DEF seat, old, row
    <3>3. SeatHeard(p, wire', seat, row)
      BY <1>1, <3>1, <3>2, SeatTold
    <3> QED BY <1>1, <3>3 DEF seat, row
  <2>3. ASSUME NEW p \in Pairs, told' <= MaxSeats, seats'[p] # "out" PROVE Comes(p, wire', members'[p])
    <3>. DEFINE row == members[p]
    <3>1. /\ \A j \in DOMAIN wire' \ DOMAIN wire : OfSeat(wire'[j], p) => Says(wire'[j], seats'[p])
          /\ seats[p] # "out" \/ \E j \in DOMAIN wire' \ DOMAIN wire : Creates(wire'[j], p)
      BY <2>3 DEF BoardNews, SeatNews, New
    <3>2. \A j \in DOMAIN wire' \ DOMAIN wire : ~Removes(wire'[j], p)
      BY <2>3, <3>1 DEF Removes, Says
    <3>3. told <= MaxSeats
      BY <1>1, <1>2, <2>3, BoardAssumption
    <3>4. Comes(p, wire, row) \/ \E j \in DOMAIN wire' \ DOMAIN wire : Creates(wire'[j], p)
      BY <2>1, <3>1, <3>3 DEF BoardHeard
    <3>. HIDE DEF row
    <3>5. Comes(p, wire', row)
      BY <1>1, <3>2, <3>4, ComesStill
    <3> QED BY <1>1, <3>5 DEF row
  <2>4. ASSUME NEW h \in Hints PROVE HintHeard(h, wire', lamps'[h], lit')
    <3>. DEFINE lamp == lamps'[h]
                old == lamps[h]
    <3>1. HintHeard(h, wire, old, lit)
      BY <2>1 DEF BoardHeard
    <3>2. /\ \A j \in DOMAIN wire' \ DOMAIN wire : OfHint(wire'[j], h) => wire'[j].state = lamp
          /\ lamp = old \/ \E j \in DOMAIN wire' \ DOMAIN wire : OfHint(wire'[j], h)
      BY DEF BoardNews, HintNews, New
    <3>. HIDE DEF lamp, old
    <3>3. HintHeard(h, wire', lamp, lit)
      BY <1>1, <3>1, <3>2, HintTold
    <3> QED BY <1>1, <3>3 DEF lamp
  <2>5. ASSUME Never({"failed", "left_paused"})', NEW x \in Agents PROVE PauseHeard(x, wire', pauses', seats')
    <3>1. Never({"left_paused"})' /\ Never({"failed", "left_paused"})
      BY <1>1, <2>5, NeverBefore DEF Never
    <3>2. PauseHeard(x, wire, pauses, seats)
      BY <2>1, <3>1 DEF BoardHeard
    <3>3. /\ \A j \in DOMAIN wire' \ DOMAIN wire :
               PauseOf(wire'[j], x) /\ wire'[j].paused => SeatPaused(x, seats')
          /\ \/ SeatPaused(x, seats) => SeatPaused(x, seats')
             \/ \E j \in DOMAIN wire' \ DOMAIN wire : PauseOf(wire'[j], x)
      BY <3>1 DEF BoardNews, PauseNews, New
    <3>4. PauseHeard(x, wire', pauses, seats')
      BY <1>1, <3>2, <3>3, PauseTold
    <3> QED BY <1>1, <3>4
  <2> QED BY <2>2, <2>3, <2>4, <2>5 DEF BoardHeard
<1> QED BY <1>1, <1>2, <1>3 DEF BoardInv, BoardNews

\* Events of other parts; those of calls that ring.
RingToldOK(e) == e.kind = "dial_begin" => e.speaker \in Speakers /\ e.external \in BOOLEAN
CdrToldOK(e) ==
  e.kind = "cdr" => e.speaker \in Speakers /\ e.seconds \in Nat /\ e.account \in Accounts \cup {NoCompany}
Stranger(e) == e.kind \notin MemberKinds \cup {"hint"} /\ RingToldOK(e) /\ CdrToldOK(e)
BoardQuiet ==
  /\ KindsGrow /\ Extended(wire, wire') /\ \A j \in New : Stranger(wire'[j])
  /\ UNCHANGED <<seats, lamps, told, members, pauses, lit>>
  /\ presence' = [t \in PresenceThreads |-> presence'[t]]

LEMMA StrangersOnly ==
  ASSUME NEW e, Stranger(e)
  PROVE  /\ \A p : ~OfSeat(e, p) /\ ~Creates(e, p)
         /\ (\A h : ~OfHint(e, h)) /\ (\A x : ~PauseOf(e, x)) /\ e.kind # "hint"
BY DEF Stranger, OfSeat, Creates, OfHint, PauseOf, MemberKinds

LEMMA BoardIdles ==
  ASSUME BoardInv, BoardQuiet, Never({"overlap"})' => FileTrue' PROVE BoardInv'
<1>1. /\ KindsGrow /\ Extended(wire, wire') /\ told \in Nat /\ BoardOK
      /\ UNCHANGED <<seats, lamps, told, members, pauses, lit>>
      /\ presence' = [t \in PresenceThreads |-> presence'[t]]
  BY DEF BoardQuiet, BoardInv, BoardOK
<1>2. ASSUME NEW j \in New
      PROVE  /\ \A p : ~OfSeat(wire'[j], p) /\ ~Creates(wire'[j], p)
             /\ (\A h : ~OfHint(wire'[j], h)) /\ (\A x : ~PauseOf(wire'[j], x)) /\ wire'[j].kind # "hint"
  BY StrangersOnly DEF BoardQuiet
<1>3. BoardOK'
  <2>1. \A i \in DOMAIN wire' : wire'[i].kind = "hint" => wire'[i].hint \in Hints
    BY <1>1, <1>2 DEF BoardOK, Extended, New
  <2> QED BY <1>1, <2>1 DEF BoardOK
<1>4. ClaimNews /\ (\A p \in Pairs : SeatNews(p)) /\ (\A h \in Hints : HintNews(h))
  BY <1>1, <1>2 DEF ClaimNews, SeatNews, HintNews
<1>5. \A x \in Agents : PauseNews(x)
  BY <1>1, <1>2 DEF PauseNews
<1>6. BoardNews
  BY <1>1, <1>3, <1>4, <1>5 DEF BoardNews
<1> QED BY <1>6, BoardLearns

\* What the other parts tell of.
Strangers == KindsGrow /\ Extended(wire, wire') /\ \A j \in New : Stranger(wire'[j])

LEMMA OneStranger ==
  ASSUME MirrorInv, NEW e, Tell(<<e>>), Stranger(e), mishaps' = mishaps
  PROVE  Strangers
<1>1. IsWire(wire) /\ Appends(wire', wire, Single(e)) /\ KindsGrow
  BY MishapsGrow DEF MirrorInv, Tell, Appends, Single
<1>2. Extended(wire, wire') /\ \A j \in DOMAIN wire' \ DOMAIN wire : wire'[j] = e
  BY <1>1, TellsOne
<1> QED BY <1>1, <1>2 DEF Strangers, New

LEMMA NoStranger ==
  ASSUME MirrorInv, wire' = wire, KindsGrow
  PROVE  Strangers
<1>1. Extended(wire, wire) /\ DOMAIN wire \ DOMAIN wire = {}
  BY NoEvents DEF MirrorInv
<1> QED BY <1>1 DEF Strangers, New

LEMMA MirrorStrangers ==
  ASSUME MirrorInv, OfMirror PROVE Strangers
<1>1. ASSUME NEW c, Departs(c) PROVE Strangers
  BY <1>1 DEF Departs, Strangers, New, Stranger, RingToldOK, CdrToldOK, EndKinds, MemberKinds
<1>2. ASSUME NEW c \in Calls, LeaveQueue(c) \/ HangUp(c) PROVE Strangers
  BY <1>1, <1>2, Leaving, HangingUp
<1>3. ASSUME NEW c \in Calls, NEW q \in Queues, Enter(c, q) PROVE Strangers
  <2>. DEFINE e == Event("join", c, q)
  <2>1. Tell(<<e>>) /\ mishaps' = mishaps /\ e.kind = "join"
    BY <1>3 DEF Enter, Unheard, Event
  <2>. HIDE DEF e
  <2>2. Stranger(e)
    BY <2>1 DEF Stranger, RingToldOK, CdrToldOK, MemberKinds
  <2> QED BY <2>1, <2>2, OneStranger
<1>4. ASSUME wire' = wire, mishaps' = mishaps PROVE Strangers
  BY <1>4, NoStranger, MishapsGrow
<1>5. ASSUME NEW o \in Operators, Redirect(o) PROVE Strangers
  <2>1. waiting' = waiting /\ counters' = counters /\ desk[o].pc = "asked"
    BY <1>5 DEF Redirect
  <2>2. CASE \E c \in Calls :
               /\ ChannelOf[c] = desk[o].channel /\ place[c] \in Queues \cup {"outside"}
               /\ place' = [place EXCEPT ![c] = "outside"]
               /\ IF place[c] \in Queues
                  THEN /\ stays' = [stays EXCEPT !.ended = @ \cup {<<c, place[c]>>},
                                                  !.pulled = @ \cup {ChannelOf[c]}]
                       /\ Tell(<<Event("left", c, place[c])>>)
                  ELSE stays' = [stays EXCEPT !.pulled = @ \cup {ChannelOf[c]}] /\ UNCHANGED wire
               /\ \/ desk' = [desk EXCEPT ![o].pc = "answer", ![o].ok = TRUE] /\ NoMishap
                  \/ desk' = [desk EXCEPT ![o].pc = "answer"] /\ Mishap("lost")
    <3>1. PICK c \in Calls : Departs(c)
      BY <2>1, <2>2, Redirecting
    <3> QED BY <1>1, <3>1
  <2> QED BY <1>4, <1>5, <2>2 DEF Redirect
<1>6. ASSUME Read \/ (\E o \in Operators : PickupAnswer(o) \/ \E ch \in Channels : QueueForChannel(o, ch))
      PROVE  Strangers
  <2>1. wire' = wire /\ mishaps' = mishaps
    BY <1>6 DEF Read, PickupAnswer, QueueForChannel, streamVars
  <2> QED BY <1>4, <2>1
<1> QED BY <1>2, <1>3, <1>5, <1>6 DEF OfMirror, MirrorStep

LEMMA SlaStrangers ==
  ASSUME MirrorInv, OfSla PROVE Strangers
<1>1. CASE SlaSnapshot
  <2>1. wire' = wire /\ (NoMishap \/ \E how : Trouble(how))
    BY <1>1 DEF SlaSnapshot
  <2>2. KindsGrow
    BY <2>1, MishapsGrow DEF NoMishap, Trouble, Note
  <2> QED BY <2>1, <2>2, NoStranger
<1>2. ASSUME NEW q \in SlaQueues, NEW id \in SlaIds, NEW kind \in {"abandoned", "answered"}, NEW hold,
             OfferEnds(kind, q, id, hold)
      PROVE  Strangers
  <2>. DEFINE e == [kind |-> kind, channel |-> AnyChannel, queue |-> q, id |-> id, hold |-> hold]
  <2>1. Tell(<<e>>) /\ mishaps' = mishaps
    BY <1>2 DEF OfferEnds
  <2>2. Stranger(e)
    BY DEF Stranger, RingToldOK, CdrToldOK, MemberKinds
  <2>. HIDE DEF e
  <2> QED BY <2>1, <2>2, OneStranger
<1> QED BY <1>1, <1>2 DEF OfSla, SlaStep

LEMMA RecordsStrangers ==
  ASSUME MirrorInv, OfCdrs \/ OfCalls PROVE Strangers
<1>1. ASSUME NEW e, Emit(e), e.kind \in {"cdr", "dial_begin", "missed", "quality", "survey"}, RingToldOK(e), CdrToldOK(e)
      PROVE  Strangers
  <2>1. Tell(<<e>>) /\ mishaps' = mishaps
    BY <1>1 DEF Emit
  <2>2. Stranger(e)
    BY <1>1 DEF Stranger, MemberKinds
  <2> QED BY <2>1, <2>2, OneStranger
<1>2. ASSUME NEW leg, NEW t \in Accounts \cup {NoCompany}, NEW x \in Speakers, NEW d, NEW s \in Talks,
             CallEnds(leg, t, x, d, s)
      PROVE  Strangers
  BY <1>1, <1>2, RecordsAssumption DEF CallEnds, RingToldOK, CdrToldOK
<1>3. ASSUME NEW x \in Speakers, NEW external \in BOOLEAN, CallRings(x, external) PROVE Strangers
  BY <1>1, <1>3 DEF CallRings, RingToldOK, CdrToldOK
<1>4. ASSUME NEW x, NEW report, QualityTold(x, report) PROVE Strangers
  BY <1>1, <1>4 DEF QualityTold, RingToldOK, CdrToldOK
<1>5. ASSUME NEW t, CallLost(t) PROVE Strangers
  BY <1>1, <1>5 DEF CallLost, RingToldOK, CdrToldOK
<1>6. ASSUME NEW x, NEW score, CallRated(x, score) PROVE Strangers
  BY <1>1, <1>6 DEF CallRated, RingToldOK, CdrToldOK
<1> QED BY <1>2, <1>3, <1>4, <1>5, <1>6 DEF OfCdrs, OfCalls, CdrStep, CallStep

LEMMA BoardLeft ==
  ASSUME MirrorInv, BoardInv, OfMirror \/ OfSla \/ OfCdrs \/ OfCalls \/ Clock \/ UNCHANGED deskVars
  PROVE  BoardInv'
<1>1. UNCHANGED <<seats, lamps, told, members, pauses, lit, overrides, wanted, presence>>
  BY DEF OfMirror, OfSla, OfCdrs, OfCalls, Clock, deskVars, boardVars
<1>2. Strangers
  <2>1. CASE Clock
    <3>1. wire' = wire /\ (NoMishap \/ Mishap("setback"))
      BY <2>1 DEF Clock, SetClock
    <3>2. KindsGrow
      BY <3>1, MishapsGrow DEF NoMishap
    <3> QED BY <3>1, <3>2, NoStranger
  <2>2. CASE UNCHANGED deskVars
    <3>1. wire' = wire /\ mishaps' = mishaps
      BY <2>2 DEF deskVars, streamVars
    <3>2. KindsGrow
      BY <3>1, MishapsGrow
    <3> QED BY <3>1, <3>2, NoStranger
  <2> QED BY <2>1, <2>2, MirrorStrangers, SlaStrangers, RecordsStrangers
<1>3. Never({"overlap"})' => FileTrue'
  <2>1. Never({"overlap"})' => FileTrue
    BY <1>2, NeverBefore DEF BoardInv, Strangers
  <2> QED BY <1>1, <2>1 DEF FileTrue
<1>4. BoardQuiet
  BY <1>1, <1>2 DEF BoardQuiet, Strangers, BoardInv, BoardOK
<1> QED BY <1>3, <1>4, BoardIdles

\* A thread changes the presence file.
LEMMA BoardPresence ==
  ASSUME MirrorInv, BoardInv, OfPresence
  PROVE  BoardInv'
<1>1. /\ wire' = wire /\ UNCHANGED <<seats, lamps, told, members, pauses, lit>>
      /\ presence = [t \in PresenceThreads |-> presence[t]]
  BY DEF OfPresence, PresenceStep, SavePresence, AskPresence, BoardInv, BoardOK
<1>2. ASSUME NEW t \in PresenceThreads, NEW x, NEW status, AskPresence(t, x, status) PROVE BoardInv'
  <2>. DEFINE r == [pc |-> "loaded", agent |-> x, status |-> status, data |-> overrides]
  <2>1. /\ presence' = [presence EXCEPT ![t] = r] /\ UNCHANGED <<overrides, wanted>>
        /\ IF PresenceBusy = {} THEN NoMishap ELSE Note("overlap")
    BY <1>2 DEF AskPresence, LoadPresence
  <2>2. r.pc = "loaded" /\ r.data = overrides
    OBVIOUS
  <2>. HIDE DEF r
  <2>3. KindsGrow /\ (PresenceBusy # {} => "overlap" \in mishaps'.kinds)
    BY <2>1, MishapsGrow DEF NoMishap, Note, MishapsAnd
  <2>4. Strangers
    BY <1>1, <2>3, NoStranger
  <2>5. /\ presence' = [u \in PresenceThreads |-> presence'[u]] /\ presence'[t] = r
        /\ \A u \in PresenceThreads \ {t} : presence'[u] = presence[u]
    BY <1>1, <2>1
  <2>6. ASSUME Never({"overlap"})' PROVE FileTrue'
    <3>1. FileTrue /\ PresenceBusy = {}
      BY <2>3, <2>6, NeverBefore DEF BoardInv, Never
    <3>2. \A u \in PresenceThreads \ {t} : presence'[u].pc # "loaded"
      BY <2>5, <3>1 DEF PresenceBusy
    <3> QED BY <2>1, <2>2, <2>5, <3>1, <3>2 DEF FileTrue
  <2>7. BoardQuiet
    BY <1>1, <2>1, <2>4, <2>5 DEF BoardQuiet, Strangers
  <2> QED BY <2>6, <2>7, BoardIdles
<1>3. ASSUME NEW t \in PresenceThreads, SavePresence(t) PROVE BoardInv'
  <2>. DEFINE r == presence[t]
  <2>1. /\ r.pc = "loaded" /\ presence' = [presence EXCEPT ![t] = IdlePresence]
        /\ \/ overrides' = Changed(r.data, r) /\ wanted' = Changed(wanted, r) /\ NoMishap
           \/ UNCHANGED <<overrides, wanted>> /\ Mishap("failed")
    BY <1>3 DEF SavePresence
  <2>3. KindsGrow
    BY <2>1, MishapsGrow DEF NoMishap
  <2>4. Strangers
    BY <1>1, <2>3, NoStranger
  <2>5. /\ presence' = [u \in PresenceThreads |-> presence'[u]] /\ presence'[t].pc # "loaded"
        /\ \A u \in PresenceThreads \ {t} : presence'[u] = presence[u]
    BY <1>1, <2>1 DEF IdlePresence
  <2>6. ASSUME Never({"overlap"})' PROVE FileTrue'
    <3>1. FileTrue
      BY <2>3, <2>6, NeverBefore DEF BoardInv
    <3>2. r.data = overrides /\ overrides = wanted /\ \A u \in PresenceThreads \ {t} : presence[u].pc # "loaded"
      BY <2>1, <3>1 DEF FileTrue
    <3>3. overrides' = wanted'
      BY <2>1, <3>2
    <3>4. \A u \in PresenceThreads : presence'[u].pc # "loaded"
      BY <2>5, <3>2
    <3> QED BY <3>3, <3>4 DEF FileTrue
  <2>7. BoardQuiet
    BY <1>1, <2>4, <2>5 DEF BoardQuiet, Strangers
  <2> QED BY <2>6, <2>7, BoardIdles
<1> QED BY <1>2, <1>3 DEF OfPresence, PresenceStep

----------------------------------------------------------------------------
(* What Asterisk does to the agents.                                       *)

TellsOfSeat(e, kind, p, seat) ==
  /\ e.kind = kind /\ e.paused = Paused(seat)
  /\ kind \in MemberKinds => \A r \in Pairs : OfSeat(e, r) <=> r = p
  /\ \A x : PauseOf(e, x) <=> kind = "member_pause" /\ p[2] = x

LEMMA MemberTold ==
  ASSUME NEW kind, NEW p \in Pairs, NEW seat
  PROVE  TellsOfSeat(MemberEvent(kind, p, seat), kind, p, seat)
<1>. DEFINE e == MemberEvent(kind, p, seat)
<1>1. e.kind = kind /\ e.queue = p[1] /\ e.agent = p[2] /\ e.paused = Paused(seat)
  BY DEF MemberEvent, Paused
<1>. HIDE DEF e
<1>2. \A r \in Pairs : r = <<r[1], r[2]>>
  BY DEF Pairs
<1>3. \A r \in Pairs : (p[1] = r[1] /\ p[2] = r[2]) <=> r = p
  BY <1>2
<1> QED BY <1>1, <1>3 DEF TellsOfSeat, OfSeat, PauseOf, e

\* What stays the same when Asterisk changes a seat or a device.
BoardUntouched ==
  /\ UNCHANGED <<members, pauses, lit, overrides, presence, wanted>>
  /\ told' = told + 1 /\ KindsGrow /\ Extended(wire, wire')

LEMMA ChangeLearnt ==
  ASSUME BoardInv, BoardUntouched, NEW p,
         seats' = [r \in Pairs |-> seats'[r]], lamps' = [h \in Hints |-> lamps'[h]],
         \A j \in New : wire'[j].kind = "hint" => wire'[j].hint \in Hints,
         \A j \in New, r \in Pairs : Creates(wire'[j], r) => r = p,
         \A r \in Pairs : SeatNews(r), \A h \in Hints : HintNews(h),
         Never({"left_paused"})' => \A x \in Agents : PauseNews(x)
  PROVE  BoardInv'
<1>1. BoardOK /\ told \in Nat
  BY DEF BoardInv, BoardOK
<1>2. \A i \in DOMAIN wire' : wire'[i].kind = "hint" => wire'[i].hint \in Hints
  BY <1>1 DEF BoardOK, BoardUntouched, Extended, New
<1>3. BoardOK'
  BY <1>1, <1>2 DEF BoardOK, BoardUntouched
<1>4. Never({"overlap"})' => FileTrue'
  <2>1. Never({"overlap"})' => FileTrue
    BY NeverBefore DEF BoardInv, BoardUntouched
  <2> QED BY <2>1 DEF FileTrue, BoardUntouched
<1>5. ClaimNews
  BY DEF ClaimNews, BoardUntouched
<1>6. BoardNews
  BY <1>3, <1>4, <1>5 DEF BoardNews, BoardUntouched
<1> QED BY <1>6, BoardLearns

\* One seat changes, and one event tells of it.
SeatChange(p, kind, said, e) ==
  /\ TellsOfSeat(e, kind, p, said)
  /\ \A j \in New : wire'[j] = e
  /\ \E j \in New : wire'[j] = e
  /\ lamps' = lamps /\ seats' = [seats EXCEPT ![p] = seats'[p]]
  /\ Says(e, seats'[p]) /\ (seats'[p] # "out" => seats[p] # "out" \/ Creates(e, p))
  /\ kind = "member_pause" => said = seats'[p] /\ seats'[p] # "out"
  /\ Never({"left_paused"})' => kind = "member_pause" \/ ~Paused(seats[p])

LEMMA SeatChanges ==
  ASSUME BoardInv, BoardUntouched, NEW p \in Pairs, NEW kind \in MemberKinds, NEW said, NEW e,
         SeatChange(p, kind, said, e)
  PROVE  BoardInv'
<1>0. /\ \A j \in New : wire'[j] = e
      /\ \E j \in New : wire'[j] = e
      /\ lamps' = lamps /\ seats' = [seats EXCEPT ![p] = seats'[p]]
      /\ Says(e, seats'[p]) /\ (seats'[p] # "out" => seats[p] # "out" \/ Creates(e, p))
      /\ kind = "member_pause" => said = seats'[p] /\ seats'[p] # "out"
      /\ Never({"left_paused"})' => kind = "member_pause" \/ ~Paused(seats[p])
  BY DEF SeatChange
<1>1. /\ e.kind = kind /\ e.paused = Paused(said)
      /\ \A r \in Pairs : OfSeat(e, r) <=> r = p
      /\ \A x : PauseOf(e, x) <=> kind = "member_pause" /\ p[2] = x
  BY DEF SeatChange, TellsOfSeat
<1>2. /\ seats' = [r \in Pairs |-> seats'[r]] /\ \A r \in Pairs \ {p} : seats'[r] = seats[r]
      /\ lamps' = [h \in Hints |-> lamps'[h]]
  BY <1>0 DEF BoardInv, BoardOK
<1>3. kind # "hint"
  BY DEF MemberKinds
<1>4. ASSUME NEW j \in New PROVE wire'[j].kind # "hint" /\ \A r \in Pairs : Creates(wire'[j], r) => r = p
  BY <1>0, <1>1, <1>3 DEF Creates
<1>5. ASSUME NEW r \in Pairs PROVE SeatNews(r)
  <2>1. CASE r = p
    BY <1>0, <1>1, <2>1 DEF SeatNews
  <2>2. CASE r # p
    BY <1>0, <1>1, <1>2, <2>2 DEF SeatNews
  <2> QED BY <2>1, <2>2
<1>6. ASSUME NEW h \in Hints PROVE HintNews(h)
  BY <1>0, <1>4 DEF HintNews, OfHint
<1>7. ASSUME Never({"left_paused"})', NEW x \in Agents PROVE PauseNews(x)
  <2>1. CASE kind = "member_pause" /\ p[2] = x
    <3>1. Paused(said) => SeatPaused(x, seats')
      BY <1>0, <2>1 DEF SeatPaused
    <3> QED BY <1>0, <1>1, <2>1, <3>1 DEF PauseNews
  <2>2. CASE kind = "member_pause" /\ p[2] # x
    <3>1. SeatPaused(x, seats) => SeatPaused(x, seats')
      BY <1>2, <2>2 DEF SeatPaused
    <3> QED BY <1>0, <1>1, <2>2, <3>1 DEF PauseNews
  <2>3. CASE kind # "member_pause"
    <3>1. SeatPaused(x, seats) => SeatPaused(x, seats')
      BY <1>0, <1>2, <1>7, <2>3 DEF SeatPaused
    <3> QED BY <1>0, <1>1, <2>3, <3>1 DEF PauseNews
  <2> QED BY <2>1, <2>2, <2>3
<1> QED BY <1>2, <1>4, <1>5, <1>6, <1>7, ChangeLearnt

LEMMA BoardMemberChange ==
  ASSUME MirrorInv, BoardInv, OfBoard, NEW p \in Pairs, NEW operation, NEW seat,
         MemberChange(p, operation, seat)
  PROVE  BoardInv'
<1>1. /\ told' = told + 1 /\ seats[p] # seat /\ lamps' = lamps /\ seats' = [seats EXCEPT ![p] = seat]
      /\ UNCHANGED <<members, pauses, lit, overrides, presence, wanted>>
  BY DEF MemberChange, Changes, BoardUnheard
<1>2. seats'[p] = seat /\ seats' = [seats EXCEPT ![p] = seats'[p]]
  BY <1>1 DEF BoardInv, BoardOK
<1>3. ASSUME NEW kind \in MemberKinds, NEW said, Tell(<<MemberEvent(kind, p, said)>>),
             mishaps' = mishaps \/ Note("left_paused"),
             Says(MemberEvent(kind, p, said), seat),
             seat # "out" => seats[p] # "out" \/ Creates(MemberEvent(kind, p, said), p),
             kind = "member_pause" => said = seat /\ seat # "out",
             Note("left_paused") \/ kind = "member_pause" \/ ~Paused(seats[p])
      PROVE  BoardInv'
  <2>. DEFINE e == MemberEvent(kind, p, said)
  <2>1. IsWire(wire) /\ Appends(wire', wire, Single(e)) /\ KindsGrow
    BY <1>3, MishapsGrow DEF MirrorInv, Tell, Appends, Single, Note
  <2>2. Never({"left_paused"})' => ~Note("left_paused")
    BY DEF Note, MishapsAnd, Never
  <2>3. Says(e, seats'[p]) /\ (seats'[p] # "out" => seats[p] # "out" \/ Creates(e, p))
    BY <1>2, <1>3
  <2>4. TellsOfSeat(e, kind, p, said)
    BY MemberTold
  <2>. HIDE DEF e
  <2>5. /\ Extended(wire, wire') /\ \A j \in DOMAIN wire' \ DOMAIN wire : wire'[j] = e
        /\ \E j \in DOMAIN wire' \ DOMAIN wire : wire'[j] = e
    BY <2>1, TellsOne
  <2>6. BoardUntouched
    BY <1>1, <2>1, <2>5 DEF BoardUntouched
  <2>7. (\A j \in New : wire'[j] = e) /\ \E j \in New : wire'[j] = e
    BY <2>5 DEF New
  <2>8. kind = "member_pause" => said = seats'[p] /\ seats'[p] # "out"
    BY <1>2, <1>3
  <2>9. Never({"left_paused"})' => kind = "member_pause" \/ ~Paused(seats[p])
    BY <1>3, <2>2
  <2>10. SeatChange(p, kind, said, e)
    BY <1>1, <1>2, <2>3, <2>4, <2>7, <2>8, <2>9 DEF SeatChange
  <2> QED BY <2>6, <2>10, SeatChanges
<1>4. CASE seats[p] = "out" /\ Tell(<<MemberEvent("member_added", p, seat)>>) /\ mishaps' = mishaps
  <2>. DEFINE e == MemberEvent("member_added", p, seat)
  <2>0. TellsOfSeat(e, "member_added", p, seat)
    BY MemberTold
  <2>. HIDE DEF e
  <2>1. /\ e.kind = "member_added" /\ e.paused = Paused(seat) /\ "member_added" \in MemberKinds
        /\ OfSeat(e, p) /\ ~Paused(seats[p])
    BY <1>4, <2>0 DEF TellsOfSeat, MemberKinds, Paused
  <2>2. Says(e, seat) /\ Creates(e, p)
    BY <1>1, <1>4, <2>1 DEF Says, Creates
  <2> QED BY <1>3, <1>4, <2>1, <2>2 DEF e
<1>5. CASE /\ seats[p] # "out" /\ seat = "out" /\ Tell(<<MemberEvent("member_removed", p, seats[p])>>)
           /\ IF seats[p] = "free" THEN mishaps' = mishaps ELSE Note("left_paused")
  <2>. DEFINE e == MemberEvent("member_removed", p, seats[p])
  <2>0. TellsOfSeat(e, "member_removed", p, seats[p])
    BY MemberTold
  <2>. HIDE DEF e
  <2>1. e.kind = "member_removed" /\ "member_removed" \in MemberKinds
    BY <2>0 DEF TellsOfSeat, MemberKinds
  <2>2. Says(e, seat)
    BY <1>5, <2>1 DEF Says
  <2>3. Note("left_paused") \/ ~Paused(seats[p])
    BY <1>5 DEF Paused
  <2> QED BY <1>3, <1>5, <2>1, <2>2, <2>3 DEF e
<1>6. CASE seats[p] # "out" /\ seat # "out" /\ Tell(<<MemberEvent("member_pause", p, seat)>>) /\ mishaps' = mishaps
  <2>. DEFINE e == MemberEvent("member_pause", p, seat)
  <2>0. TellsOfSeat(e, "member_pause", p, seat)
    BY MemberTold
  <2>. HIDE DEF e
  <2>1. e.kind = "member_pause" /\ e.paused = Paused(seat) /\ "member_pause" \in MemberKinds
    BY <2>0 DEF TellsOfSeat, MemberKinds
  <2>2. Says(e, seat)
    BY <1>6, <2>1 DEF Says
  <2> QED BY <1>3, <1>6, <2>1, <2>2 DEF e
<1> QED BY <1>4, <1>5, <1>6 DEF MemberChange, NoMishap

\* All the seats of an agent change, and one event for each tells of it.
PairsOf(x) == {p \in Pairs : p[2] = x /\ seats[p] # "out"}
PauseEvents(x, seat) == {MemberEvent("member_pause", p, seat) : p \in PairsOf(x)}

LEMMA PauseEventsCome ==
  ASSUME MirrorInv, NEW x, NEW seat, Tell(SetToSeq(PauseEvents(x, seat)))
  PROVE  /\ Extended(wire, wire')
         /\ \A j \in New : \E p \in PairsOf(x) : wire'[j] = MemberEvent("member_pause", p, seat)
         /\ \A p \in PairsOf(x) : \E j \in New : wire'[j] = MemberEvent("member_pause", p, seat)
<1>. DEFINE T == PauseEvents(x, seat)
            E == SetToSeq(T)
<1>1. IsFiniteSet(PairsOf(x))
  BY SeatsFinite, FS_Subset DEF PairsOf
<1>2. IsFiniteSet(T)
  <2>. DEFINE S == PairsOf(x)
              f == [p \in S |-> MemberEvent("member_pause", p, seat)]
  <2>1. f \in Surjection(S, T)
    BY DEF Surjection, PauseEvents
  <2>2. IsFiniteSet(S)
    BY <1>1
  <2>. HIDE DEF f, S, T
  <2> QED BY <2>1, <2>2, FS_Surjection
<1>3. Appends(wire', wire, E) /\ IsWire(wire)
  BY DEF Tell, Appends, MirrorInv
<1>. HIDE DEF T
<1>4. E \in Seq(T) /\ {E[i] : i \in DOMAIN E} = T
  BY <1>2, InSequence
<1>. HIDE DEF E
<1>5. IsWire(E)
  BY <1>4, OwnElements
<1>6. /\ Extended(wire, wire')
      /\ \A j \in DOMAIN wire' \ DOMAIN wire : \E k \in DOMAIN E : wire'[j] = E[k]
      /\ \A k \in DOMAIN E : \E j \in DOMAIN wire' \ DOMAIN wire : wire'[j] = E[k]
  BY <1>3, <1>5, AppendExtends
<1>7. (\A k \in DOMAIN E : E[k] \in T) /\ \A e \in T : \E k \in DOMAIN E : E[k] = e
  BY <1>4
<1>8. ASSUME NEW j \in New PROVE \E p \in PairsOf(x) : wire'[j] = MemberEvent("member_pause", p, seat)
  <2>1. wire'[j] \in T
    BY <1>6, <1>7 DEF New
  <2> QED BY <2>1 DEF T, PauseEvents
<1>9. ASSUME NEW p \in PairsOf(x) PROVE \E j \in New : wire'[j] = MemberEvent("member_pause", p, seat)
  <2>. DEFINE e == MemberEvent("member_pause", p, seat)
  <2>1. e \in T
    BY DEF T, PauseEvents
  <2>. HIDE DEF e
  <2>2. \E j \in New : wire'[j] = e
    BY <1>6, <1>7, <2>1 DEF New
  <2> QED BY <2>2 DEF e
<1> QED BY <1>6, <1>8, <1>9

LEMMA BoardSetPause ==
  ASSUME MirrorInv, BoardInv, OfBoard, NEW x \in Agents, NEW seat \in {"free"} \cup Reasons, SetPause(x, seat)
  PROVE  BoardInv'
<1>1. /\ told' = told + 1 /\ lamps' = lamps /\ mishaps' = mishaps
      /\ UNCHANGED <<members, pauses, lit, overrides, presence, wanted>>
      /\ seats' = [p \in Pairs |-> IF p \in PairsOf(x) THEN seat ELSE seats[p]]
      /\ Tell(SetToSeq(PauseEvents(x, seat)))
  BY DEF SetPause, Changes, BoardUnheard, NoMishap, PairsOf, PauseEvents
<1>2. /\ Extended(wire, wire') /\ KindsGrow
      /\ \A j \in New : \E p \in PairsOf(x) : wire'[j] = MemberEvent("member_pause", p, seat)
      /\ \A p \in PairsOf(x) : \E j \in New : wire'[j] = MemberEvent("member_pause", p, seat)
  BY <1>1, PauseEventsCome, MishapsGrow
<1>3. seat # "out" /\ "member_pause" \in MemberKinds
  BY BoardAssumption DEF MemberKinds
<1>4. ASSUME NEW e, NEW p \in PairsOf(x), e = MemberEvent("member_pause", p, seat)
      PROVE  /\ e.kind = "member_pause" /\ e.paused = Paused(seat)
             /\ \A r \in Pairs : OfSeat(e, r) <=> r = p
             /\ \A y : PauseOf(e, y) <=> y = x
  <2>1. p \in Pairs /\ p[2] = x
    BY DEF PairsOf
  <2>2. TellsOfSeat(e, "member_pause", p, seat)
    BY <1>4, <2>1, MemberTold
  <2> QED BY <1>3, <2>1, <2>2 DEF TellsOfSeat
<1>5. ASSUME NEW j \in New
      PROVE  /\ wire'[j].kind = "member_pause" /\ wire'[j].paused = Paused(seat)
             /\ \A r \in Pairs : OfSeat(wire'[j], r) => r \in PairsOf(x)
             /\ \A y : PauseOf(wire'[j], y) <=> y = x
  <2>. DEFINE e == wire'[j]
  <2>1. PICK p \in PairsOf(x) : e = MemberEvent("member_pause", p, seat)
    BY <1>2
  <2>. HIDE DEF e
  <2>2. /\ e.kind = "member_pause" /\ e.paused = Paused(seat)
        /\ \A r \in Pairs : OfSeat(e, r) <=> r = p
        /\ \A y : PauseOf(e, y) <=> y = x
    BY <1>4, <2>1
  <2> QED BY <2>2 DEF e
<1>6. ASSUME NEW p \in PairsOf(x) PROVE \E j \in New : OfSeat(wire'[j], p) /\ PauseOf(wire'[j], x)
  <2>1. PICK j \in New : wire'[j] = MemberEvent("member_pause", p, seat)
    BY <1>2
  <2>. DEFINE e == wire'[j]
  <2>2. e = MemberEvent("member_pause", p, seat)
    BY <2>1
  <2>. HIDE DEF e
  <2>3. OfSeat(e, p) /\ PauseOf(e, x)
    BY <1>4, <2>2 DEF PairsOf
  <2> QED BY <2>3 DEF e
<1>7. /\ seats' = [r \in Pairs |-> seats'[r]] /\ lamps' = [h \in Hints |-> lamps'[h]]
      /\ \A r \in Pairs : seats'[r] = IF r \in PairsOf(x) THEN seat ELSE seats[r]
  BY <1>1 DEF BoardInv, BoardOK
<1>8. ASSUME NEW r \in Pairs PROVE SeatNews(r)
  <2>1. CASE r \in PairsOf(x)
    <3>1. seats'[r] = seat /\ seats[r] # "out"
      BY <1>7, <2>1 DEF PairsOf
    <3>2. \A j \in New : Says(wire'[j], seats'[r])
      BY <1>3, <1>5, <3>1 DEF Says
    <3> QED BY <1>6, <2>1, <3>1, <3>2 DEF SeatNews
  <2>2. CASE r \notin PairsOf(x)
    BY <1>5, <1>7, <2>2 DEF SeatNews
  <2> QED BY <2>1, <2>2
<1>9. ASSUME NEW h \in Hints PROVE HintNews(h)
  BY <1>1, <1>5 DEF HintNews, OfHint
<1>10. ASSUME NEW y \in Agents PROVE PauseNews(y)
  <2>1. CASE y = x
    <3>1. PICK p \in PairsOf(x) : TRUE
      BY DEF SetPause, PairsOf
    <3>2. Paused(seat) => SeatPaused(x, seats')
      BY <1>7, <3>1 DEF SeatPaused, PairsOf
    <3>3. \E j \in New : PauseOf(wire'[j], x)
      BY <1>6, <3>1
    <3> QED BY <1>5, <2>1, <3>2, <3>3 DEF PauseNews
  <2>2. CASE y # x
    <3>1. SeatPaused(y, seats) => SeatPaused(y, seats')
      BY <1>7, <2>2 DEF SeatPaused, PairsOf
    <3> QED BY <1>5, <2>2, <3>1 DEF PauseNews
  <2> QED BY <2>1, <2>2
<1>11. BoardUntouched
  BY <1>1, <1>2 DEF BoardUntouched
<1>12. \A j \in New : wire'[j].kind = "hint" => wire'[j].hint \in Hints
  BY <1>5
<1>13. \A j \in New, r \in Pairs : Creates(wire'[j], r) => r = x
  BY <1>5 DEF Creates
<1>14. Never({"left_paused"})' => \A y \in Agents : PauseNews(y)
  BY <1>10
<1> QED BY <1>7, <1>8, <1>9, <1>11, <1>12, <1>13, <1>14, ChangeLearnt

\* A device changes.
LEMMA BoardDeviceChange ==
  ASSUME MirrorInv, BoardInv, OfBoard, NEW p \in Pairs, NEW h \in Hints, NEW s, DeviceChange(p, h, s)
  PROVE  BoardInv'
<1>. DEFINE a == [kind |-> "hint", hint |-> h, state |-> s]
            b == MemberEvent("member_status", p, seats[p])
<1>1. /\ told' = told + 1 /\ lamps' = [lamps EXCEPT ![h] = s] /\ seats' = seats /\ mishaps' = mishaps
      /\ UNCHANGED <<members, pauses, lit, overrides, presence, wanted>>
      /\ (seats[p] = "out" /\ Tell(<<a>> \o <<>>)) \/ (seats[p] # "out" /\ Tell(<<a>> \o <<b>>))
  BY DEF DeviceChange, Changes, BoardUnheard, NoMishap
<1>2. a.kind = "hint" /\ a.hint = h /\ a.state = s /\ TellsOfSeat(b, "member_status", p, seats[p])
  BY MemberTold
<1>. HIDE DEF a, b
<1>3. <<a>> \o <<>> = <<a>> /\ <<a>> \o <<b>> = <<a, b>>
  BY OneThenMore
<1>4. /\ IsWire(wire) /\ KindsGrow
      /\ \/ seats[p] = "out" /\ Appends(wire', wire, Single(a))
         \/ seats[p] # "out" /\ Appends(wire', wire, Pair(a, b))
  BY <1>1, <1>3, MishapsGrow DEF MirrorInv, Tell, Appends, Single, Pair
<1>5. /\ Extended(wire, wire') /\ \E j \in New : wire'[j] = a
      /\ \A j \in New : wire'[j] = a \/ (wire'[j] = b /\ seats[p] # "out")
  <2>1. CASE seats[p] = "out" /\ Appends(wire', wire, Single(a))
    <3>1. /\ Extended(wire, wire') /\ \A j \in DOMAIN wire' \ DOMAIN wire : wire'[j] = a
          /\ \E j \in DOMAIN wire' \ DOMAIN wire : wire'[j] = a
      BY <1>4, <2>1, TellsOne
    <3> QED BY <3>1 DEF New
  <2>2. CASE seats[p] # "out" /\ Appends(wire', wire, Pair(a, b))
    <3>. DEFINE E == Pair(a, b)
    <3>1. IsWire(E) /\ DOMAIN E = {1, 2} /\ E[1] = a /\ E[2] = b
      BY PairOf
    <3>. HIDE DEF E
    <3>2. /\ Extended(wire, wire')
          /\ \A j \in DOMAIN wire' \ DOMAIN wire : \E k \in DOMAIN E : wire'[j] = E[k]
          /\ \A k \in DOMAIN E : \E j \in DOMAIN wire' \ DOMAIN wire : wire'[j] = E[k]
      BY <1>4, <2>2, <3>1, AppendExtends DEF E
    <3> QED BY <2>2, <3>1, <3>2 DEF New
  <2> QED BY <1>4, <2>1, <2>2
<1>6. /\ a.kind = "hint" /\ a.hint = h /\ a.state = s
      /\ b.kind = "member_status" /\ b.paused = Paused(seats[p]) /\ \A r \in Pairs : OfSeat(b, r) <=> r = p
  BY <1>2 DEF TellsOfSeat, MemberKinds
<1>7. /\ \A r \in Pairs : ~OfSeat(a, r) /\ (Creates(b, r) => r = p) /\ ~Creates(a, r)
      /\ \A g : (OfHint(a, g) <=> g = h) /\ ~OfHint(b, g)
      /\ \A x : ~PauseOf(a, x) /\ ~PauseOf(b, x)
  BY <1>6 DEF OfSeat, Creates, OfHint, PauseOf, MemberKinds
<1>8. /\ seats' = [r \in Pairs |-> seats'[r]] /\ lamps' = [g \in Hints |-> lamps'[g]]
      /\ lamps'[h] = s /\ \A g \in Hints \ {h} : lamps'[g] = lamps[g]
  BY <1>1 DEF BoardInv, BoardOK
<1>9. ASSUME NEW r \in Pairs PROVE SeatNews(r)
  <2>1. ASSUME NEW j \in New, OfSeat(wire'[j], r) PROVE Says(wire'[j], seats'[r])
    <3>1. wire'[j] = b /\ seats[p] # "out" /\ r = p
      BY <1>5, <1>6, <1>7, <2>1
    <3> QED BY <1>1, <1>6, <3>1 DEF Says
  <2> QED BY <1>1, <2>1 DEF SeatNews
<1>10. ASSUME NEW g \in Hints PROVE HintNews(g)
  <2>1. \A j \in New : OfHint(wire'[j], g) => wire'[j] = a /\ g = h
    BY <1>5, <1>7
  <2>2. g = h => \E j \in New : OfHint(wire'[j], g)
    BY <1>5, <1>7
  <2> QED BY <1>6, <1>8, <2>1, <2>2 DEF HintNews
<1>11. ASSUME NEW x \in Agents PROVE PauseNews(x)
  <2>1. \A j \in New : ~PauseOf(wire'[j], x)
    BY <1>5, <1>7
  <2> QED BY <1>1, <2>1 DEF PauseNews
<1>12. \A j \in New : wire'[j].kind = "hint" => wire'[j].hint \in Hints
  BY <1>5, <1>6
<1>13. \A j \in New, r \in Pairs : Creates(wire'[j], r) => r = p
  BY <1>5, <1>7
<1>14. BoardUntouched
  BY <1>1, <1>4, <1>5 DEF BoardUntouched
<1> QED BY <1>8, <1>9, <1>10, <1>11, <1>12, <1>13, <1>14, ChangeLearnt

----------------------------------------------------------------------------
(* The board, whatever the process does.                                   *)

LEMMA BoardRestarts ==
  ASSUME MirrorInv, BoardInv, Restart PROVE BoardInv'
<1>1. /\ wire' = <<>> /\ lit' = <<>> /\ members' = [p \in Pairs |-> NoSeat]
      /\ pauses' = [x \in Agents |-> NoPause] /\ presence' = [t \in PresenceThreads |-> IdlePresence]
      /\ UNCHANGED <<seats, lamps, told, overrides, wanted>> /\ Mishap("restart")
  BY DEF Restart
<1>2. IsWire(wire') /\ DOMAIN wire' = {} /\ KindsGrow /\ "restart" \in mishaps'.kinds
  BY <1>1, NoWire, MishapsGrow DEF Mishap, Mishaps, MishapsAnd
<1>3. DOMAIN lit' = {}
  BY <1>1
<1>4. BoardOK'
  BY <1>1, <1>2, <1>3 DEF BoardInv, BoardOK
<1>5. Cardinality(Claimed(wire', members')) <= told'
  <2>1. Claimed(wire', members') = {}
    BY <1>1, <1>2 DEF Claimed, NoSeat
  <2>2. Cardinality({}) = 0 /\ told' \in Nat
    BY <1>4, FS_EmptySet DEF BoardOK
  <2> QED BY <2>1, <2>2
<1>6. Never({"overlap"})' => FileTrue'
  <2>1. Never({"overlap"})' => FileTrue
    BY <1>2, NeverBefore DEF BoardInv
  <2> QED BY <1>1, <2>1 DEF FileTrue, IdlePresence
<1>7. ~Never({"disorder", "restart"})'
  BY <1>2 DEF Never
<1> QED BY <1>4, <1>5, <1>6, <1>7 DEF BoardInv

LEMMA BoardBegins == DeskInit => BoardInv
<1>. SUFFICES ASSUME DeskInit PROVE BoardInv
  OBVIOUS
<1>1. /\ wire = <<>> /\ lit = <<>> /\ members = [p \in Pairs |-> NoSeat] /\ told = 0
      /\ pauses = [x \in Agents |-> NoPause] /\ presence = [t \in PresenceThreads |-> IdlePresence]
      /\ seats = [p \in Pairs |-> "out"] /\ lamps = [h \in Hints |-> "unknown"]
      /\ overrides = <<>> /\ wanted = <<>>
  BY DEF DeskInit, StreamInit, BoardInit
<1>2. DOMAIN wire = {} /\ DOMAIN lit = {}
  BY <1>1, NoWire
<1>3. BoardOK
  BY <1>1, <1>2 DEF BoardOK
<1>4. Cardinality(Claimed(wire, members)) <= told
  <2>1. Claimed(wire, members) = {}
    BY <1>1, <1>2 DEF Claimed, NoSeat
  <2>2. Cardinality({}) = 0
    BY FS_EmptySet
  <2>3. told = 0
    BY <1>1
  <2>4. Cardinality(Claimed(wire, members)) = 0
    BY <2>1, <2>2
  <2> QED BY <2>3, <2>4
<1>5. FileTrue
  BY <1>1 DEF FileTrue, IdlePresence
<1>6. ASSUME NEW p \in Pairs PROVE SeatHeard(p, wire, seats[p], members[p]) /\ seats[p] = "out"
  BY <1>1, <1>2 DEF SeatHeard, NoSeat
<1>7. \A h \in Hints : HintHeard(h, wire, lamps[h], lit)
  BY <1>2 DEF HintHeard
<1>8. \A x \in Agents : PauseHeard(x, wire, pauses, seats)
  BY <1>1, <1>2 DEF PauseHeard, NoPause
<1>9. BoardHeard
  BY <1>6, <1>7, <1>8 DEF BoardHeard
<1> QED BY <1>3, <1>4, <1>5, <1>9 DEF BoardInv

LEMMA BoardSteps ==
  ASSUME MirrorInv, BoardInv, [DeskNext]_deskVars PROVE BoardInv'
<1>1. ASSUME NEW i \in DOMAIN wire, NEW again \in BOOLEAN, HandleAmiEvent(i, again) PROVE BoardInv'
  BY <1>1, BoardTakes
<1>2. CASE Restart
  BY <1>2, BoardRestarts
<1>3. CASE OfBoard
  BY <1>3, BoardMemberChange, BoardSetPause, BoardDeviceChange DEF OfBoard, BoardStep
<1>4. CASE OfPresence
  BY <1>4, BoardPresence
<1>5. CASE OfMirror \/ OfSla \/ OfCdrs \/ OfCalls \/ Clock \/ UNCHANGED deskVars
  BY <1>5, BoardLeft
<1> QED BY <1>1, <1>2, <1>3, <1>4, <1>5 DEF DeskNext

\* In order, the events under way and the rows, hints and pauses that are shown say how
\* the seats and devices are; no more seats have a row or are told of than changes were
\* made; and while their requests do not overlap the presence threads hold the file.
THEOREM BoardIsBehind == DeskSpec => [](MirrorInv /\ BoardInv)
<1>1. DeskInit => MirrorInv /\ BoardInv
  BY MirrorBegins, BoardBegins
<1>2. MirrorInv /\ BoardInv /\ [DeskNext]_deskVars => (MirrorInv /\ BoardInv)'
  BY DeskSteps, BoardSteps
<1> QED BY <1>1, <1>2, PTL DEF DeskSpec

\* Once every event has been heard in its turn, the board shows Asterisk's agents: the
\* rows of the seats, paused like them, the states of the hints and, unless the history
\* refused a row or an agent left while paused, no agent as paused who is free; and the
\* presence file holds the changes that did not overlap (queue_membership.py,
\* extension_states.py, agent_pause.py, presence.py).
THEOREM BoardFollows == DeskSpec => []BoardFollowsAsterisk
<1>1. MirrorInv /\ BoardInv => BoardFollowsAsterisk
  <2>. SUFFICES ASSUME BoardInv PROVE BoardFollowsAsterisk
    OBVIOUS
  <2>1. Never({"overlap"}) => overrides = wanted
    BY DEF BoardInv, FileTrue
  <2>2. ASSUME InOrder PROVE BoardHeard /\ DOMAIN wire = {}
    BY <2>2, NoWire DEF InOrder, BoardInv
  <2>3. ASSUME InOrder, NEW p \in Pairs, members[p].known
        PROVE  seats[p] # "out" /\ (members[p].paused <=> seats[p] # "free")
    <3>1. seats[p] # "out" /\ members[p].paused = Paused(seats[p])
      BY <2>2, <2>3 DEF BoardHeard, SeatHeard
    <3> QED BY <3>1 DEF Paused
  <2>4. ASSUME InOrder, told <= MaxSeats, NEW p \in Pairs, seats[p] # "out" PROVE members[p].known
    BY <2>2, <2>4 DEF BoardHeard, Comes
  <2>5. ASSUME InOrder, NEW h \in DOMAIN lit PROVE lit[h] = lamps[h]
    <3>1. h \in Hints
      BY DEF BoardInv, BoardOK
    <3> QED BY <2>2, <2>5, <3>1 DEF BoardHeard, HintHeard
  <2>6. ASSUME InOrder, Never({"failed", "left_paused"}), NEW x \in Agents, SeatsOf(x) = {"free"}
        PROVE  ~pauses[x].paused
    <3>1. ~SeatPaused(x, seats)
      BY <2>6 DEF SeatsOf, SeatPaused, Paused
    <3> QED BY <2>2, <2>6, <3>1 DEF BoardHeard, PauseHeard
  <2> QED BY <2>1, <2>3, <2>4, <2>5, <2>6 DEF BoardFollowsAsterisk
<1> QED BY <1>1, BoardIsBehind, PTL

----------------------------------------------------------------------------
(* The time of the pauses.                                                 *)

Logged(x) == Cardinality(LoggedSeconds(pauseLog, x))
WireTellsPauses == \A i \in DOMAIN wire : PauseToldOK(wire[i])
TimeOK(x) ==
  /\ heardPause[x].on \in BOOLEAN /\ heardPause[x].mixed \in BOOLEAN
  /\ heardPause[x].at \in Nat /\ heardPause[x].before \in Nat
  /\ pauses[x].paused \in BOOLEAN /\ pauses[x].known \in BOOLEAN /\ pauses[x].since \in Nat
  /\ pauses[x].paused => pauses[x].known
LogOK(x) == IsFiniteSet(LoggedSeconds(pauseLog, x))
TimesOK ==
  /\ now \in Nat /\ IsWire(pauseLog) /\ heardPause = [x \in Agents |-> heardPause[x]]
  /\ pauses = [x \in Agents |-> pauses[x]] /\ \A x \in Agents : TimeOK(x) /\ LogOK(x)

\* While the clock was never set back; what the history refused or a restart forgot is only
\* missing on one side of the account.
Past(x) ==
  /\ pauses[x].paused => pauses[x].since <= now
  /\ heardPause[x].on => heardPause[x].at <= now
NoneLost(x) ==
  /\ heardPause[x].on => pauses[x].paused
  /\ ~heardPause[x].mixed => Logged(x) + RunningFor(x) >= HeardFor(x)
NoneTwice(x) ==
  /\ pauses[x].paused => heardPause[x].on
  /\ Logged(x) + RunningFor(x) <= HeardFor(x)
TimeTrue(x) ==
  Never({"setback"}) =>
    Past(x) /\ (Never({"restart"}) => NoneLost(x)) /\ (Never({"failed"}) => NoneTwice(x))
TimeInv == WireTellsPauses /\ TimesOK /\ \A x \in Agents : TimeTrue(x)

\* A row is added to the history.
Seconds(i, n) == {i} \X (1..n)
LEMMA SecondsCount ==
  ASSUME NEW i, NEW n \in Nat
  PROVE  IsFiniteSet(Seconds(i, n)) /\ Cardinality(Seconds(i, n)) = n
<1>1. IsFiniteSet({i}) /\ Cardinality({i}) = 1
  BY FS_Singleton
<1>2. 1 \in Int /\ n \in Int
  OBVIOUS
<1>3. IsFiniteSet(1..n) /\ Cardinality(1..n) = IF 1 > n THEN 0 ELSE n - 1 + 1
  BY <1>2, FS_Interval
<1>4. Cardinality(1..n) = n
  BY <1>3
<1>5. IsFiniteSet({i} \X (1..n)) /\ Cardinality({i} \X (1..n)) = Cardinality({i}) * Cardinality(1..n)
  BY <1>1, <1>3, FS_Product
<1> QED BY <1>1, <1>4, <1>5 DEF Seconds

LEMMA LogGrows ==
  ASSUME NEW log, IsWire(log), NEW row, NEW more, more = Append(log, row), row.duration \in Nat,
         NEW x, IsFiniteSet(LoggedSeconds(log, x))
  PROVE  /\ IsWire(more) /\ IsFiniteSet(LoggedSeconds(more, x))
         /\ Cardinality(LoggedSeconds(log, x)) \in Nat
         /\ Cardinality(LoggedSeconds(more, x)) =
              Cardinality(LoggedSeconds(log, x)) + IF row.agent = x THEN row.duration ELSE 0
<1>. DEFINE S == {log[i] : i \in DOMAIN log} \cup {row}
            n == Len(log) + 1
<1>1. log \in Seq(S) /\ row \in S
  <2>1. {log[i] : i \in DOMAIN log} \subseteq S
    OBVIOUS
  <2> QED BY <2>1, SeqMonotonic DEF IsWire
<1>. HIDE DEF S
<1>2. /\ more \in Seq(S) /\ Len(more) = n /\ more[n] = row
      /\ \A i \in 1..Len(log) : more[i] = log[i]
  BY <1>1, AppendProperties
<1>3. /\ Len(log) \in Nat /\ DOMAIN log = 1..Len(log) /\ DOMAIN more = 1..n /\ IsWire(more)
  BY <1>1, <1>2, OwnElements
<1>4. DOMAIN more = DOMAIN log \cup {n} /\ n \notin DOMAIN log
  BY <1>3
<1>5. \A i \in DOMAIN log : more[i] = log[i]
  BY <1>2, <1>3
<1>. HIDE DEF n
<1>6. Cardinality(LoggedSeconds(log, x)) \in Nat
  BY FS_CardinalityType
<1>7. CASE row.agent # x
  <2>1. LoggedSeconds(more, x) = LoggedSeconds(log, x)
    BY <1>2, <1>4, <1>5, <1>7 DEF LoggedSeconds
  <2> QED BY <1>3, <1>6, <1>7, <2>1
<1>8. CASE row.agent = x
  <2>. DEFINE A == LoggedSeconds(log, x)
              B == Seconds(n, row.duration)
  <2>1. LoggedSeconds(more, x) = A \cup B
    BY <1>2, <1>4, <1>5, <1>8 DEF LoggedSeconds, Seconds
  <2>2. A \cap B = {}
    <3>1. \A s \in A : s[1] \in DOMAIN log
      BY DEF LoggedSeconds
    <3>2. \A s \in B : s[1] = n
      BY DEF Seconds
    <3> QED BY <3>1, <3>2, <1>4
  <2>3. IsFiniteSet(B) /\ Cardinality(B) = row.duration
    BY SecondsCount
  <2>4. IsFiniteSet(A)
    OBVIOUS
  <2>5. Cardinality(A) \in Nat
    BY <1>6
  <2>. HIDE DEF A, B
  <2>6. Cardinality(A \cap B) = 0
    BY <2>2, FS_EmptySet
  <2>7. IsFiniteSet(A \cup B) /\ Cardinality(A \cup B) = Cardinality(A) + row.duration
    <3>1. /\ IsFiniteSet(A \cup B)
          /\ Cardinality(A \cup B) = Cardinality(A) + Cardinality(B) - Cardinality(A \cap B)
      BY <2>3, <2>4, FS_Union
    <3> QED BY <2>3, <2>5, <2>6, <3>1
  <2>8. Cardinality(A) = Cardinality(LoggedSeconds(log, x))
    BY DEF A
  <2> QED BY <1>3, <1>6, <1>8, <2>1, <2>7, <2>8
<1> QED BY <1>7, <1>8

\* An event of a pause is heard: the account of the agent.
LEMMA TimesHear ==
  ASSUME TimesOK, NEW e, PauseToldOK(e), e.kind = "member_pause", PauseHears(e) \/ PauseFails(e),
         now' = now
  PROVE  /\ TimesOK'
         /\ \A x \in Agents \ {e.agent} :
              pauses'[x] = pauses[x] /\ heardPause'[x] = heardPause[x] /\ Logged(x)' = Logged(x)
         /\ LET x == e.agent
            IN  /\ x \in Agents
                /\ heardPause'[x].on = e.paused /\ heardPause'[x].at = now
                /\ heardPause'[x].before =
                     heardPause[x].before + IF heardPause[x].on /\ now > heardPause[x].at
                                            THEN now - heardPause[x].at ELSE 0
                /\ heardPause'[x].mixed =
                     (heardPause[x].mixed \/ (pauses[x].paused /\ e.paused /\ pauses[x].reason # e.reason))
                /\ Logged(x) \in Nat
                /\ \/ PauseHears(e) /\ Repeats(e) /\ pauses'[x] = pauses[x] /\ Logged(x)' = Logged(x)
                   \/ /\ PauseHears(e) /\ ~Repeats(e) /\ pauses'[x].paused = e.paused /\ pauses'[x].since = now
                      /\ Logged(x)' = Logged(x) +
                           IF Closes(e) /\ now > pauses[x].since THEN now - pauses[x].since ELSE 0
                   \/ PauseFails(e) /\ pauses'[x] = pauses[x] /\ Logged(x)' = Logged(x)
<1>. DEFINE a == e.agent
            hp == [on |-> e.paused, at |-> now,
                   mixed |-> heardPause[a].mixed
                               \/ (pauses[a].paused /\ e.paused /\ pauses[a].reason # e.reason),
                   before |-> heardPause[a].before + IF heardPause[a].on /\ now > heardPause[a].at
                                                     THEN now - heardPause[a].at ELSE 0]
            ps == [known |-> TRUE, paused |-> e.paused, reason |-> IF e.paused THEN e.reason ELSE "",
                   since |-> now]
<1>1. a \in Agents /\ e.paused \in BOOLEAN /\ TimeOK(a) /\ now \in Nat
  BY DEF PauseToldOK, TimesOK
<1>2. heardPause' = [heardPause EXCEPT ![a] = hp]
  BY DEF PauseHears, PauseFails, Heard
<1>3. /\ hp.on = e.paused /\ hp.at = now
      /\ hp.mixed = (heardPause[a].mixed
                       \/ (pauses[a].paused /\ e.paused /\ pauses[a].reason # e.reason))
      /\ hp.before = heardPause[a].before + IF heardPause[a].on /\ now > heardPause[a].at
                                            THEN now - heardPause[a].at ELSE 0
  OBVIOUS
<1>4. ps.known = TRUE /\ ps.paused = e.paused /\ ps.since = now
  OBVIOUS
<1>5. \/ PauseHears(e) /\ Repeats(e) /\ pauses' = pauses
      \/ PauseHears(e) /\ ~Repeats(e) /\ pauses' = [pauses EXCEPT ![a] = ps]
      \/ PauseFails(e) /\ pauses' = pauses
  BY DEF PauseHears, PauseFails
<1>. HIDE DEF hp, ps
<1>6. /\ heardPause' = [x \in Agents |-> heardPause'[x]] /\ heardPause'[a] = hp
      /\ \A x \in Agents \ {a} : heardPause'[x] = heardPause[x]
  BY <1>1, <1>2 DEF TimesOK
<1>7. /\ pauses' = [x \in Agents |-> pauses'[x]]
      /\ \A x \in Agents \ {a} : pauses'[x] = pauses[x]
      /\ pauses'[a] = pauses[a] \/ pauses'[a] = ps
  BY <1>1, <1>5 DEF TimesOK
<1>8. PauseRow(e).agent = a /\
      PauseRow(e).duration = IF now > pauses[a].since THEN now - pauses[a].since ELSE 0
  BY DEF PauseRow
<1>9. PauseRow(e).duration \in Nat
  <2>1. pauses[a].since \in Nat
    BY <1>1 DEF TimeOK
  <2> QED BY <1>1, <1>8, <2>1
<1>10. \/ PauseHears(e) /\ Closes(e) /\ pauseLog' = Append(pauseLog, PauseRow(e))
       \/ ~(PauseHears(e) /\ Closes(e)) /\ pauseLog' = pauseLog
       \/ PauseFails(e) /\ pauseLog' = pauseLog
  BY DEF PauseHears, PauseFails
<1>11. ASSUME NEW x \in Agents
       PROVE  /\ IsWire(pauseLog') /\ LogOK(x)' /\ Logged(x) \in Nat
              /\ PauseHears(e) /\ Closes(e) /\ pauseLog' = Append(pauseLog, PauseRow(e)) =>
                   Logged(x)' = Logged(x) + IF x = a THEN PauseRow(e).duration ELSE 0
              /\ pauseLog' = pauseLog => Logged(x)' = Logged(x)
  <2>1. IsWire(pauseLog) /\ IsFiniteSet(LoggedSeconds(pauseLog, x))
    BY DEF TimesOK, LogOK
  <2>2. CASE pauseLog' = Append(pauseLog, PauseRow(e))
    <3>. DEFINE row == PauseRow(e)
                more == pauseLog'
    <3>0. more = Append(pauseLog, row) /\ row.duration \in Nat
      BY <1>9, <2>2
    <3>. HIDE DEF row, more
    <3>1. /\ IsWire(more) /\ IsFiniteSet(LoggedSeconds(more, x))
          /\ Cardinality(LoggedSeconds(pauseLog, x)) \in Nat
          /\ Cardinality(LoggedSeconds(more, x)) =
               Cardinality(LoggedSeconds(pauseLog, x)) + IF row.agent = x THEN row.duration ELSE 0
      BY <2>1, <3>0, LogGrows
    <3>2. pauseLog' = pauseLog => Logged(x)' = Logged(x)
      BY DEF Logged
    <3>3. IsWire(pauseLog') /\ LogOK(x)'
      BY <3>1 DEF LogOK, more
    <3>4. Logged(x) \in Nat /\ Logged(x)' = Logged(x) + IF x = a THEN PauseRow(e).duration ELSE 0
      BY <1>8, <3>1 DEF Logged, more, row
    <3> QED BY <3>2, <3>3, <3>4
  <2>3. CASE pauseLog' = pauseLog
    <3>1. Cardinality(LoggedSeconds(pauseLog, x)) \in Nat
      BY <2>1, FS_CardinalityType
    <3>2. Logged(x)' = Logged(x) /\ LogOK(x)' /\ IsWire(pauseLog')
      BY <2>1, <2>3 DEF Logged, LogOK
    <3>3. pauseLog' # Append(pauseLog, PauseRow(e))
      <4>1. Len(pauseLog) \in Nat
        BY <2>1, Wires
      <4>2. Len(Append(pauseLog, PauseRow(e))) = Len(pauseLog) + 1
        <5>. DEFINE S == {pauseLog[i] : i \in DOMAIN pauseLog} \cup {PauseRow(e)}
        <5>1. {pauseLog[i] : i \in DOMAIN pauseLog} \subseteq S /\ PauseRow(e) \in S
          OBVIOUS
        <5>2. pauseLog \in Seq(S)
          BY <2>1, <5>1, SeqMonotonic DEF IsWire
        <5>. HIDE DEF S
        <5> QED BY <5>1, <5>2, AppendProperties
      <4> QED BY <2>3, <4>1, <4>2
    <3> QED BY <3>1, <3>2, <3>3 DEF Logged
  <2> QED BY <1>10, <2>2, <2>3
<1>12. \A x \in Agents : TimeOK(x)'
  <2>1. ASSUME NEW x \in Agents, x # a PROVE TimeOK(x)'
    <3>1. TimeOK(x) /\ pauses'[x] = pauses[x] /\ heardPause'[x] = heardPause[x]
      BY <1>6, <1>7, <2>1 DEF TimesOK
    <3> QED BY <3>1 DEF TimeOK
  <2>2. /\ heardPause'[a].on \in BOOLEAN /\ heardPause'[a].mixed \in BOOLEAN /\ heardPause'[a].at \in Nat
    <3>1. heardPause'[a].mixed \in BOOLEAN
      BY <1>1, <1>3, <1>6, Zenon DEF TimeOK
    <3> QED BY <1>1, <1>3, <1>6, <3>1
  <2>3. heardPause'[a].before \in Nat
    <3>1. heardPause[a].before \in Nat /\ heardPause[a].at \in Nat
      BY <1>1 DEF TimeOK
    <3> QED BY <1>1, <1>3, <1>6, <3>1
  <2>4. /\ pauses'[a].paused \in BOOLEAN /\ pauses'[a].known \in BOOLEAN /\ pauses'[a].since \in Nat
        /\ pauses'[a].paused => pauses'[a].known
    BY <1>1, <1>4, <1>7 DEF TimeOK
  <2>5. TimeOK(a)'
    BY <2>2, <2>3, <2>4 DEF TimeOK
  <2> QED BY <2>1, <2>5
<1>13. TimesOK'
  BY <1>1, <1>6, <1>7, <1>11, <1>12 DEF TimesOK
<1>14. ASSUME NEW x \in Agents \ {a} PROVE Logged(x)' = Logged(x)
  <2>1. Logged(x) \in Nat /\ x # a
    BY <1>11
  <2> QED BY <1>10, <1>11, <2>1
<1>15. Logged(a) \in Nat
  BY <1>1, <1>11
<1>16. PauseHears(e) /\ Repeats(e) => Logged(a)' = Logged(a)
  BY <1>1, <1>10, <1>11 DEF Closes
<1>17. PauseHears(e) => Logged(a)' = Logged(a) +
         IF Closes(e) /\ now > pauses[a].since THEN now - pauses[a].since ELSE 0
  <2>1. CASE Closes(e) /\ PauseHears(e)
    BY <1>1, <1>8, <1>11, <2>1 DEF PauseHears
  <2>2. CASE ~Closes(e) /\ PauseHears(e)
    <3>1. Logged(a)' = Logged(a)
      BY <1>1, <1>11, <2>2 DEF PauseHears
    <3> QED BY <1>15, <2>2, <3>1
  <2> QED BY <2>1, <2>2
<1>18. PauseFails(e) => Logged(a)' = Logged(a)
  BY <1>1, <1>11 DEF PauseFails
<1>19. \/ PauseHears(e) /\ Repeats(e) /\ pauses'[a] = pauses[a]
       \/ PauseHears(e) /\ ~Repeats(e) /\ pauses'[a].paused = e.paused /\ pauses'[a].since = now
       \/ PauseFails(e) /\ pauses'[a] = pauses[a]
  <2>1. pauses' = [pauses EXCEPT ![a] = ps] => pauses'[a] = ps
    BY <1>1 DEF TimesOK
  <2> QED BY <1>4, <1>5, <2>1
<1> QED BY <1>1, <1>3, <1>6, <1>7, <1>13, <1>14, <1>15, <1>16, <1>17, <1>18, <1>19

\* What the account says of one agent, in numbers.
LEMMA TimeHears ==
  ASSUME TimeInv, NEW e, PauseToldOK(e), e.kind = "member_pause", PauseHears(e) \/ PauseFails(e),
         now' = now, KindsGrow, PauseFails(e) => ~Never({"failed"})'
  PROVE  TimesOK' /\ \A x \in Agents : TimeTrue(x)'
<1>1. TimesOK
  BY DEF TimeInv
<1>. DEFINE a == e.agent
<1>2. /\ TimesOK'
      /\ \A x \in Agents \ {a} :
           pauses'[x] = pauses[x] /\ heardPause'[x] = heardPause[x] /\ Logged(x)' = Logged(x)
  BY <1>1, TimesHear
<1>3. /\ a \in Agents
      /\ heardPause'[a].on = e.paused /\ heardPause'[a].at = now
      /\ heardPause'[a].before = heardPause[a].before + IF heardPause[a].on /\ now > heardPause[a].at
                                                        THEN now - heardPause[a].at ELSE 0
      /\ heardPause'[a].mixed =
           (heardPause[a].mixed \/ (pauses[a].paused /\ e.paused /\ pauses[a].reason # e.reason))
      /\ Logged(a) \in Nat
  BY <1>1, TimesHear
<1>4. \/ PauseHears(e) /\ Repeats(e) /\ pauses'[a] = pauses[a] /\ Logged(a)' = Logged(a)
      \/ /\ PauseHears(e) /\ ~Repeats(e) /\ pauses'[a].paused = e.paused /\ pauses'[a].since = now
         /\ Logged(a)' = Logged(a) + IF Closes(e) /\ now > pauses[a].since THEN now - pauses[a].since ELSE 0
      \/ PauseFails(e) /\ pauses'[a] = pauses[a] /\ Logged(a)' = Logged(a)
  BY <1>1, TimesHear
<1>5. Closes(e) => pauses[a].known /\ pauses[a].paused /\ ~e.paused /\ ~Repeats(e)
  BY DEF Closes
<1>6. ~Closes(e) => Repeats(e) \/ e.paused \/ ~pauses[a].known \/ ~pauses[a].paused
  BY DEF Closes
<1>7. Repeats(e) => /\ pauses[a].known /\ pauses[a].paused = e.paused
                    /\ ~e.paused \/ pauses[a].reason = e.reason
  BY DEF Repeats
<1>8. ~Repeats(e) => \/ ~pauses[a].known \/ pauses[a].paused # e.paused
                     \/ (e.paused /\ pauses[a].reason # e.reason)
  BY DEF Repeats
<1>9. PauseFails(e) => Closes(e)
  BY DEF PauseFails
<1>10. TimeOK(a) /\ e.paused \in BOOLEAN /\ now \in Nat
  BY <1>1, <1>3 DEF TimesOK, PauseToldOK
<1>11. ASSUME NEW x \in Agents \ {a} PROVE TimeTrue(x)'
  <2>1. /\ pauses'[x] = pauses[x] /\ heardPause'[x] = heardPause[x] /\ Logged(x)' = Logged(x)
        /\ TimeTrue(x)
    BY <1>2 DEF TimeInv
  <2>2. RunningFor(x)' = RunningFor(x) /\ HeardFor(x)' = HeardFor(x)
    BY <2>1 DEF RunningFor, HeardFor
  <2>3. \A kind : Never({kind})' => Never({kind})
    BY NeverBefore
  <2> QED BY <2>1, <2>2, <2>3 DEF TimeTrue, Past, NoneLost, NoneTwice
<1>12. TimeTrue(a)'
  <2>. DEFINE h == heardPause[a]
              p == pauses[a]
  <2>0. a \in Agents /\ TimeTrue(a)
    BY <1>3 DEF TimeInv
  <2>. SUFFICES ASSUME Never({"setback"})'
                PROVE  /\ Past(a)' /\ (Never({"restart"})' => NoneLost(a)')
                       /\ (Never({"failed"})' => NoneTwice(a)')
    BY DEF TimeTrue
  <2>1. \A kind : Never({kind})' => Never({kind})
    BY NeverBefore
  <2>2. /\ p.paused => p.since <= now
        /\ h.on => h.at <= now
    BY <2>0, <2>1 DEF TimeTrue, Past
  <2>3. h.on \in BOOLEAN /\ h.at \in Nat /\ h.before \in Nat /\ p.paused \in BOOLEAN /\ p.since \in Nat
    BY <1>10 DEF TimeOK
  <2>4. Past(a)'
    BY <1>3, <1>4, <1>10, <2>2, <2>3 DEF Past
  \* What is accounted for, and what was heard of, is the same before and after the event,
  \* but for a pause whose clock starts again.
  <2>5. HeardFor(a)' = HeardFor(a) /\ HeardFor(a) \in Nat
    <3>0. heardPause'[a].before \in Nat /\ now' - now = 0
      BY <1>2, <1>3, <1>10 DEF TimesOK, TimeOK
    <3>1. HeardFor(a)' = heardPause'[a].before
      BY <1>3, <1>10, <3>0 DEF HeardFor
    <3>2. HeardFor(a) = h.before + IF h.on THEN now - h.at ELSE 0
      BY DEF HeardFor
    <3> QED BY <1>3, <1>10, <2>2, <2>3, <3>1, <3>2
  <2>6. RunningFor(a) = IF p.paused THEN now - p.since ELSE 0
    BY DEF RunningFor
  <2>7. Closes(e) => p.paused
    BY <1>5
  <2>8. ASSUME Repeats(e) \/ PauseFails(e)
        PROVE  pauses'[a] = p /\ RunningFor(a)' = RunningFor(a) /\ Logged(a)' = Logged(a)
    <3>1. pauses'[a] = p /\ Logged(a)' = Logged(a)
      <4>1. PauseFails(e) => pauses'[a].paused = p.paused
        BY DEF PauseFails
      <4>2. PauseFails(e) => p.paused /\ ~e.paused
        BY <1>5, <1>9
      <4> QED BY <1>4, <2>8, <4>1, <4>2
    <3> QED BY <3>1 DEF RunningFor
  <2>9. ASSUME ~Repeats(e), ~PauseFails(e)
        PROVE  /\ pauses'[a].paused = e.paused /\ RunningFor(a)' = 0
               /\ Logged(a)' = Logged(a) + IF Closes(e) THEN RunningFor(a) ELSE 0
    <3>1. /\ pauses'[a].paused = e.paused /\ pauses'[a].since = now
          /\ Logged(a)' = Logged(a) + IF Closes(e) /\ now > p.since THEN now - p.since ELSE 0
      BY <1>4, <2>9
    <3>2. RunningFor(a)' = 0
      BY <1>10, <3>1 DEF RunningFor
    <3>3. (IF Closes(e) /\ now > p.since THEN now - p.since ELSE 0) = IF Closes(e) THEN RunningFor(a) ELSE 0
      BY <1>10, <2>2, <2>3, <2>6, <2>7
    <3> QED BY <3>1, <3>2, <3>3
  <2>10. RunningFor(a) \in Nat /\ (~p.paused => RunningFor(a) = 0)
    BY <1>10, <2>2, <2>3, <2>6
  <2>11. ASSUME Never({"restart"})' PROVE NoneLost(a)'
    <3>1. (h.on => p.paused) /\ (~h.mixed => Logged(a) + RunningFor(a) >= HeardFor(a))
      BY <2>0, <2>1, <2>11 DEF TimeTrue, NoneLost
    <3>2. heardPause'[a].on => pauses'[a].paused
      BY <1>3, <1>4, <1>5, <1>7, <1>9
    <3>3. ASSUME ~heardPause'[a].mixed PROVE Logged(a)' + RunningFor(a)' >= HeardFor(a)'
      <4>1. ~h.mixed /\ ~(p.paused /\ e.paused /\ p.reason # e.reason)
        BY <1>3, <3>3
      <4>2. CASE Repeats(e) \/ PauseFails(e)
        BY <2>5, <2>8, <3>1, <4>1, <4>2
      <4>3. CASE ~Repeats(e) /\ ~PauseFails(e)
        <5>1. Closes(e) \/ ~p.paused
          BY <1>6, <1>8, <1>10, <4>1, <4>3 DEF TimeOK
        <5>2. Logged(a)' + RunningFor(a)' = Logged(a) + RunningFor(a)
          BY <1>3, <2>9, <2>10, <4>3, <5>1
        <5> QED BY <2>5, <3>1, <4>1, <5>2
      <4> QED BY <4>2, <4>3
    <3> QED BY <3>2, <3>3 DEF NoneLost
  <2>12. ASSUME Never({"failed"})' PROVE NoneTwice(a)'
    <3>1. ~PauseFails(e)
      BY <2>12
    <3>2. (p.paused => h.on) /\ Logged(a) + RunningFor(a) <= HeardFor(a)
      BY <2>0, <2>1, <2>12 DEF TimeTrue, NoneTwice
    <3>3. pauses'[a].paused => heardPause'[a].on
      BY <1>3, <1>4, <1>7, <3>1
    <3>4. Logged(a)' + RunningFor(a)' <= HeardFor(a)'
      <4>1. CASE Repeats(e)
        BY <2>5, <2>8, <3>2, <4>1
      <4>2. CASE ~Repeats(e)
        BY <1>3, <2>5, <2>9, <2>10, <3>1, <3>2, <4>2
      <4> QED BY <4>1, <4>2
    <3> QED BY <3>3, <3>4 DEF NoneTwice
  <2> QED BY <2>4, <2>11, <2>12
<1> QED BY <1>2, <1>11, <1>12

LEMMA NoSuchEvents ==
  ASSUME WireTellsPauses, Strangers PROVE WireTellsPauses'
<1>1. ASSUME NEW j \in DOMAIN wire' PROVE PauseToldOK(wire'[j])
  <2>1. CASE j \in DOMAIN wire
    BY <2>1 DEF Strangers, Extended, WireTellsPauses
  <2>2. CASE j \notin DOMAIN wire
    <3>1. Stranger(wire'[j])
      BY <2>2 DEF Strangers, New
    <3> QED BY <3>1 DEF Stranger, PauseToldOK, MemberKinds
  <2> QED BY <2>1, <2>2
<1> QED BY <1>1 DEF WireTellsPauses

\* What does not touch the pauses.
LEMMA TimesStay ==
  ASSUME TimeInv, WireTellsPauses', KindsGrow, UNCHANGED <<pauses, pauseLog, heardPause, now>>
  PROVE  TimeInv'
<1>1. TimesOK'
  BY DEF TimeInv, TimesOK, TimeOK, LogOK
<1>2. ASSUME NEW x \in Agents PROVE TimeTrue(x)'
  <2>1. TimeTrue(x)
    BY DEF TimeInv
  <2>2. \A kind : Never({kind})' => Never({kind})
    BY NeverBefore
  <2>3. RunningFor(x)' = RunningFor(x) /\ HeardFor(x)' = HeardFor(x) /\ Logged(x)' = Logged(x)
    BY DEF RunningFor, HeardFor, Logged
  <2> QED BY <2>1, <2>2, <2>3 DEF TimeTrue, Past, NoneLost, NoneTwice
<1> QED BY <1>1, <1>2 DEF TimeInv

LEMMA TimesTake ==
  ASSUME MirrorInv, TimeInv, NEW i \in DOMAIN wire, NEW again \in BOOLEAN, HandleAmiEvent(i, again)
  PROVE  TimeInv'
<1>. DEFINE e == wire[i]
<1>1. Hears(i, again) /\ KindsGrow /\ now' = now
  BY Hearing DEF Hears, HandleAmiEvent
<1>2. WireTellsPauses'
  <2>1. \A j \in DOMAIN wire' : \E k \in DOMAIN wire : wire'[j] = wire[k]
    BY <1>1, WireHeard
  <2> QED BY <2>1 DEF TimeInv, WireTellsPauses
<1>3. PauseToldOK(e)
  BY DEF TimeInv, WireTellsPauses
<1>4. \/ UNCHANGED <<pauses, pauseLog, heardPause>>
      \/ e.kind = "member_pause" /\ PauseHears(e)
      \/ e.kind = "member_pause" /\ PauseFails(e) /\ ~Never({"failed"})'
  <2>1. \/ NoPauseHeard \/ Pause(e)
        \/ e.kind = "member_pause" /\ PauseFails(e) /\ Mishaps(Disorder(i, again) \cup {"failed"})
    BY DEF HandleAmiEvent
  <2>2. Mishaps(Disorder(i, again) \cup {"failed"}) => ~Never({"failed"})'
    BY DEF Mishaps, MishapsAnd, Never
  <2> QED BY <2>1, <2>2 DEF Pause, NoPauseHeard
<1>. HIDE DEF e
<1>5. CASE UNCHANGED <<pauses, pauseLog, heardPause>>
  BY <1>1, <1>2, <1>5, TimesStay
<1>6. CASE e.kind = "member_pause" /\ PauseHears(e)
  <2>1. PauseFails(e) => ~Never({"failed"})'
    <3>. SUFFICES ASSUME PauseFails(e) PROVE FALSE
      OBVIOUS
    <3>. DEFINE r == [known |-> TRUE, paused |-> e.paused, reason |-> IF e.paused THEN e.reason ELSE "",
                      since |-> now]
    <3>1. pauses' = pauses /\ ~Repeats(e) /\ ~e.paused /\ pauses[e.agent].paused
      BY DEF PauseFails, Closes
    <3>2. pauses' = [pauses EXCEPT ![e.agent] = r] /\ r.paused = e.paused
      BY <1>6, <3>1 DEF PauseHears
    <3>. HIDE DEF r
    <3>3. e.agent \in Agents /\ pauses = [x \in Agents |-> pauses[x]]
      BY <1>3, <1>6 DEF PauseToldOK, TimeInv, TimesOK
    <3> QED BY <3>1, <3>2, <3>3
  <2>2. TimesOK' /\ \A x \in Agents : TimeTrue(x)'
    BY <1>1, <1>3, <1>6, <2>1, TimeHears
  <2> QED BY <1>2, <2>2 DEF TimeInv
<1>7. CASE e.kind = "member_pause" /\ PauseFails(e) /\ ~Never({"failed"})'
  <2>1. TimesOK' /\ \A x \in Agents : TimeTrue(x)'
    BY <1>1, <1>3, <1>7, TimeHears
  <2> QED BY <1>2, <2>1 DEF TimeInv
<1> QED BY <1>4, <1>5, <1>6, <1>7

LEMMA TimesRestart ==
  ASSUME MirrorInv, TimeInv, Restart PROVE TimeInv'
<1>1. /\ wire' = <<>> /\ pauses' = [x \in Agents |-> NoPause] /\ Mishap("restart")
      /\ UNCHANGED <<now, pauseLog, heardPause>>
  BY DEF Restart
<1>2. DOMAIN wire' = {} /\ KindsGrow /\ "restart" \in mishaps'.kinds
  BY <1>1, NoWire, MishapsGrow DEF Mishap, Mishaps, MishapsAnd
<1>3. \A x \in Agents : ~pauses'[x].paused /\ ~pauses'[x].known /\ pauses'[x].paused \in BOOLEAN
                        /\ pauses'[x].known \in BOOLEAN /\ pauses'[x].since = 0
  BY <1>1 DEF NoPause
<1>4. TimesOK'
  <2>1. \A x \in Agents : TimeOK(x)' /\ LogOK(x)'
    BY <1>1, <1>3 DEF TimeInv, TimesOK, TimeOK, LogOK
  <2> QED BY <1>1, <2>1 DEF TimeInv, TimesOK
<1>5. ASSUME NEW x \in Agents PROVE TimeTrue(x)'
  <2>1. TimeTrue(x) /\ TimeOK(x) /\ now \in Nat
    BY DEF TimeInv, TimesOK
  <2>2. \A kind : Never({kind})' => Never({kind})
    BY <1>2, NeverBefore
  <2>3. RunningFor(x)' = 0 /\ HeardFor(x)' = HeardFor(x) /\ Logged(x)' = Logged(x) /\ Logged(x) \in Nat
    <3>1. IsFiniteSet(LoggedSeconds(pauseLog, x))
      BY DEF TimeInv, TimesOK, LogOK
    <3>2. Logged(x) \in Nat
      BY <3>1, FS_CardinalityType DEF Logged
    <3> QED BY <1>1, <1>3, <3>2 DEF RunningFor, HeardFor, Logged
  <2>4. Never({"setback"})' => Past(x) /\ Past(x)'
    BY <1>1, <1>3, <2>1, <2>2 DEF TimeTrue, Past
  <2>5. ASSUME Never({"setback"})', Never({"failed"})' PROVE NoneTwice(x)'
    <3>1. Past(x) /\ NoneTwice(x)
      BY <2>1, <2>2, <2>5 DEF TimeTrue
    <3>2. RunningFor(x) \in Nat /\ HeardFor(x) \in Nat
      BY <2>1, <3>1 DEF RunningFor, HeardFor, Past, TimeOK
    <3> QED BY <1>3, <2>3, <3>1, <3>2 DEF NoneTwice
  <2>6. ~Never({"restart"})'
    BY <1>2 DEF Never
  <2> QED BY <2>4, <2>5, <2>6 DEF TimeTrue
<1>6. WireTellsPauses'
  BY <1>2 DEF WireTellsPauses
<1> QED BY <1>4, <1>5, <1>6 DEF TimeInv

\* Time passes for the pauses that go on.
LEMMA TimesPass ==
  ASSUME MirrorInv, TimeInv, Clock PROVE TimeInv'
<1>1. /\ wire' = wire /\ UNCHANGED <<pauses, pauseLog, heardPause>>
      /\ now' \in Clocks /\ (mishaps' = mishaps \/ Mishap("setback"))
      /\ now' > now \/ Mishap("setback")
  BY DEF Clock, SetClock, boardVars, NoMishap
<1>2. KindsGrow /\ now' \in Nat /\ (Never({"setback"})' => now' > now)
  <2>1. Mishap("setback") => ~Never({"setback"})'
    BY DEF Mishap, Mishaps, MishapsAnd, Never
  <2> QED BY <1>1, <2>1, MishapsGrow, StreamAssumption
<1>3. WireTellsPauses' /\ TimesOK'
  BY <1>1, <1>2 DEF TimeInv, WireTellsPauses, TimesOK, TimeOK, LogOK
<1>4. ASSUME NEW x \in Agents PROVE TimeTrue(x)'
  <2>. SUFFICES ASSUME Never({"setback"})'
                PROVE  /\ Past(x)' /\ (Never({"restart"})' => NoneLost(x)')
                       /\ (Never({"failed"})' => NoneTwice(x)')
    BY DEF TimeTrue
  <2>1. /\ TimeTrue(x) /\ TimeOK(x) /\ now \in Nat /\ now' > now /\ now' \in Nat
        /\ Logged(x)' = Logged(x)
    BY <1>1, <1>2 DEF TimeInv, TimesOK, Logged
  <2>2. \A kind : Never({kind})' => Never({kind})
    BY <1>2, NeverBefore
  <2>3. Past(x)
    BY <2>1, <2>2 DEF TimeTrue
  <2>4. Past(x)'
    BY <1>1, <2>1, <2>3 DEF Past, TimeOK
  <2>0. PICK step \in Nat : now' = now + step
    <3>. DEFINE n == now
                m == now'
    <3>1. n \in Nat /\ m \in Nat /\ m > n
      BY <2>1
    <3>. HIDE DEF n, m
    <3>2. m - n \in Nat /\ m = n + (m - n)
      BY <3>1
    <3> QED BY <3>2 DEF n, m
  <2>5. /\ RunningFor(x)' = RunningFor(x) + IF pauses[x].paused THEN step ELSE 0
        /\ HeardFor(x)' = HeardFor(x) + IF heardPause[x].on THEN step ELSE 0
        /\ RunningFor(x) \in Nat /\ HeardFor(x) \in Nat /\ Logged(x) \in Nat
    <3>1. Logged(x) \in Nat
      BY FS_CardinalityType DEF TimeInv, TimesOK, LogOK, Logged
    <3>3. /\ RunningFor(x) \in Nat
          /\ RunningFor(x)' = RunningFor(x) + IF pauses[x].paused THEN step ELSE 0
      BY <1>1, <2>0, <2>1, <2>3 DEF RunningFor, Past, TimeOK
    <3>4. /\ HeardFor(x) \in Nat
          /\ HeardFor(x)' = HeardFor(x) + IF heardPause[x].on THEN step ELSE 0
      BY <1>1, <2>0, <2>1, <2>3 DEF HeardFor, Past, TimeOK
    <3> QED BY <2>0, <3>1, <3>3, <3>4
  <2>6. ASSUME Never({"restart"})' PROVE NoneLost(x)'
    <3>1. NoneLost(x)
      BY <2>1, <2>2, <2>6 DEF TimeTrue
    <3>2. (heardPause[x].on => pauses[x].paused) /\ (~heardPause[x].mixed => Logged(x) + RunningFor(x) >= HeardFor(x))
      BY <3>1 DEF NoneLost
    <3>3. ~heardPause[x].mixed => Logged(x) + RunningFor(x)' >= HeardFor(x)'
      BY <2>0, <2>5, <3>2
    <3> QED BY <1>1, <2>1, <3>2, <3>3 DEF NoneLost
  <2>7. ASSUME Never({"failed"})' PROVE NoneTwice(x)'
    <3>1. NoneTwice(x)
      BY <2>1, <2>2, <2>7 DEF TimeTrue
    <3>2. (pauses[x].paused => heardPause[x].on) /\ Logged(x) + RunningFor(x) <= HeardFor(x)
      BY <3>1 DEF NoneTwice
    <3>3. Logged(x) + RunningFor(x)' <= HeardFor(x)'
      BY <2>0, <2>5, <3>2
    <3> QED BY <1>1, <2>1, <3>2, <3>3 DEF NoneTwice
  <2> QED BY <2>4, <2>6, <2>7
<1> QED BY <1>3, <1>4 DEF TimeInv

LEMMA TimesBegin == DeskInit => TimeInv
<1>. SUFFICES ASSUME DeskInit PROVE TimeInv
  OBVIOUS
<1>. DEFINE h == [on |-> FALSE, at |-> 0, before |-> 0, mixed |-> FALSE]
<1>1. /\ wire = <<>> /\ now = StartClock /\ pauseLog = <<>> /\ pauses = [x \in Agents |-> NoPause]
      /\ heardPause = [x \in Agents |-> h]
  BY DEF DeskInit, StreamInit, BoardInit
<1>2. DOMAIN wire = {} /\ DOMAIN pauseLog = {} /\ IsWire(pauseLog) /\ now \in Nat
  BY <1>1, NoWire, StreamAssumption
<1>3. ~h.on /\ h.on \in BOOLEAN /\ h.at = 0 /\ h.before = 0 /\ ~h.mixed /\ h.mixed \in BOOLEAN
  OBVIOUS
<1>. DEFINE p == NoPause
<1>0. ~p.known /\ p.known \in BOOLEAN /\ ~p.paused /\ p.paused \in BOOLEAN /\ p.since = 0
  BY DEF NoPause
<1>. HIDE DEF h, p
<1>4. ASSUME NEW x \in Agents PROVE TimeOK(x) /\ LogOK(x) /\ TimeTrue(x)
  <2>1. heardPause[x] = h /\ pauses[x] = p
    BY <1>1 DEF p
  <2>2. LoggedSeconds(pauseLog, x) = {}
    BY <1>2 DEF LoggedSeconds
  <2>3. Logged(x) = 0 /\ LogOK(x)
    BY <2>2, FS_EmptySet DEF Logged, LogOK
  <2>4. RunningFor(x) = 0 /\ HeardFor(x) = 0
    BY <1>0, <1>3, <2>1 DEF RunningFor, HeardFor
  <2>5. TimeOK(x)
    BY <1>0, <1>3, <2>1 DEF TimeOK
  <2>6. Past(x) /\ NoneLost(x) /\ NoneTwice(x)
    BY <1>0, <1>3, <2>1, <2>3, <2>4 DEF Past, NoneLost, NoneTwice
  <2> QED BY <2>3, <2>5, <2>6 DEF TimeTrue
<1>5. WireTellsPauses
  BY <1>2 DEF WireTellsPauses
<1> QED BY <1>1, <1>2, <1>4, <1>5 DEF TimeInv, TimesOK

\* Only the clock changes the time.
LEMMA TimeStands ==
  ASSUME OfMirror \/ OfSla \/ OfCdrs \/ OfCalls PROVE now' = now
<1>1. CASE OfMirror
  BY <1>1 DEF OfMirror, MirrorStep, LeaveQueue, HangUp, Enter, Unheard, Read, Redirect, PickupAnswer,
              QueueForChannel, streamVars
<1>2. CASE OfSla
  BY <1>2 DEF OfSla, SlaStep, SlaSnapshot, OfferEnds
<1>3. CASE OfCdrs \/ OfCalls
  <2>1. \A e : Emit(e) => now' = now
    BY DEF Emit
  <2> QED BY <1>3, <2>1 DEF OfCdrs, OfCalls, CdrStep, CallStep, CallEnds, CallRings, QualityTold, CallLost,
                            CallRated
<1> QED BY <1>1, <1>2, <1>3

LEMMA TimeSteps ==
  ASSUME MirrorInv, TimeInv, [DeskNext]_deskVars PROVE TimeInv'
<1>1. ASSUME NEW i \in DOMAIN wire, NEW again \in BOOLEAN, HandleAmiEvent(i, again) PROVE TimeInv'
  BY <1>1, TimesTake
<1>2. CASE Restart
  BY <1>2, TimesRestart
<1>3. CASE Clock
  BY <1>3, TimesPass
<1>4. CASE OfBoard
  <2>1. UNCHANGED <<pauses, pauseLog, heardPause, now>>
    BY <1>4 DEF OfBoard, BoardStep, MemberChange, SetPause, DeviceChange, BoardUnheard
  <2>2. KindsGrow
    <3>1. mishaps' = mishaps \/ \E kind : Note(kind)
      BY <1>4, BoardTells DEF OfBoard
    <3> QED BY <3>1, MishapsGrow DEF Note
  <2>3. WireTellsPauses'
    <3>1. PICK E : IsWire(E) /\ Appends(wire', wire, E) /\ \A k \in DOMAIN E : OfAgents(E[k])
      BY <1>4, BoardTells DEF OfBoard
    <3>2. /\ \A j \in DOMAIN wire : wire'[j] = wire[j]
          /\ \A j \in DOMAIN wire' \ DOMAIN wire : \E k \in DOMAIN E : wire'[j] = E[k]
      BY <3>1, WireAppend DEF MirrorInv
    <3> QED BY <3>1, <3>2 DEF TimeInv, WireTellsPauses, OfAgents
  <2> QED BY <2>1, <2>2, <2>3, TimesStay
<1>5. CASE OfPresence
  <2>1. wire' = wire /\ UNCHANGED <<pauses, pauseLog, heardPause, now>>
    BY <1>5 DEF OfPresence, PresenceStep, SavePresence, AskPresence
  <2>2. KindsGrow
    <3>1. NoMishap \/ Mishap("failed") \/ Note("overlap")
      BY <1>5 DEF OfPresence, PresenceStep, SavePresence, AskPresence
    <3> QED BY <3>1, MishapsGrow DEF NoMishap, Note
  <2>3. WireTellsPauses'
    BY <2>1 DEF TimeInv, WireTellsPauses
  <2> QED BY <2>1, <2>2, <2>3, TimesStay
<1>6. CASE OfMirror \/ OfSla \/ OfCdrs \/ OfCalls
  <2>1. UNCHANGED <<pauses, pauseLog, heardPause>>
    BY <1>6 DEF OfMirror, OfSla, OfCdrs, OfCalls, boardVars
  <2>2. now' = now
    BY <1>6, TimeStands
  <2>3. Strangers
    BY <1>6, MirrorStrangers, SlaStrangers, RecordsStrangers
  <2> QED BY <2>1, <2>2, <2>3, NoSuchEvents, TimesStay DEF TimeInv, Strangers
<1>7. CASE UNCHANGED deskVars
  <2>1. wire' = wire /\ UNCHANGED <<pauses, pauseLog, heardPause, now, mishaps>>
    BY <1>7 DEF deskVars, streamVars, boardVars
  <2>2. KindsGrow
    BY <2>1, MishapsGrow
  <2>3. WireTellsPauses'
    BY <2>1 DEF TimeInv, WireTellsPauses
  <2> QED BY <2>1, <2>2, <2>3, TimesStay
<1> QED BY <1>1, <1>2, <1>3, <1>4, <1>5, <1>6, <1>7 DEF DeskNext

\* The times on which the history rests are in order, and on either side of the account
\* only what was refused, forgotten or started again is missing.
THEOREM TimesAreKept == DeskSpec => [](MirrorInv /\ TimeInv)
<1>1. DeskInit => MirrorInv /\ TimeInv
  BY MirrorBegins, TimesBegin
<1>2. MirrorInv /\ TimeInv /\ [DeskNext]_deskVars => (MirrorInv /\ TimeInv)'
  BY DeskSteps, TimeSteps
<1> QED BY <1>1, <1>2, PTL DEF DeskSpec

\* The rows of the history and the running pause account for the time that an agent was
\* heard to be paused (agent_pause.py): none is lost when a row cannot be written, short of
\* a restart or of a pause for another reason, and none is counted twice while all are
\* written; whatever the readings of the clock, as long as it is never set back.
THEOREM PauseTime == DeskSpec => []PauseTimeIsTrue
<1>1. TimeInv => PauseTimeIsTrue
  BY DEF TimeInv, TimeTrue, NoneLost, NoneTwice, PauseTimeIsTrue, Logged
<1> QED BY <1>1, TimesAreKept, PTL

----------------------------------------------------------------------------
(* The counters.                                                           *)

InKinds == {"joins"}
OutKinds == EndKinds \cup {"expired", "removed_by_pickup"}

\* What is counted beyond what was counted before.
OfKinds(cnt, kinds) == {tk \in DOMAIN cnt : tk[2] \in kinds}
Later(cnt, new, kinds) == UNION {{tk} \X ((Of(cnt, tk) + 1)..new[tk]) : tk \in OfKinds(new, kinds)}
CountersOK(cnt) == \A tk \in DOMAIN cnt : cnt[tk] \in Nat

LEMMA TimesGrow ==
  ASSUME NEW cnt, CountersOK(cnt), NEW new, CountersOK(new), DOMAIN cnt \subseteq DOMAIN new,
         \A tk \in DOMAIN cnt : cnt[tk] <= new[tk],
         NEW kinds, IsFiniteSet(Times(cnt, kinds)), IsFiniteSet(Later(cnt, new, kinds))
  PROVE  /\ IsFiniteSet(Times(new, kinds))
         /\ Cardinality(Times(new, kinds)) = Cardinality(Times(cnt, kinds)) + Cardinality(Later(cnt, new, kinds))
         /\ Cardinality(Times(cnt, kinds)) \in Nat /\ Cardinality(Later(cnt, new, kinds)) \in Nat
<1>. DEFINE A == Times(cnt, kinds)
            B == Later(cnt, new, kinds)
<1>1. \A s : s \in A <=> \E tk \in DOMAIN cnt : \E j \in 1..cnt[tk] : s = <<tk, j>> /\ tk[2] \in kinds
  BY DEF Times
<1>2. \A s : s \in B <=> \E tk \in DOMAIN new : \E j \in (Of(cnt, tk) + 1)..new[tk] : s = <<tk, j>> /\ tk[2] \in kinds
  BY DEF Later, OfKinds
<1>3. \A s : s \in Times(new, kinds) <=> \E tk \in DOMAIN new : \E j \in 1..new[tk] : s = <<tk, j>> /\ tk[2] \in kinds
  BY DEF Times
<1>4. \A tk \in DOMAIN new : Of(cnt, tk) \in Nat /\ new[tk] \in Nat /\ Of(cnt, tk) <= new[tk]
  BY DEF Of, CountersOK
<1>5. \A tk \in DOMAIN cnt : Of(cnt, tk) = cnt[tk]
  BY DEF Of
<1>6. \A tk : tk \notin DOMAIN cnt => Of(cnt, tk) = 0
  BY DEF Of
<1>. HIDE DEF A, B
<1>7. A \cap B = {}
  <2>. SUFFICES ASSUME NEW s \in A, s \in B PROVE FALSE
    OBVIOUS
  <2>1a. PICK tk \in DOMAIN cnt : \E j \in 1..cnt[tk] : s = <<tk, j>>
    BY <1>1
  <2>1. PICK j \in 1..cnt[tk] : s = <<tk, j>>
    BY <2>1a
  <2>2a. PICK uk \in DOMAIN new : \E k \in (Of(cnt, uk) + 1)..new[uk] : s = <<uk, k>>
    BY <1>2
  <2>2. PICK k \in (Of(cnt, uk) + 1)..new[uk] : s = <<uk, k>>
    BY <2>2a
  <2>3. tk = uk /\ j = k
    BY <2>1, <2>2
  <2> QED BY <1>4, <1>5, <2>1, <2>2, <2>3
<1>8. Times(new, kinds) = A \cup B
  <2>1. ASSUME NEW s, s \in Times(new, kinds) PROVE s \in A \cup B
    <3>1a. PICK tk \in DOMAIN new : \E j \in 1..new[tk] : s = <<tk, j>> /\ tk[2] \in kinds
      BY <1>3, <2>1
    <3>1. PICK j \in 1..new[tk] : s = <<tk, j>> /\ tk[2] \in kinds
      BY <3>1a
    <3>2. CASE tk \in DOMAIN cnt /\ j <= cnt[tk]
      BY <1>1, <1>4, <1>5, <3>1, <3>2
    <3>3. CASE ~(tk \in DOMAIN cnt /\ j <= cnt[tk])
      <4>1. j \in (Of(cnt, tk) + 1)..new[tk]
        BY <1>4, <1>5, <1>6, <3>1, <3>3
      <4> QED BY <1>2, <3>1, <4>1
    <3> QED BY <3>2, <3>3
  <2>2. ASSUME NEW s, s \in A PROVE s \in Times(new, kinds)
    <3>1a. PICK tk \in DOMAIN cnt : \E j \in 1..cnt[tk] : s = <<tk, j>> /\ tk[2] \in kinds
      BY <1>1, <2>2
    <3>1. PICK j \in 1..cnt[tk] : s = <<tk, j>> /\ tk[2] \in kinds
      BY <3>1a
    <3>2. tk \in DOMAIN new /\ j \in 1..new[tk]
      BY <1>4, <1>5, <3>1
    <3> QED BY <1>3, <3>1, <3>2
  <2>3. ASSUME NEW s, s \in B PROVE s \in Times(new, kinds)
    <3>1a. PICK tk \in DOMAIN new : \E j \in (Of(cnt, tk) + 1)..new[tk] : s = <<tk, j>> /\ tk[2] \in kinds
      BY <1>2, <2>3
    <3>1. PICK j \in (Of(cnt, tk) + 1)..new[tk] : s = <<tk, j>> /\ tk[2] \in kinds
      BY <3>1a
    <3>2. j \in 1..new[tk]
      BY <1>4, <3>1
    <3> QED BY <1>3, <3>1, <3>2
  <2> QED BY <2>1, <2>2, <2>3
<1>9. IsFiniteSet(A) /\ IsFiniteSet(B)
  BY DEF A, B
<1>10. Cardinality(A) \in Nat /\ Cardinality(B) \in Nat
  BY <1>9, FS_CardinalityType
<1>11. Cardinality(A \cap B) = 0
  BY <1>7, FS_EmptySet
<1>12. /\ IsFiniteSet(A \cup B)
       /\ Cardinality(A \cup B) = Cardinality(A) + Cardinality(B) - Cardinality(A \cap B)
  BY <1>9, FS_Union
<1>13. Cardinality(A \cup B) = Cardinality(A) + Cardinality(B)
  BY <1>10, <1>11, <1>12
<1> QED BY <1>8, <1>10, <1>12, <1>13 DEF A, B

\* One more is counted.
LEMMA TimesAdd ==
  ASSUME NEW cnt, CountersOK(cnt), NEW tk, NEW new, new = Add(cnt, tk),
         NEW kinds, IsFiniteSet(Times(cnt, kinds))
  PROVE  /\ CountersOK(new) /\ IsFiniteSet(Times(new, kinds))
         /\ Cardinality(Times(cnt, kinds)) \in Nat
         /\ Cardinality(Times(new, kinds)) = Cardinality(Times(cnt, kinds)) + IF tk[2] \in kinds THEN 1 ELSE 0
<1>1. DOMAIN new = DOMAIN cnt \cup {tk}
  BY DEF Add
<1>2. \A c \in DOMAIN new : new[c] = Of(cnt, c) + IF c = tk THEN 1 ELSE 0
  BY DEF Add
<1>3. \A c : Of(cnt, c) \in Nat /\ (c \in DOMAIN cnt => Of(cnt, c) = cnt[c])
  BY DEF Of, CountersOK
<1>4. CountersOK(new) /\ \A c \in DOMAIN cnt : cnt[c] <= new[c]
  <2>1. \A c \in DOMAIN new : new[c] \in Nat /\ Of(cnt, c) <= new[c]
    BY <1>2, <1>3
  <2>2. \A c \in DOMAIN cnt : c \in DOMAIN new /\ cnt[c] = Of(cnt, c)
    BY <1>1, <1>3
  <2> QED BY <2>1, <2>2 DEF CountersOK
<1>. DEFINE n == Of(cnt, tk) + 1
            one == <<tk, n>>
<1>5. \A c \in OfKinds(new, kinds) \ {tk} : (Of(cnt, c) + 1)..new[c] = {}
  BY <1>2, <1>3 DEF OfKinds
<1>6. (Of(cnt, tk) + 1)..new[tk] = {n}
  BY <1>1, <1>2, <1>3
<1>. HIDE DEF n
<1>7. Later(cnt, new, kinds) = IF tk[2] \in kinds THEN {one} ELSE {}
  <2>1. CASE tk[2] \in kinds
    <3>1. tk \in OfKinds(new, kinds)
      BY <1>1, <2>1 DEF OfKinds
    <3> QED BY <1>5, <1>6, <2>1, <3>1 DEF Later
  <2>2. CASE tk[2] \notin kinds
    <3>1. tk \notin OfKinds(new, kinds)
      BY <2>2 DEF OfKinds
    <3> QED BY <1>5, <2>2, <3>1 DEF Later
  <2> QED BY <2>1, <2>2
<1>. HIDE DEF one
<1>8. /\ IsFiniteSet(Later(cnt, new, kinds))
      /\ Cardinality(Later(cnt, new, kinds)) = IF tk[2] \in kinds THEN 1 ELSE 0
  BY <1>7, FS_EmptySet, FS_Singleton
<1>9. /\ IsFiniteSet(Times(new, kinds))
      /\ Cardinality(Times(new, kinds)) = Cardinality(Times(cnt, kinds)) + Cardinality(Later(cnt, new, kinds))
      /\ Cardinality(Times(cnt, kinds)) \in Nat
  BY <1>1, <1>4, <1>8, TimesGrow
<1> QED BY <1>4, <1>8, <1>9

\* The elements of a finite set can be numbered.
LEMMA Numbered ==
  ASSUME NEW S, IsFiniteSet(S)
  PROVE  \E g \in [S -> 1..Cardinality(S)] :
           /\ \A a, b \in S : g[a] = g[b] => a = b
           /\ \A j \in 1..Cardinality(S) : \E a \in S : g[a] = j
<1>. DEFINE n == Cardinality(S)
<1>1. n \in Nat
  BY FS_CardinalityType
<1>2. IsFiniteSet(1..n) /\ Cardinality(1..n) = n
  <2>1. 1 \in Int /\ n \in Int
    BY <1>1
  <2>. HIDE DEF n
  <2>2. IsFiniteSet(1..n) /\ Cardinality(1..n) = IF 1 > n THEN 0 ELSE n - 1 + 1
    BY <2>1, FS_Interval
  <2> QED BY <1>1, <2>2
<1>3. ExistsBijection(S, 1..n)
  BY <1>2, FS_SameCardinalityBij
<1>. HIDE DEF n
<1>4. PICK g : g \in Injection(S, 1..n) /\ g \in Surjection(S, 1..n)
  BY <1>3 DEF ExistsBijection, Bijection
<1>5. g \in [S -> 1..n] /\ \A a, b \in S : g[a] = g[b] => a = b
  BY <1>4 DEF Injection, IsInjective
<1>6. \A j \in 1..n : \E a \in S : g[a] = j
  BY <1>4 DEF Surjection
<1> QED BY <1>5, <1>6 DEF n

\* The elements of a set counted by what they belong to, each beyond a base of its own.
PartOf(old, own, t) == {ch \in old : own[ch] = t}
Beyond(base, t, n) == (base[t] + 1)..(base[t] + n)
Tally(old, own, base, k) ==
  UNION {{<<t, k>>} \X Beyond(base, t, Cardinality(PartOf(old, own, t))) : t \in {own[ch] : ch \in old}}

LEMMA Tallied ==
  ASSUME NEW old, IsFiniteSet(old), NEW own, NEW base, \A ch \in old : base[own[ch]] \in Nat, NEW k
  PROVE  IsFiniteSet(Tally(old, own, base, k)) /\ Cardinality(Tally(old, own, base, k)) = Cardinality(old)
<1>. DEFINE T == {own[ch] : ch \in old}
            P(t) == PartOf(old, own, t)
            N(t) == Cardinality(P(t))
            Good(g, t) == /\ g \in [P(t) -> 1..N(t)]
                          /\ \A a, b \in P(t) : g[a] = g[b] => a = b
                          /\ \A j \in 1..N(t) : \E a \in P(t) : g[a] = j
            F == [t \in T |-> CHOOSE g : Good(g, t)]
            H == [ch \in old |-> <<<<own[ch], k>>, base[own[ch]] + F[own[ch]][ch]>>]
            Y == Tally(old, own, base, k)
<1>1. \A ch \in old : own[ch] \in T /\ ch \in P(own[ch])
  BY DEF PartOf
<1>2. \A t : \A ch \in P(t) : ch \in old /\ own[ch] = t
  BY DEF PartOf
<1>3. \A t : IsFiniteSet(P(t))
  <2>. TAKE t
  <2>1. P(t) \in SUBSET old
    BY <1>2
  <2>. HIDE DEF P
  <2> QED BY <2>1, FS_Subset
<1>4. \A t : N(t) \in Nat
  BY <1>3, FS_CardinalityType
<1>5. ASSUME NEW t \in T PROVE Good(F[t], t)
  <2>1. \E g : Good(g, t)
    BY <1>3, Numbered
  <2> QED BY <2>1
<1>6. \A s : s \in Y <=> \E t \in T : \E j \in Beyond(base, t, N(t)) : s = <<<<t, k>>, j>>
  BY DEF Tally
<1>. HIDE DEF F, P, Y
<1>7. \A t \in T : \A ch \in P(t) : F[t][ch] \in 1..N(t)
  BY <1>5
<1>8. \A t \in T : base[t] \in Nat
  OBVIOUS
<1>. HIDE DEF N
<1>9. ASSUME NEW ch \in old PROVE H[ch] \in Y
  <2>1. own[ch] \in T /\ F[own[ch]][ch] \in 1..N(own[ch])
    BY <1>1, <1>7
  <2>2. base[own[ch]] + F[own[ch]][ch] \in Beyond(base, own[ch], N(own[ch]))
    BY <1>4, <1>8, <2>1 DEF Beyond
  <2> QED BY <1>6, <2>1, <2>2
<1>10. ASSUME NEW a \in old, NEW b \in old, H[a] = H[b] PROVE a = b
  <2>1. own[a] = own[b] /\ base[own[a]] + F[own[a]][a] = base[own[b]] + F[own[b]][b]
    BY <1>10
  <2>2. own[a] \in T /\ a \in P(own[a]) /\ b \in P(own[a])
    BY <1>1, <2>1
  <2>3. F[own[a]][a] \in 1..N(own[a]) /\ F[own[a]][b] \in 1..N(own[a]) /\ base[own[a]] \in Nat
    BY <1>7, <1>8, <2>2
  <2>4. F[own[a]][a] = F[own[a]][b]
    BY <1>4, <2>1, <2>3
  <2> QED BY <1>5, <2>2, <2>4
<1>11. ASSUME NEW s \in Y PROVE \E ch \in old : H[ch] = s
  <2>1a. PICK t \in T : \E j \in Beyond(base, t, N(t)) : s = <<<<t, k>>, j>>
    BY <1>6
  <2>1. PICK j \in Beyond(base, t, N(t)) : s = <<<<t, k>>, j>>
    BY <2>1a
  <2>2. base[t] \in Nat /\ N(t) \in Nat /\ j - base[t] \in 1..N(t) /\ base[t] + (j - base[t]) = j
    BY <1>4, <1>8, <2>1 DEF Beyond
  <2>3. PICK ch \in P(t) : F[t][ch] = j - base[t]
    BY <1>5, <2>2
  <2>4. ch \in old /\ own[ch] = t
    BY <1>2
  <2> QED BY <2>1, <2>2, <2>3, <2>4
<1>12. H \in [old -> Y]
  BY <1>9
<1>. HIDE DEF H
<1>13. H \in Injection(old, Y) /\ H \in Surjection(old, Y)
  BY <1>10, <1>11, <1>12 DEF Injection, IsInjective, Surjection
<1>14. ExistsBijection(old, Y)
  BY <1>13 DEF ExistsBijection, Bijection
<1>15. IsFiniteSet(Y) /\ Cardinality(Y) = Cardinality(old)
  BY <1>14, FS_Bijection
<1> QED BY <1>15 DEF Y

\* The mirror m: every caller counted in is tracked or was counted out.
Balanced(m) ==
  /\ IsMirror(m) /\ m.waiting = [ch \in Channels |-> m.waiting[ch]] /\ CountersOK(m.counters)
  /\ IsFiniteSet(Tracked(m.waiting))
  /\ IsFiniteSet(Times(m.counters, InKinds)) /\ IsFiniteSet(Times(m.counters, OutKinds))
  /\ Cardinality(Times(m.counters, InKinds)) =
       Cardinality(Tracked(m.waiting)) + Cardinality(Times(m.counters, OutKinds))

LEMMA CountAdds ==
  ASSUME NEW m, IsMirror(m), NEW t, NEW k, Room(m.counters, t)
  PROVE  /\ IsMirror(Count(m, t, k)) /\ Count(m, t, k).waiting = m.waiting
         /\ Count(m, t, k).counters = Add(m.counters, <<t, k>>)
<1>1. [m EXCEPT !.counters = Add(@, <<t, k>>)] =
        [waiting |-> m.waiting, counters |-> Add(m.counters, <<t, k>>)]
  BY DEF IsMirror
<1>2. Count(m, t, k) = [waiting |-> m.waiting, counters |-> Add(m.counters, <<t, k>>)]
  BY <1>1 DEF Count, Room
<1> QED BY <1>2 DEF IsMirror

\* A change of the rows by d is balanced by a count of the kind k.
LEMMA Balances ==
  ASSUME NEW m, Balanced(m), NEW x, IsMirror(x), x.counters = m.counters,
         x.waiting = [ch \in Channels |-> x.waiting[ch]], IsFiniteSet(Tracked(x.waiting)),
         NEW t, NEW k, Room(m.counters, t),
         \/ /\ k \notin InKinds \cup OutKinds
            /\ Cardinality(Tracked(x.waiting)) = Cardinality(Tracked(m.waiting))
         \/ k \in InKinds /\ Cardinality(Tracked(x.waiting)) = Cardinality(Tracked(m.waiting)) + 1
         \/ k \in OutKinds /\ Cardinality(Tracked(x.waiting)) = Cardinality(Tracked(m.waiting)) - 1
  PROVE  Balanced(Count(x, t, k))
<1>. DEFINE n == Count(x, t, k)
            tk == <<t, k>>
            cnt == m.counters
            new == n.counters
<1>1. IsMirror(n) /\ n.waiting = x.waiting /\ new = Add(cnt, tk)
  BY CountAdds
<1>2. CountersOK(cnt) /\ IsFiniteSet(Times(cnt, InKinds)) /\ IsFiniteSet(Times(cnt, OutKinds))
  BY DEF Balanced
<1>3. tk[2] = k
  OBVIOUS
<1>. HIDE DEF n, tk, cnt, new
<1>4. /\ CountersOK(new) /\ IsFiniteSet(Times(new, InKinds)) /\ Cardinality(Times(cnt, InKinds)) \in Nat
      /\ Cardinality(Times(new, InKinds)) = Cardinality(Times(cnt, InKinds)) + IF k \in InKinds THEN 1 ELSE 0
  BY <1>1, <1>2, <1>3, TimesAdd
<1>5. /\ IsFiniteSet(Times(new, OutKinds)) /\ Cardinality(Times(cnt, OutKinds)) \in Nat
      /\ Cardinality(Times(new, OutKinds)) = Cardinality(Times(cnt, OutKinds)) + IF k \in OutKinds THEN 1 ELSE 0
  BY <1>1, <1>2, <1>3, TimesAdd
<1>6. InKinds \cap OutKinds = {}
  BY DEF InKinds, OutKinds, EndKinds
<1>7. Cardinality(Tracked(m.waiting)) \in Nat
  BY FS_CardinalityType DEF Balanced
<1>8. Cardinality(Times(cnt, InKinds)) = Cardinality(Tracked(m.waiting)) + Cardinality(Times(cnt, OutKinds))
  BY DEF Balanced, cnt
<1>9. Cardinality(Times(new, InKinds)) = Cardinality(Tracked(x.waiting)) + Cardinality(Times(new, OutKinds))
  BY <1>4, <1>5, <1>6, <1>7, <1>8
<1>10. Balanced(n)
  BY <1>1, <1>4, <1>5, <1>9 DEF Balanced, new
<1> QED BY <1>10 DEF n

LEMMA TrackedSet ==
  ASSUME NEW rows, rows = [ch \in Channels |-> rows[ch]], NEW ch \in Channels, NEW row,
         NEW more, more = [rows EXCEPT ![ch] = row]
  PROVE  /\ more = [c \in Channels |-> more[c]]
         /\ row # NoRow => Tracked(more) = Tracked(rows) \cup {ch}
         /\ row = NoRow => Tracked(more) = Tracked(rows) \ {ch}
         /\ ch \in Tracked(rows) <=> rows[ch] # NoRow
BY DEF Tracked

LEMMA BalanceDrop ==
  ASSUME NEW m, Balanced(m), NEW ch \in Channels, m.waiting[ch] # NoRow, NEW k \in OutKinds,
         Room(m.counters, RowCompany(m.waiting[ch]))
  PROVE  Balanced(Drop(m, ch, k))
<1>. DEFINE x == [m EXCEPT !.waiting[ch] = NoRow]
            t == RowCompany(m.waiting[ch])
<1>1. IsMirror(x) /\ x.waiting = [m.waiting EXCEPT ![ch] = NoRow] /\ x.counters = m.counters
  BY DEF IsMirror, Balanced
<1>2. Drop(m, ch, k) = Count(x, t, k) /\ Room(m.counters, t)
  BY DEF Drop
<1>. HIDE DEF x, t
<1>3. m.waiting = [c \in Channels |-> m.waiting[c]] /\ IsFiniteSet(Tracked(m.waiting))
  BY DEF Balanced
<1>4. /\ x.waiting = [c \in Channels |-> x.waiting[c]] /\ Tracked(x.waiting) = Tracked(m.waiting) \ {ch}
      /\ ch \in Tracked(m.waiting)
  <2>. DEFINE more == x.waiting
  <2>1. more = [m.waiting EXCEPT ![ch] = NoRow]
    BY <1>1
  <2>. HIDE DEF more
  <2>2. more = [c \in Channels |-> more[c]] /\ Tracked(more) = Tracked(m.waiting) \ {ch} /\ ch \in Tracked(m.waiting)
    BY <1>3, <2>1, TrackedSet
  <2> QED BY <2>2 DEF more
<1>5. /\ IsFiniteSet(Tracked(x.waiting))
      /\ Cardinality(Tracked(x.waiting)) = Cardinality(Tracked(m.waiting)) - 1
  BY <1>3, <1>4, FS_RemoveElement
<1> QED BY <1>1, <1>2, <1>4, <1>5, Balances

LEMMA BalanceOther ==
  ASSUME NEW m, Balanced(m), NEW t, NEW k, Room(m.counters, t), k \notin InKinds \cup OutKinds
  PROVE  Balanced(Count(m, t, k))
<1>1. /\ IsMirror(m) /\ m.waiting = [ch \in Channels |-> m.waiting[ch]] /\ IsFiniteSet(Tracked(m.waiting))
  BY DEF Balanced
<1> QED BY <1>1, Balances

LEMMA BalanceWrite ==
  ASSUME NEW m, Balanced(m), NEW ch \in Channels, NEW row, row # NoRow,
         NEW x, x = [m EXCEPT !.waiting[ch] = row], NEW t, Room(m.counters, t), NEW k,
         \/ m.waiting[ch] = NoRow /\ k \in InKinds
         \/ m.waiting[ch] # NoRow /\ k \notin InKinds \cup OutKinds
  PROVE  Balanced(Count(x, t, k))
<1>1. IsMirror(x) /\ x.waiting = [m.waiting EXCEPT ![ch] = row] /\ x.counters = m.counters
  BY DEF IsMirror, Balanced
<1>3. m.waiting = [c \in Channels |-> m.waiting[c]] /\ IsFiniteSet(Tracked(m.waiting))
  BY DEF Balanced
<1>4. /\ x.waiting = [c \in Channels |-> x.waiting[c]] /\ Tracked(x.waiting) = Tracked(m.waiting) \cup {ch}
      /\ ch \in Tracked(m.waiting) <=> m.waiting[ch] # NoRow
  <2>. DEFINE more == x.waiting
  <2>1. more = [m.waiting EXCEPT ![ch] = row]
    BY <1>1
  <2>. HIDE DEF more
  <2>2. /\ more = [c \in Channels |-> more[c]] /\ Tracked(more) = Tracked(m.waiting) \cup {ch}
        /\ ch \in Tracked(m.waiting) <=> m.waiting[ch] # NoRow
    BY <1>3, <2>1, TrackedSet
  <2> QED BY <2>2 DEF more
<1>5. /\ IsFiniteSet(Tracked(x.waiting))
      /\ Cardinality(Tracked(x.waiting)) =
           IF m.waiting[ch] # NoRow THEN Cardinality(Tracked(m.waiting)) ELSE Cardinality(Tracked(m.waiting)) + 1
  BY <1>3, <1>4, FS_AddElement
<1>6. CASE m.waiting[ch] = NoRow /\ k \in InKinds
  BY <1>1, <1>4, <1>5, <1>6, Balances
<1>7. CASE m.waiting[ch] # NoRow /\ k \notin InKinds \cup OutKinds
  BY <1>1, <1>4, <1>5, <1>7, Balances
<1> QED BY <1>6, <1>7

LEMMA TallyMembers ==
  ASSUME NEW old, NEW own, NEW base, NEW k
  PROVE  \A s : s \in Tally(old, own, base, k) <=>
           \E t \in {own[ch] : ch \in old} : \E j \in Beyond(base, t, Cardinality(PartOf(old, own, t))) :
             s = <<<<t, k>>, j>>
BY DEF Tally

\* The rows that are too old are counted out, each once.
LEMMA BalancePrune ==
  ASSUME NEW m, Balanced(m),
         \A ch \in Channels : m.waiting[ch] # NoRow => RowCompany(m.waiting[ch]) \in Counted(m.counters)
  PROVE  Balanced(Prune(m))
<1>. DEFINE n == Prune(m)
            cnt == m.counters
            new == n.counters
            old == Expired(m.waiting)
            own == [ch \in old |-> RowCompany(m.waiting[ch])]
            T == {own[ch] : ch \in old}
            base == [t \in T |-> Of(cnt, <<t, "expired">>)]
            N(t) == Cardinality(PartOf(old, own, t))
<1>1. /\ IsMirror(m) /\ m.waiting = [ch \in Channels |-> m.waiting[ch]] /\ CountersOK(cnt)
      /\ IsFiniteSet(Tracked(m.waiting)) /\ IsFiniteSet(Times(cnt, InKinds)) /\ IsFiniteSet(Times(cnt, OutKinds))
      /\ Cardinality(Times(cnt, InKinds)) = Cardinality(Tracked(m.waiting)) + Cardinality(Times(cnt, OutKinds))
  BY DEF Balanced
<1>2. /\ IsMirror(n) /\ n.waiting = [ch \in Channels |-> IF ch \in old THEN NoRow ELSE m.waiting[ch]]
      /\ DOMAIN cnt \subseteq DOMAIN new
  BY <1>1, Pruning
<1>3. old \subseteq Tracked(m.waiting) /\ old \subseteq Channels /\ \A ch \in old : m.waiting[ch] # NoRow
  BY DEF Expired, Tracked
<1>4. DOMAIN new = DOMAIN cnt \cup {<<t, "expired">> : t \in T}
  <2>. DEFINE lost == {t \in Counted(cnt) : \E ch \in old : RowCompany(m.waiting[ch]) = t}
  <2>1. DOMAIN new = DOMAIN cnt \cup (lost \X {"expired"})
    BY DEF Prune
  <2>2. lost = T
    BY <1>3
  <2> QED BY <2>1, <2>2
<1>5. ASSUME NEW tk \in DOMAIN new
      PROVE  new[tk] = Of(cnt, tk) + IF tk \in {<<t, "expired">> : t \in T} THEN N(tk[1]) ELSE 0
  <2>. DEFINE lost == {t \in Counted(cnt) : \E ch \in old : RowCompany(m.waiting[ch]) = t}
              rows(c) == IF c \in lost \X {"expired"} THEN {ch \in old : RowCompany(m.waiting[ch]) = c[1]} ELSE {}
  <2>1. new[tk] = Of(cnt, tk) + Cardinality(rows(tk))
    BY DEF Prune
  <2>2. lost \X {"expired"} = {<<t, "expired">> : t \in T}
    BY <1>3
  <2>3. \A t : PartOf(old, own, t) = {ch \in old : RowCompany(m.waiting[ch]) = t}
    BY DEF PartOf
  <2>4. Cardinality({}) = 0
    BY FS_EmptySet
  <2> QED BY <2>1, <2>2, <2>3, <2>4
<1>. HIDE DEF n, new, old
<1>6. IsFiniteSet(old) /\ IsFiniteSet(Tracked(m.waiting) \ old) /\ Cardinality(old) \in Nat
      /\ Cardinality(Tracked(m.waiting)) = Cardinality(Tracked(m.waiting) \ old) + Cardinality(old)
      /\ Cardinality(Tracked(m.waiting) \ old) \in Nat
  <2>1. IsFiniteSet(old) /\ IsFiniteSet(Tracked(m.waiting) \ old)
    BY <1>1, <1>3, FS_Subset
  <2>2. /\ IsFiniteSet((Tracked(m.waiting) \ old) \cup old)
        /\ Cardinality((Tracked(m.waiting) \ old) \cup old) =
             Cardinality(Tracked(m.waiting) \ old) + Cardinality(old) - Cardinality((Tracked(m.waiting) \ old) \cap old)
    BY <2>1, FS_Union
  <2>3. (Tracked(m.waiting) \ old) \cup old = Tracked(m.waiting) /\ (Tracked(m.waiting) \ old) \cap old = {}
    BY <1>3
  <2>4. Cardinality({}) = 0 /\ Cardinality(old) \in Nat /\ Cardinality(Tracked(m.waiting) \ old) \in Nat
    BY <2>1, FS_EmptySet, FS_CardinalityType
  <2>. DEFINE rest == Tracked(m.waiting) \ old
  <2>5. Cardinality(Tracked(m.waiting)) = Cardinality(rest) + Cardinality(old) - Cardinality({})
    BY <2>2, <2>3
  <2>6. Cardinality(rest) \in Nat
    BY <2>4
  <2>. HIDE DEF rest
  <2>7. Cardinality(Tracked(m.waiting)) = Cardinality(rest) + Cardinality(old)
    BY <2>4, <2>5, <2>6
  <2> QED BY <2>1, <2>4, <2>7 DEF rest
<1>7. Tracked(n.waiting) = Tracked(m.waiting) \ old
  BY <1>2 DEF Tracked
<1>8. \A t : N(t) \in Nat
  <2>. TAKE t
  <2>1. PartOf(old, own, t) \in SUBSET old
    BY DEF PartOf
  <2>. HIDE DEF own
  <2>2. IsFiniteSet(PartOf(old, own, t))
    BY <1>6, <2>1, FS_Subset
  <2> QED BY <2>2, FS_CardinalityType
<1>9. \A tk : Of(cnt, tk) \in Nat /\ (tk \in DOMAIN cnt => Of(cnt, tk) = cnt[tk])
  BY <1>1 DEF Of, CountersOK
<1>10. CountersOK(new) /\ \A tk \in DOMAIN cnt : cnt[tk] <= new[tk]
  <2>. HIDE DEF N, T
  <2>1. \A tk \in DOMAIN new : new[tk] \in Nat /\ Of(cnt, tk) <= new[tk]
    BY <1>5, <1>8, <1>9
  <2> QED BY <1>2, <1>9, <2>1 DEF CountersOK
<1>11. \A t \in T : base[t] = Of(cnt, <<t, "expired">>) /\ base[t] \in Nat
  BY <1>9
<1>12. Later(cnt, new, OutKinds) = Tally(old, own, base, "expired")
  <2>1. \A s : s \in Later(cnt, new, OutKinds) <=>
          \E tk \in DOMAIN new : \E j \in (Of(cnt, tk) + 1)..new[tk] : s = <<tk, j>> /\ tk[2] \in OutKinds
    BY DEF Later, OfKinds
  <2>2. \A s : s \in Tally(old, own, base, "expired") <=>
          \E t \in T : \E j \in Beyond(base, t, N(t)) : s = <<<<t, "expired">>, j>>
    <3>. HIDE DEF old, own, base
    <3> QED BY TallyMembers
  <2>3. \A tk \in DOMAIN new \ {<<t, "expired">> : t \in T} : (Of(cnt, tk) + 1)..new[tk] = {}
    <3>. HIDE DEF T, N
    <3> QED BY <1>5, <1>9
  <2>4. \A t \in T : /\ <<t, "expired">> \in DOMAIN new
                     /\ (Of(cnt, <<t, "expired">>) + 1)..new[<<t, "expired">>] = Beyond(base, t, N(t))
    <3>. TAKE t \in T
    <3>1. <<t, "expired">> \in DOMAIN new /\ <<t, "expired">>[1] = t
      BY <1>4
    <3>2. new[<<t, "expired">>] = base[t] + N(t)
      BY <1>5, <1>11, <3>1
    <3>. HIDE DEF N, base, T
    <3> QED BY <1>11, <3>1, <3>2 DEF Beyond
  <2>5. "expired" \in OutKinds /\ \A t : <<t, "expired">>[2] = "expired"
    BY DEF OutKinds
  <2>. HIDE DEF N, base, T, own
  <2>6. ASSUME NEW s, s \in Later(cnt, new, OutKinds) PROVE s \in Tally(old, own, base, "expired")
    <3>1. PICK tk \in DOMAIN new : \E j \in (Of(cnt, tk) + 1)..new[tk] : s = <<tk, j>>
      BY <2>1, <2>6
    <3>2. PICK t \in T : tk = <<t, "expired">>
      BY <2>3, <3>1
    <3> QED BY <2>2, <2>4, <3>1, <3>2
  <2>7. ASSUME NEW s, s \in Tally(old, own, base, "expired") PROVE s \in Later(cnt, new, OutKinds)
    <3>1. PICK t \in T : \E j \in Beyond(base, t, N(t)) : s = <<<<t, "expired">>, j>>
      BY <2>2, <2>7
    <3> QED BY <2>1, <2>4, <2>5, <3>1
  <2> QED BY <2>6, <2>7
<1>13. Later(cnt, new, InKinds) = {}
  <2>1. \A tk \in OfKinds(new, InKinds) : tk \in DOMAIN new /\ tk \notin {<<t, "expired">> : t \in T}
    BY DEF OfKinds, InKinds
  <2>. HIDE DEF T, N
  <2>2. \A tk \in OfKinds(new, InKinds) : (Of(cnt, tk) + 1)..new[tk] = {}
    BY <1>5, <1>9, <2>1
  <2> QED BY <2>2 DEF Later
<1>14. /\ IsFiniteSet(Later(cnt, new, OutKinds)) /\ Cardinality(Later(cnt, new, OutKinds)) = Cardinality(old)
  <2>1. \A ch \in old : base[own[ch]] \in Nat
    BY <1>11
  <2>. HIDE DEF base, own, N, T
  <2>2. /\ IsFiniteSet(Tally(old, own, base, "expired"))
        /\ Cardinality(Tally(old, own, base, "expired")) = Cardinality(old)
    BY <1>6, <2>1, Tallied
  <2> QED BY <1>12, <2>2
<1>15. IsFiniteSet(Later(cnt, new, InKinds)) /\ Cardinality(Later(cnt, new, InKinds)) = 0
  BY <1>13, FS_EmptySet
<1>. HIDE DEF cnt, own, T, base, N
<1>16. /\ IsFiniteSet(Times(new, OutKinds)) /\ Cardinality(Times(cnt, OutKinds)) \in Nat
       /\ Cardinality(Times(new, OutKinds)) = Cardinality(Times(cnt, OutKinds)) + Cardinality(Later(cnt, new, OutKinds))
  BY <1>1, <1>2, <1>10, <1>14, TimesGrow
<1>17. /\ IsFiniteSet(Times(new, InKinds)) /\ Cardinality(Times(cnt, InKinds)) \in Nat
       /\ Cardinality(Times(new, InKinds)) = Cardinality(Times(cnt, InKinds)) + Cardinality(Later(cnt, new, InKinds))
  BY <1>1, <1>2, <1>10, <1>15, TimesGrow
<1>18. Cardinality(Times(new, InKinds)) = Cardinality(Tracked(n.waiting)) + Cardinality(Times(new, OutKinds))
  BY <1>1, <1>6, <1>7, <1>14, <1>15, <1>16, <1>17
<1>19. Balanced(n)
  BY <1>2, <1>6, <1>7, <1>10, <1>16, <1>17, <1>18 DEF Balanced, new
<1> QED BY <1>19 DEF n

LEMMA BalanceEnded ==
  ASSUME NEW m, Balanced(m), NEW e, e.channel \in Channels, e.kind \in EndKinds,
         m.waiting[e.channel] # NoRow => Room(m.counters, RowCompany(m.waiting[e.channel]))
  PROVE  Balanced(Ended(m, e))
<1>. DEFINE row == m.waiting[e.channel]
<1>1. /\ "ignored_mismatched_queue" \notin InKinds \cup OutKinds
      /\ "ignored_mismatched_uniqueid" \notin InKinds \cup OutKinds
      /\ e.kind \in OutKinds
  BY DEF InKinds, OutKinds, EndKinds
<1>2. \/ Ended(m, e) = m
      \/ row # NoRow /\ Ended(m, e) = Count(m, RowCompany(row), "ignored_mismatched_queue")
      \/ row # NoRow /\ Ended(m, e) = Count(m, RowCompany(row), "ignored_mismatched_uniqueid")
      \/ row # NoRow /\ Ended(m, e) = Drop(m, e.channel, e.kind)
  <2>. HIDE DEF row
  <2> QED BY DEF Ended, row
<1>3. CASE row # NoRow /\ Ended(m, e) = Count(m, RowCompany(row), "ignored_mismatched_queue")
  BY <1>1, <1>3, BalanceOther
<1>4. CASE row # NoRow /\ Ended(m, e) = Count(m, RowCompany(row), "ignored_mismatched_uniqueid")
  BY <1>1, <1>4, BalanceOther
<1>5. CASE row # NoRow /\ Ended(m, e) = Drop(m, e.channel, e.kind)
  BY <1>1, <1>5, BalanceDrop
<1> QED BY <1>2, <1>3, <1>4, <1>5

LEMMA BalanceJoined ==
  ASSUME NEW m, NEW n, n = Prune(m), Balanced(n), NEW e, e.channel \in Channels, NewRow(e) # NoRow,
         Room(n.counters, CompanyOf[e.queue]),
         n.waiting[e.channel] # NoRow => Room(n.counters, RowCompany(n.waiting[e.channel]))
  PROVE  Balanced(Joined(m, e))
<1>. DEFINE row == n.waiting[e.channel]
            t == CompanyOf[e.queue]
            x == [n EXCEPT !.waiting[e.channel] = NewRow(e)]
            OtherKinds == {"duplicate_joins", "blocked_ambiguous_requeue", "rejected_global_capacity",
                           "rejected_queue_capacity"}
<1>1. /\ "joins" \in InKinds /\ "requeues" \notin InKinds \cup OutKinds
      /\ \A k \in OtherKinds : k \notin InKinds \cup OutKinds
  BY DEF InKinds, OutKinds, EndKinds
<1>2. \/ \E k \in OtherKinds : Joined(m, e) = Count(n, t, k)
      \/ row # NoRow /\ \E k \in OtherKinds : Joined(m, e) = Count(n, RowCompany(row), k)
      \/ row # NoRow /\ Joined(m, e) = Count(x, t, "requeues")
      \/ row = NoRow /\ Joined(m, e) = Count(x, t, "joins")
  <2>. HIDE DEF row, t, x
  <2>1. CASE row # NoRow
    BY <2>1 DEF Joined, NewRow, row, t, x
  <2>2. CASE row = NoRow
    BY <2>2 DEF Joined, NewRow, row, t, x
  <2> QED BY <2>1, <2>2
<1>. HIDE DEF OtherKinds
<1>3. CASE \E k \in OtherKinds : Joined(m, e) = Count(n, t, k)
  BY <1>1, <1>3, BalanceOther
<1>4. CASE row # NoRow /\ \E k \in OtherKinds : Joined(m, e) = Count(n, RowCompany(row), k)
  BY <1>1, <1>4, BalanceOther
<1>. DEFINE ch == e.channel
            new == NewRow(e)
<1>7. /\ x = [n EXCEPT !.waiting[ch] = new] /\ new # NoRow /\ ch \in Channels /\ row = n.waiting[ch]
      /\ Room(n.counters, t)
  OBVIOUS
<1>. HIDE DEF x, t, row, ch, new
<1>5. CASE row # NoRow /\ Joined(m, e) = Count(x, t, "requeues")
  <2>1. n.waiting[ch] # NoRow /\ "requeues" \notin InKinds \cup OutKinds
    BY <1>1, <1>5, <1>7
  <2>2. Balanced(Count(x, t, "requeues"))
    BY <1>7, <2>1, BalanceWrite
  <2> QED BY <1>5, <2>2
<1>6. CASE row = NoRow /\ Joined(m, e) = Count(x, t, "joins")
  <2>1. n.waiting[ch] = NoRow /\ "joins" \in InKinds
    BY <1>1, <1>6, <1>7
  <2>2. Balanced(Count(x, t, "joins"))
    BY <1>7, <2>1, BalanceWrite
  <2> QED BY <1>6, <2>2
<1> QED BY <1>2, <1>3, <1>4, <1>5, <1>6

\* What the mirror becomes.
LEMMA MirrorSet ==
  ASSUME NEW m, IsMirror(m), SetMirror(m)
  PROVE  Mirror' = m
BY DEF SetMirror, Mirror, IsMirror

LEMMA PruneBalanced ==
  ASSUME MirrorInv, ShownInv, Balanced(Mirror), NEW n, n = Prune(Mirror)
  PROVE  /\ Balanced(n) /\ Counted(n.counters) \subseteq Companies
         /\ \A ch \in Channels : n.waiting[ch] # NoRow => RowCompany(n.waiting[ch]) \in Counted(n.counters)
<1>1. /\ \A ch \in Channels : n.waiting[ch] = IF ch \in Expired(waiting) THEN NoRow ELSE waiting[ch]
      /\ Counted(n.counters) = Counted(counters)
  BY Prunes
<1>2. Balanced(n)
  <2>. DEFINE m == Mirror
  <2>1. m.waiting = waiting /\ m.counters = counters /\ Balanced(m) /\ n = Prune(m)
    BY DEF Mirror
  <2>. HIDE DEF m
  <2>2. \A ch \in Channels : m.waiting[ch] # NoRow => RowCompany(m.waiting[ch]) \in Counted(m.counters)
    BY <2>1 DEF ShownInv
  <2> QED BY <2>1, <2>2, BalancePrune
<1> QED BY <1>1, <1>2 DEF ShownInv

LEMMA BalanceEvent ==
  ASSUME Roomy, MirrorInv, ShownInv, Balanced(Mirror), NEW e, EventOK(e, place, stays.ended)
  PROVE  Balanced(ApplyEvent(Mirror, e))
<1>1. CASE e.kind = "join"
  <2>. DEFINE n == Prune(Mirror)
              m == Mirror
  <2>0. n = Prune(m) /\ n = Prune(Mirror)
    OBVIOUS
  <2>1. ApplyEvent(m, e) = Joined(m, e)
    BY <1>1 DEF ApplyEvent, EndKinds
  <2>. HIDE DEF n
  <2>2. /\ Balanced(n) /\ Counted(n.counters) \subseteq Companies
        /\ \A ch \in Channels : n.waiting[ch] # NoRow => RowCompany(n.waiting[ch]) \in Counted(n.counters)
    BY <2>0, PruneBalanced
  <2>3. e.channel \in Channels /\ e.queue \in Queues
    BY <1>1 DEF EventOK, OfCall
  <2>4. CompanyOf[e.queue] \in Companies /\ NewRow(e) # NoRow
    BY <2>3, MirrorAssumption DEF NewRow, NoRow
  <2>5. Room(n.counters, CompanyOf[e.queue])
    BY <2>2, <2>4, CountedRoom DEF Room
  <2>6. n.waiting[e.channel] # NoRow => Room(n.counters, RowCompany(n.waiting[e.channel]))
    BY <2>2, <2>3 DEF Room
  <2>. HIDE DEF m
  <2>7. Balanced(Joined(m, e))
    BY <2>0, <2>2, <2>3, <2>4, <2>5, <2>6, BalanceJoined
  <2> QED BY <2>1, <2>7 DEF m
<1>2. CASE e.kind \in EndKinds
  <2>. DEFINE m == Mirror
  <2>1. ApplyEvent(m, e) = Ended(m, e)
    BY <1>2 DEF ApplyEvent, EndKinds
  <2>2. m.waiting = waiting /\ m.counters = counters /\ Balanced(m)
    BY DEF Mirror
  <2>. HIDE DEF m
  <2>3. e.channel \in Channels
    BY <1>2 DEF EventOK
  <2>4. m.waiting[e.channel] # NoRow => Room(m.counters, RowCompany(m.waiting[e.channel]))
    BY <2>2, <2>3 DEF ShownInv, Room
  <2>5. Balanced(Ended(m, e))
    BY <1>2, <2>2, <2>3, <2>4, BalanceEnded
  <2> QED BY <2>1, <2>5 DEF m
<1>3. CASE e.kind \notin EndKinds \cup {"join"}
  <2>1. ApplyEvent(Mirror, e) = Mirror
    BY <1>3 DEF ApplyEvent
  <2> QED BY <2>1
<1> QED BY <1>1, <1>2, <1>3

LEMMA BalancePickup ==
  ASSUME MirrorInv, ShownInv, Balanced(Mirror), NEW o \in Operators, desk[o].ok
  PROVE  Balanced(RemoveRow(Mirror, desk[o].channel, desk[o].queue))
<1>. DEFINE m == Mirror
            ch == desk[o].channel
<1>1. m.waiting = waiting /\ m.counters = counters /\ Balanced(m)
  BY DEF Mirror
<1>2. ch \in Channels
  BY DEF MirrorInv, DeskOK, PlacesOK
<1>3. \/ RemoveRow(m, ch, desk[o].queue) = m
      \/ m.waiting[ch] # NoRow /\ RemoveRow(m, ch, desk[o].queue) = Drop(m, ch, "removed_by_pickup")
  BY DEF RemoveRow
<1>. HIDE DEF m, ch
<1>4. m.waiting[ch] # NoRow => Room(m.counters, RowCompany(m.waiting[ch]))
  BY <1>1, <1>2 DEF ShownInv, Room
<1>5. "removed_by_pickup" \in OutKinds
  BY DEF OutKinds
<1>6. Balanced(RemoveRow(m, ch, desk[o].queue))
  BY <1>1, <1>2, <1>3, <1>4, <1>5, BalanceDrop
<1> QED BY <1>6 DEF m, ch

\* Nothing is tracked nor counted.
LEMMA EmptyBalanced ==
  ASSUME NEW m, m = [waiting |-> [ch \in Channels |-> NoRow], counters |-> <<>>]
  PROVE  Balanced(m)
<1>1. /\ IsMirror(m) /\ m.waiting = [ch \in Channels |-> NoRow] /\ DOMAIN m.counters = {}
  BY DEF IsMirror
<1>2. Tracked(m.waiting) = {}
  BY <1>1 DEF Tracked
<1>3. \A kinds : Times(m.counters, kinds) = {}
  BY <1>1 DEF Times
<1>4. IsFiniteSet({}) /\ Cardinality({}) = 0
  BY FS_EmptySet
<1>5. m.waiting = [ch \in Channels |-> m.waiting[ch]] /\ CountersOK(m.counters)
  BY <1>1 DEF CountersOK
<1>6. Cardinality(Times(m.counters, InKinds)) =
        Cardinality(Tracked(m.waiting)) + Cardinality(Times(m.counters, OutKinds))
  <2>1. /\ Cardinality(Times(m.counters, InKinds)) = 0 /\ Cardinality(Tracked(m.waiting)) = 0
        /\ Cardinality(Times(m.counters, OutKinds)) = 0
    BY <1>2, <1>3, <1>4
  <2> QED BY <2>1
<1> QED BY <1>1, <1>2, <1>3, <1>4, <1>5, <1>6 DEF Balanced

CountInv == Balanced(Mirror)

LEMMA BalanceSteps ==
  ASSUME Roomy, MirrorInv, ShownInv, CountInv, [DeskNext]_deskVars PROVE CountInv'
<1>. USE DEF CountInv
<1>1. ASSUME NEW m, Balanced(m), SetMirror(m) PROVE Balanced(Mirror)'
  <2>1. Mirror' = m
    BY <1>1, MirrorSet DEF Balanced
  <2>2. (Mirror').waiting = m.waiting /\ (Mirror').counters = m.counters
    BY <2>1
  <2> QED BY <1>1, <2>1 DEF Balanced
<1>2. ASSUME UNCHANGED <<waiting, counters>> PROVE Balanced(Mirror)'
  <2>1. SetMirror(Mirror)
    BY <1>2 DEF SetMirror, Mirror
  <2> QED BY <1>1, <2>1
<1>3. ASSUME NEW i \in DOMAIN wire, NEW again \in BOOLEAN, HandleAmiEvent(i, again) PROVE Balanced(Mirror)'
  <2>1. SetMirror(ApplyEvent(Mirror, wire[i]))
    BY <1>3, Hearing DEF Hears
  <2>2. EventOK(wire[i], place, stays.ended)
    BY DEF MirrorInv
  <2>3. Balanced(ApplyEvent(Mirror, wire[i]))
    BY <2>2, BalanceEvent
  <2> QED BY <1>1, <2>1, <2>3
<1>4. CASE Restart
  <2>. DEFINE none == [ch \in Channels |-> NoRow]
              m == [waiting |-> none, counters |-> <<>>]
  <2>1. SetMirror(m)
    BY <1>4 DEF Restart, SetMirror
  <2>2. Balanced(m)
    BY EmptyBalanced
  <2>. HIDE DEF m
  <2> QED BY <1>1, <2>1, <2>2
<1>5. ASSUME SetMirror(Prune(Mirror)) PROVE Balanced(Mirror)'
  <2>. DEFINE n == Prune(Mirror)
  <2>1. n = Prune(Mirror) /\ SetMirror(n)
    BY <1>5
  <2>. HIDE DEF n
  <2>2. Balanced(n)
    BY <2>1, PruneBalanced
  <2> QED BY <1>1, <2>1, <2>2
<1>6. ASSUME NEW o \in Operators, PickupAnswer(o) PROVE Balanced(Mirror)'
  <2>1. CASE desk[o].ok
    <3>1. SetMirror(RemoveRow(Mirror, desk[o].channel, desk[o].queue))
      BY <1>6, <2>1 DEF PickupAnswer
    <3>2. Balanced(RemoveRow(Mirror, desk[o].channel, desk[o].queue))
      BY <2>1, BalancePickup
    <3> QED BY <1>1, <3>1, <3>2
  <2>2. CASE ~desk[o].ok
    <3>1. SetMirror(Mirror)
      BY <1>6, <2>2 DEF PickupAnswer
    <3> QED BY <1>1, <3>1
  <2> QED BY <2>1, <2>2
<1>7. CASE OfMirror
  <2>1. \/ UNCHANGED <<waiting, counters>>
        \/ SetMirror(Prune(Mirror))
        \/ \E o \in Operators : PickupAnswer(o)
    BY <1>7 DEF OfMirror, MirrorStep, LeaveQueue, HangUp, Enter, Unheard, Read, Redirect, QueueForChannel
  <2> QED BY <1>2, <1>5, <1>6, <2>1
<1>8. CASE OfSla \/ OfBoard \/ OfPresence \/ Clock \/ OfCdrs \/ OfCalls \/ UNCHANGED deskVars
  <2>1. UNCHANGED <<waiting, counters>>
    BY <1>8 DEF OfSla, OfBoard, OfPresence, Clock, OfCdrs, OfCalls, deskVars, mirrorVars
  <2> QED BY <1>2, <2>1
<1> QED BY <1>3, <1>4, <1>7, <1>8 DEF DeskNext

LEMMA BalanceBegins == DeskInit => CountInv
<1>. SUFFICES ASSUME DeskInit PROVE Balanced(Mirror)
  BY DEF CountInv
<1>1. Mirror = [waiting |-> [ch \in Channels |-> NoRow], counters |-> <<>>]
  BY DEF DeskInit, MirrorInit, Mirror
<1> QED BY <1>1, EmptyBalanced

\* Where every company can be counted, every caller counted as joined is still shown or
\* was counted out exactly once (queue_state.py), however the events come.
THEOREM CountersAgree ==
  ASSUME Roomy
  PROVE  DeskSpec => []CountersBalance
<1>1. DeskInit => MirrorInv /\ ShownInv /\ CountInv
  BY MirrorBegins, BalanceBegins
<1>2. (MirrorInv /\ ShownInv /\ CountInv) /\ [DeskNext]_deskVars => (MirrorInv /\ ShownInv /\ CountInv)'
  BY DeskSteps, BalanceSteps
<1>3. CountInv => CountersBalance
  <2>1. Mirror.waiting = waiting /\ Mirror.counters = counters
    BY DEF Mirror
  <2> QED BY <2>1 DEF CountInv, Balanced, CountersBalance, Total, InKinds, OutKinds
<1> QED BY <1>1, <1>2, <1>3, PTL DEF DeskSpec
=============================================================================
