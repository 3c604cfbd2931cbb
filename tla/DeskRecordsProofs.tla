--------------------------- MODULE DeskRecordsProofs ---------------------------
(***************************************************************************)
(* What queue-api tells of the calls that it heard of, for any calls,      *)
(* queues, companies and mishaps: the alarm of the volume of calls, the    *)
(* history of the service level, the counters of the day and the reports   *)
(* of the call log, and the aims and alarms of the cockpit.  Each is a     *)
(* count, stated as the number of elements of a set of the calls heard of. *)
(***************************************************************************)
EXTENDS QueueDeskProofs, Supervision

----------------------------------------------------------------------------
(* The alarm of the volume of calls.                                       *)

\* The calls of an extension that were heard of, and those in the window.
OfSpeaker(dials, x) == {i \in DOMAIN dials : dials[i].speaker = x}
RecentOf(dials, x) == {i \in DOMAIN dials : dials[i].speaker = x /\ dials[i].at + RateWindow >= now}

\* What the tracker keeps of an extension are calls heard of, each one of them once, in
\* the order of their times.  f numbers them.
Traced(calls, dials, x, f, at) ==
  /\ IsWire(calls) /\ f \in Injection(DOMAIN calls, OfSpeaker(dials, x))
  /\ \A k \in DOMAIN calls : calls[k] \in Nat /\ calls[k] <= at /\ dials[f[k]].at = calls[k]
  /\ \A j, k \in DOMAIN calls : j < k => calls[j] <= calls[k]
  /\ \A i \in OfSpeaker(dials, x) : dials[i].at <= at
\* A call it forgot is older than the window, or older than all it keeps, and it is full.
Forgettable(calls, dials, i, at) ==
  \/ dials[i].at + Horizon < at
  \/ MaxRates <= Len(calls) /\ \A k \in DOMAIN calls : dials[i].at <= calls[k]
Forgotten(calls, dials, x, f, at) ==
  \A i \in OfSpeaker(dials, x) : (\E k \in DOMAIN calls : f[k] = i) \/ Forgettable(calls, dials, i, at)
Follows(calls, dials, x, at) ==
  \E f : Traced(calls, dials, x, f, at) /\ Forgotten(calls, dials, x, f, at)
DialsOK(dials) == IsWire(dials) /\ \A i \in DOMAIN dials : dials[i].at \in Nat

Adds(s, e, more) == more = Append(s, e)
LEMMA OneAdded ==
  ASSUME NEW s, IsWire(s), NEW e, NEW more, Adds(s, e, more)
  PROVE  /\ IsWire(more) /\ Len(s) \in Nat /\ Len(more) = Len(s) + 1
         /\ DOMAIN s = 1..Len(s) /\ DOMAIN more = 1..(Len(s) + 1)
         /\ more[Len(s) + 1] = e /\ \A i \in DOMAIN s : more[i] = s[i]
<1>. DEFINE S == {s[i] : i \in DOMAIN s} \cup {e}
<1>1. s \in Seq(S) /\ e \in S
  <2>1. {s[i] : i \in DOMAIN s} \subseteq S
    OBVIOUS
  <2> QED BY <2>1, SeqMonotonic DEF IsWire
<1>. HIDE DEF S
<1>2. /\ more \in Seq(S) /\ Len(more) = Len(s) + 1 /\ more[Len(s) + 1] = e
      /\ \A i \in 1..Len(s) : more[i] = s[i]
  BY <1>1, AppendProperties DEF Adds
<1> QED BY <1>1, <1>2, OwnElements

DropsFront(s, c, rest) == c \in 0..Len(s) /\ rest = SubSeq(s, c + 1, Len(s))
LEMMA FrontGone ==
  ASSUME NEW s, IsWire(s), NEW c, NEW rest, DropsFront(s, c, rest)
  PROVE  /\ IsWire(rest) /\ Len(s) \in Nat /\ DOMAIN s = 1..Len(s) /\ Len(rest) = Len(s) - c
         /\ DOMAIN rest = 1..(Len(s) - c) /\ \A k \in DOMAIN rest : rest[k] = s[k + c]
<1>. DEFINE S == {s[i] : i \in DOMAIN s}
<1>1. s \in Seq(S) /\ Len(s) \in Nat /\ DOMAIN s = 1..Len(s) /\ \A i \in 1..Len(s) : s[i] \in S
  BY Wires DEF IsWire
<1>. HIDE DEF S
<1>0. Len(s) \in Nat
  BY <1>1
<1>9. c \in Nat /\ c <= Len(s)
  BY <1>0 DEF DropsFront
<1>2. /\ c + 1 \in Int /\ Len(s) \in Int /\ \A i \in (c + 1)..Len(s) : s[i] \in S
      /\ c \in Nat /\ c <= Len(s)
  BY <1>1, <1>9
<1>3. /\ rest \in Seq(S) /\ Len(rest) = (IF c + 1 <= Len(s) THEN Len(s) - (c + 1) + 1 ELSE 0)
      /\ \A i \in 1..(Len(s) - (c + 1) + 1) : rest[i] = s[c + 1 + i - 1]
  <2>. DEFINE r == SubSeq(s, c + 1, Len(s))
  <2>1. /\ r \in Seq(S) /\ Len(r) = (IF c + 1 <= Len(s) THEN Len(s) - (c + 1) + 1 ELSE 0)
        /\ \A i \in 1..(Len(s) - (c + 1) + 1) : r[i] = s[c + 1 + i - 1]
    BY <1>2, SubSeqProperties
  <2>2. rest = r
    BY DEF DropsFront
  <2>. HIDE DEF r
  <2> QED BY <2>1, <2>2
<1>4. Len(rest) = Len(s) - c
  BY <1>1, <1>2, <1>3
<1>5. IsWire(rest) /\ DOMAIN rest = 1..(Len(s) - c)
  BY <1>3, <1>4, OwnElements
<1>6. \A k \in 1..(Len(s) - c) : rest[k] = s[k + c]
  <2>1. \A k \in 1..(Len(s) - c) : k \in 1..(Len(s) - (c + 1) + 1) /\ c + 1 + k - 1 = k + c
    BY <1>1, <1>2
  <2> QED BY <2>1, <1>3
<1> QED BY <1>1, <1>4, <1>5, <1>6

\* The calls that are dropped for their age.
LEMMA PrefixCounted ==
  ASSUME NEW calls, IsWire(calls), now \in Nat, \A k \in DOMAIN calls : calls[k] \in Nat
  PROVE  /\ Cardinality(OldPrefix(calls)) \in 0..Len(calls)
         /\ OldPrefix(calls) = 1..Cardinality(OldPrefix(calls))
<1>. DEFINE D == OldPrefix(calls)
            c == Cardinality(D)
<1>1. Len(calls) \in Nat /\ DOMAIN calls = 1..Len(calls)
  BY Wires
<1>2. \A n \in Nat : IsFiniteSet(1..n) /\ Cardinality(1..n) = n
  <2>. TAKE n \in Nat
  <2>1. 1 \in Int /\ n \in Int
    OBVIOUS
  <2>2. IsFiniteSet(1..n) /\ Cardinality(1..n) = IF 1 > n THEN 0 ELSE n - 1 + 1
    BY <2>1, FS_Interval
  <2> QED BY <2>2
<1>3. D \subseteq 1..Len(calls) /\ \A k \in D : \A j \in 1..k : j \in D
  BY <1>1 DEF OldPrefix
<1>. HIDE DEF D
<1>4. IsFiniteSet(D) /\ c \in Nat /\ c <= Len(calls)
  <2>1. IsFiniteSet(D) /\ Cardinality(D) <= Cardinality(1..Len(calls))
    BY <1>1, <1>2, <1>3, FS_Subset
  <2> QED BY <1>1, <1>2, <2>1, FS_CardinalityType
<1>5. ASSUME NEW k \in D PROVE k \in 1..c
  <2>1. k \in Nat /\ k >= 1 /\ 1..k \subseteq D
    BY <1>1, <1>3
  <2>2. Cardinality(1..k) <= c
    BY <1>4, <2>1, FS_Subset
  <2> QED BY <1>2, <1>4, <2>1, <2>2
<1>6. D = 1..c
  <2>1. D \subseteq 1..c /\ IsFiniteSet(1..c) /\ Cardinality(1..c) = c
    BY <1>2, <1>4, <1>5
  <2> QED BY <1>4, <2>1, FS_Subset
<1> QED BY <1>1, <1>4, <1>6 DEF D

\* The calls at the front are forgotten.
FrontFades(calls, c, rest, dials, x, f, at) ==
  \A i \in OfSpeaker(dials, x) :
    /\ \A k \in 1..c : f[k] = i => Forgettable(rest, dials, i, at)
    /\ c > 0 /\ Forgettable(calls, dials, i, at) => Forgettable(rest, dials, i, at)
LEMMA FrontForgotten ==
  ASSUME NEW calls, NEW dials, NEW x, NEW at, NEW f, Traced(calls, dials, x, f, at),
         Forgotten(calls, dials, x, f, at), NEW c, NEW rest, DropsFront(calls, c, rest),
         FrontFades(calls, c, rest, dials, x, f, at)
  PROVE  Follows(rest, dials, x, at)
<1>1. /\ IsWire(rest) /\ Len(calls) \in Nat /\ DOMAIN calls = 1..Len(calls) /\ Len(rest) = Len(calls) - c
      /\ DOMAIN rest = 1..(Len(calls) - c) /\ \A k \in DOMAIN rest : rest[k] = calls[k + c]
  <2>1. IsWire(calls)
    BY DEF Traced
  <2> QED BY <2>1, FrontGone
<1>0. c \in Nat /\ c <= Len(calls)
  <2>1. Len(calls) \in Nat
    BY <1>1
  <2> QED BY <2>1 DEF DropsFront
<1>. DEFINE g == [k \in DOMAIN rest |-> f[k + c]]
<1>2. f \in [DOMAIN calls -> OfSpeaker(dials, x)] /\ \A j, k \in DOMAIN calls : f[j] = f[k] => j = k
  BY DEF Traced, Injection, IsInjective
<1>3. \A k \in DOMAIN rest : k \in Nat /\ k + c \in DOMAIN calls
  BY <1>0, <1>1
<1>4. g \in Injection(DOMAIN rest, OfSpeaker(dials, x))
  <2>1. g \in [DOMAIN rest -> OfSpeaker(dials, x)]
    BY <1>2, <1>3
  <2>2. ASSUME NEW j \in DOMAIN rest, NEW k \in DOMAIN rest, g[j] = g[k] PROVE j = k
    <3>1. j + c = k + c
      BY <1>2, <1>3, <2>2
    <3> QED BY <1>0, <1>3, <3>1
  <2> QED BY <2>1, <2>2 DEF Injection, IsInjective
<1>5. Traced(rest, dials, x, g, at)
  <2>1. \A k \in DOMAIN rest : rest[k] \in Nat /\ rest[k] <= at /\ dials[g[k]].at = rest[k]
    BY <1>1, <1>3 DEF Traced
  <2>2. \A j, k \in DOMAIN rest : j < k => rest[j] <= rest[k]
    <3>1. \A j, k \in DOMAIN rest : j < k => j + c < k + c
      BY <1>0, <1>3
    <3> QED BY <1>1, <1>3, <3>1 DEF Traced
  <2> QED BY <1>1, <1>4, <2>1, <2>2 DEF Traced
<1>6. ASSUME NEW i \in OfSpeaker(dials, x), ~\E k \in DOMAIN rest : g[k] = i
      PROVE  Forgettable(rest, dials, i, at)
  <2>1. CASE \E k \in DOMAIN calls : f[k] = i
    <3>1. PICK k \in DOMAIN calls : f[k] = i
      BY <2>1
    <3>2. k \in 1..c
      <4>1. SUFFICES ASSUME k > c PROVE FALSE
        BY <1>0, <1>1
      <4>2. k - c \in DOMAIN rest /\ (k - c) + c = k
        BY <1>0, <1>1, <4>1
      <4> QED BY <1>6, <3>1, <4>2
    <3> QED BY <3>1, <3>2 DEF FrontFades
  <2>2. CASE ~\E k \in DOMAIN calls : f[k] = i
    <3>1. Forgettable(calls, dials, i, at)
      BY <2>2 DEF Forgotten
    <3>2. CASE c > 0
      BY <3>1, <3>2 DEF FrontFades
    <3>3. CASE c = 0
      <4>1. Len(rest) = Len(calls) /\ DOMAIN rest = DOMAIN calls /\ \A k \in DOMAIN rest : rest[k] = calls[k]
        <5>1. \A k \in DOMAIN rest : k + c = k
          BY <1>3, <3>3
        <5> QED BY <1>1, <3>3, <5>1
      <4> QED BY <3>1, <4>1 DEF Forgettable
    <3> QED BY <1>0, <3>2, <3>3
  <2> QED BY <2>1, <2>2
<1>. HIDE DEF g
<1> QED BY <1>5, <1>6 DEF Follows, Forgotten

LEMMA OldForgotten ==
  ASSUME NEW calls, NEW dials, DialsOK(dials), NEW x, now \in Nat, Follows(calls, dials, x, now)
  PROVE  Follows(DropOld(calls), dials, x, now)
<1>1. PICK f : Traced(calls, dials, x, f, now) /\ Forgotten(calls, dials, x, f, now)
  BY DEF Follows
<1>. DEFINE c == Cardinality(OldPrefix(calls))
            rest == DropOld(calls)
<1>2. IsWire(calls) /\ \A k \in DOMAIN calls : calls[k] \in Nat
  BY <1>1 DEF Traced
<1>3. c \in 0..Len(calls) /\ OldPrefix(calls) = 1..c /\ rest = SubSeq(calls, c + 1, Len(calls))
  BY <1>2, PrefixCounted DEF DropOld
<1>4. \A k \in 1..c : k \in DOMAIN calls /\ calls[k] + Horizon < now
  BY <1>3 DEF OldPrefix
<1>. HIDE DEF c, rest
<1>5. \A i \in OfSpeaker(dials, x) : dials[i].at \in Nat
  BY DEF OfSpeaker, DialsOK
<1>6. ASSUME NEW i \in OfSpeaker(dials, x), NEW k \in 1..c, f[k] = i PROVE Forgettable(rest, dials, i, now)
  <2>1. dials[i].at = calls[k]
    BY <1>1, <1>4, <1>6 DEF Traced
  <2> QED BY <1>4, <2>1 DEF Forgettable
<1>7. ASSUME c > 0, NEW i \in OfSpeaker(dials, x), Forgettable(calls, dials, i, now)
      PROVE  Forgettable(rest, dials, i, now)
  <2>1. 1 \in 1..c
    BY <1>3, <1>7, Wires, <1>2
  <2>2. 1 \in DOMAIN calls /\ calls[1] \in Nat /\ calls[1] + Horizon < now /\ dials[i].at \in Nat
    BY <1>2, <1>4, <1>5, <2>1
  <2>3. dials[i].at + Horizon < now
    BY <1>7, <2>2, RecordsAssumption DEF Forgettable
  <2> QED BY <2>3 DEF Forgettable
<1>8. FrontFades(calls, c, rest, dials, x, f, now) /\ DropsFront(calls, c, rest)
  BY <1>3, <1>6, <1>7 DEF FrontFades, DropsFront
<1> QED BY <1>1, <1>8, FrontForgotten DEF rest

LEMMA OldestForgotten ==
  ASSUME NEW calls, NEW dials, DialsOK(dials), NEW x, NEW at \in Nat, Follows(calls, dials, x, at),
         Len(calls) > MaxRates
  PROVE  Follows(Tail(calls), dials, x, at)
<1>1. PICK f : Traced(calls, dials, x, f, at) /\ Forgotten(calls, dials, x, f, at)
  BY DEF Follows
<1>. DEFINE rest == Tail(calls)
            one == 1
<1>2. IsWire(calls) /\ \A k \in DOMAIN calls : calls[k] \in Nat
  BY <1>1 DEF Traced
<1>3. Len(calls) \in Nat /\ DOMAIN calls = 1..Len(calls) /\ MaxRates \in Nat
  BY <1>2, Wires, RecordsAssumption
<1>4. one \in 0..Len(calls) /\ rest = SubSeq(calls, one + 1, Len(calls)) /\ one = 1
  <2>1. calls # <<>>
    BY <1>3
  <2>2. rest = SubSeq(calls, 2, Len(calls))
    BY <1>2, <2>1, TailIsSubSeq DEF IsWire
  <2> QED BY <1>3, <2>2
<1>. HIDE DEF rest, one
<1>5. /\ Len(rest) = Len(calls) - 1 /\ DOMAIN rest = 1..(Len(calls) - 1)
      /\ \A k \in DOMAIN rest : rest[k] = calls[k + 1]
  <2>1. /\ Len(rest) = Len(calls) - one /\ DOMAIN rest = 1..(Len(calls) - one)
        /\ \A k \in DOMAIN rest : rest[k] = calls[k + one]
    <3>1. DropsFront(calls, one, rest)
      BY <1>4 DEF DropsFront
    <3> QED BY <1>2, <3>1, FrontGone
  <2> QED BY <1>4, <2>1
<1>6. MaxRates <= Len(rest) /\ \A k \in DOMAIN rest : k + 1 \in DOMAIN calls /\ 1 < k + 1 /\ 1 \in DOMAIN calls
  BY <1>3, <1>5
<1>7. \A i \in OfSpeaker(dials, x) : dials[i].at \in Nat
  BY DEF OfSpeaker, DialsOK
<1>8. ASSUME NEW i \in OfSpeaker(dials, x), NEW k \in 1..one, f[k] = i PROVE Forgettable(rest, dials, i, at)
  <2>1. k = 1 /\ 1 \in DOMAIN calls
    BY <1>3, <1>4
  <2>2. dials[i].at = calls[1]
    BY <1>1, <1>8, <2>1 DEF Traced
  <2>3. \A j \in DOMAIN rest : calls[1] <= calls[j + 1]
    BY <1>1, <1>6, <2>1 DEF Traced
  <2> QED BY <1>5, <1>6, <2>2, <2>3 DEF Forgettable
<1>9. ASSUME NEW i \in OfSpeaker(dials, x), Forgettable(calls, dials, i, at)
      PROVE  Forgettable(rest, dials, i, at)
  BY <1>5, <1>6, <1>9 DEF Forgettable
<1>10. FrontFades(calls, one, rest, dials, x, f, at) /\ DropsFront(calls, one, rest)
  BY <1>4, <1>8, <1>9 DEF FrontFades, DropsFront
<1> QED BY <1>1, <1>10, FrontForgotten DEF rest

\* A call is heard of and added.
CallAdded(dials, x, at, more) == more = Append(dials, [speaker |-> x, at |-> at])
LEMMA CallHeard ==
  ASSUME NEW dials, IsWire(dials), NEW x, NEW at, NEW more, CallAdded(dials, x, at, more)
  PROVE  /\ IsWire(more) /\ Len(dials) \in Nat /\ Len(more) = Len(dials) + 1
         /\ more[Len(more)].speaker = x /\ more[Len(more)].at = at
         /\ DOMAIN dials = 1..Len(dials) /\ DOMAIN more = 1..Len(more)
         /\ \A i \in DOMAIN dials : more[i] = dials[i] /\ i # Len(more)
         /\ \A i \in DOMAIN more : i \in DOMAIN dials \/ i = Len(more)
<1>. DEFINE d == [speaker |-> x, at |-> at]
<1>1. d.speaker = x /\ d.at = at /\ Adds(dials, d, more)
  BY DEF CallAdded, Adds
<1>. HIDE DEF d
<1>2. /\ IsWire(more) /\ Len(dials) \in Nat /\ Len(more) = Len(dials) + 1
      /\ DOMAIN dials = 1..Len(dials) /\ DOMAIN more = 1..(Len(dials) + 1)
      /\ more[Len(dials) + 1] = d /\ \A i \in DOMAIN dials : more[i] = dials[i]
  BY <1>1, OneAdded
<1>. DEFINE n == Len(dials)
<1>3. n \in Nat /\ (\A i \in 1..n : i # n + 1) /\ (\A i \in 1..(n + 1) : i \in 1..n \/ i = n + 1)
  BY <1>2
<1> QED BY <1>1, <1>2, <1>3

LEMMA OtherFollows ==
  ASSUME NEW dials, IsWire(dials), NEW x, NEW at, NEW more, CallAdded(dials, x, at, more),
         NEW calls, NEW y, y # x, Follows(calls, dials, y, at)
  PROVE  Follows(calls, more, y, at)
<1>1. /\ \A i \in DOMAIN dials : more[i] = dials[i] /\ i \in DOMAIN more
      /\ \A i \in DOMAIN more : i \in DOMAIN dials \/ more[i].speaker = x
  <2>1. \A i \in DOMAIN dials : i \in 1..Len(dials) /\ Len(dials) \in Nat /\ Len(more) = Len(dials) + 1
    BY CallHeard
  <2>2. \A i \in DOMAIN dials : i \in DOMAIN more
    BY <2>1, CallHeard
  <2> QED BY <2>2, CallHeard
<1>2. OfSpeaker(more, y) = OfSpeaker(dials, y)
  BY <1>1 DEF OfSpeaker
<1>3. \A i \in OfSpeaker(dials, y) : more[i] = dials[i]
  BY <1>1 DEF OfSpeaker
<1>4. PICK f : Traced(calls, dials, y, f, at) /\ Forgotten(calls, dials, y, f, at)
  BY DEF Follows
<1>5. Traced(calls, more, y, f, at)
  <2>1. \A k \in DOMAIN calls : f[k] \in OfSpeaker(dials, y)
    BY <1>4 DEF Traced, Injection
  <2> QED BY <1>2, <1>3, <1>4, <2>1 DEF Traced
<1>6. Forgotten(calls, more, y, f, at)
  BY <1>2, <1>3, <1>4 DEF Forgotten, Forgettable
<1> QED BY <1>5, <1>6 DEF Follows

LEMMA CallFollows ==
  ASSUME NEW dials, IsWire(dials), NEW x, NEW at \in Nat, NEW more, CallAdded(dials, x, at, more),
         NEW calls, Follows(calls, dials, x, at), NEW longer, longer = Append(calls, at)
  PROVE  Follows(longer, more, x, at)
<1>1. PICK f : Traced(calls, dials, x, f, at) /\ Forgotten(calls, dials, x, f, at)
  BY DEF Follows
<1>2. /\ IsWire(longer) /\ Len(calls) \in Nat /\ Len(longer) = Len(calls) + 1
      /\ DOMAIN calls = 1..Len(calls) /\ DOMAIN longer = 1..(Len(calls) + 1)
      /\ longer[Len(calls) + 1] = at /\ \A k \in DOMAIN calls : longer[k] = calls[k]
  <2>1. IsWire(calls)
    BY <1>1 DEF Traced
  <2>2. Adds(calls, at, longer)
    BY DEF Adds
  <2> QED BY <2>1, <2>2, OneAdded
<1>. DEFINE n == Len(calls) + 1
            l == Len(more)
            g == [k \in DOMAIN longer |-> IF k = n THEN l ELSE f[k]]
<1>3. /\ n \notin DOMAIN calls /\ n \in DOMAIN longer
      /\ \A k \in DOMAIN calls : k \in DOMAIN longer /\ k < n /\ k # n
      /\ \A k \in DOMAIN longer : k \in DOMAIN calls \/ k = n
  BY <1>2
<1>4. /\ l \in OfSpeaker(more, x) /\ l \notin DOMAIN dials /\ more[l].at = at
      /\ \A i \in OfSpeaker(dials, x) : i \in OfSpeaker(more, x) /\ more[i] = dials[i] /\ i # l
      /\ \A i \in OfSpeaker(more, x) : i \in OfSpeaker(dials, x) \/ i = l
  <2>1. /\ DOMAIN more = 1..l /\ l \in Nat /\ l >= 1 /\ more[l].speaker = x /\ more[l].at = at
        /\ \A i \in DOMAIN dials : more[i] = dials[i] /\ i # l /\ i \in DOMAIN more
        /\ \A i \in DOMAIN more : i \in DOMAIN dials \/ i = l
    <3>1. /\ Len(dials) \in Nat /\ l = Len(dials) + 1 /\ DOMAIN dials = 1..Len(dials) /\ DOMAIN more = 1..l
          /\ more[l].speaker = x /\ more[l].at = at
          /\ \A i \in DOMAIN dials : more[i] = dials[i] /\ i # l
          /\ \A i \in DOMAIN more : i \in DOMAIN dials \/ i = l
      BY CallHeard
    <3>. HIDE DEF l
    <3>2. l \in Nat /\ l >= 1 /\ \A i \in 1..Len(dials) : i \in 1..l
      BY <3>1
    <3> QED BY <3>1, <3>2
  <2>. HIDE DEF l
  <2>2. l \in DOMAIN more
    BY <2>1
  <2> QED BY <2>1, <2>2 DEF OfSpeaker
<1>. HIDE DEF n, l
<1>5. f \in [DOMAIN calls -> OfSpeaker(dials, x)] /\ \A j, k \in DOMAIN calls : f[j] = f[k] => j = k
  BY <1>1 DEF Traced, Injection, IsInjective
<1>6. g[n] = l /\ \A k \in DOMAIN calls : g[k] = f[k] /\ g[k] # l
  BY <1>3, <1>4, <1>5
<1>7. g \in Injection(DOMAIN longer, OfSpeaker(more, x))
  <2>1. \A k \in DOMAIN longer : g[k] \in OfSpeaker(more, x)
    BY <1>3, <1>4, <1>5, <1>6
  <2>2. g \in [DOMAIN longer -> OfSpeaker(more, x)]
    BY <2>1
  <2>3. ASSUME NEW j \in DOMAIN longer, NEW k \in DOMAIN longer, g[j] = g[k] PROVE j = k
    BY <1>3, <1>5, <1>6, <2>3
  <2>. HIDE DEF g
  <2> QED BY <2>2, <2>3 DEF Injection, IsInjective
<1>. HIDE DEF g
<1>8. Traced(longer, more, x, g, at)
  <2>1. \A k \in DOMAIN calls : calls[k] \in Nat /\ calls[k] <= at /\ dials[f[k]].at = calls[k]
    BY <1>1 DEF Traced
  <2>2. longer[n] = at
    BY <1>2 DEF n
  <2>3. \A k \in DOMAIN longer : longer[k] \in Nat /\ longer[k] <= at /\ more[g[k]].at = longer[k]
    <3>1. \A k \in DOMAIN calls : more[g[k]].at = longer[k]
      BY <1>2, <1>4, <1>5, <1>6, <2>1
    <3> QED BY <1>2, <1>3, <1>4, <1>6, <2>1, <2>2, <3>1
  <2>4. ASSUME NEW j \in DOMAIN longer, NEW k \in DOMAIN longer, j < k PROVE longer[j] <= longer[k]
    <3>1. CASE k = n
      BY <2>2, <2>3, <3>1
    <3>2. CASE k # n
      <4>1. j \in DOMAIN calls /\ k \in DOMAIN calls
        <5>1. k \in DOMAIN calls /\ k < n
          BY <1>3, <3>2
        <5>2. j # n
          <6>1. k \in Nat /\ n \in Nat
            BY <1>2, <5>1 DEF n
          <6> QED BY <2>4, <5>1, <6>1
        <5> QED BY <1>3, <5>1, <5>2
      <4> QED BY <1>1, <1>2, <2>4, <4>1 DEF Traced
    <3> QED BY <3>1, <3>2
  <2>5. \A i \in OfSpeaker(more, x) : more[i].at <= at
    BY <1>1, <1>4 DEF Traced
  <2> QED BY <1>2, <1>7, <2>3, <2>4, <2>5 DEF Traced
<1>9. ASSUME NEW i \in OfSpeaker(more, x), ~\E k \in DOMAIN longer : g[k] = i
      PROVE  Forgettable(longer, more, i, at)
  <2>1. i # l /\ i \in OfSpeaker(dials, x) /\ more[i] = dials[i]
    BY <1>3, <1>4, <1>6, <1>9
  <2>2. ~\E k \in DOMAIN calls : f[k] = i
    BY <1>3, <1>6, <1>9
  <2>3. Forgettable(calls, dials, i, at)
    BY <1>1, <2>1, <2>2 DEF Forgotten
  <2>4. CASE dials[i].at + Horizon < at
    BY <2>1, <2>4 DEF Forgettable
  <2>5. CASE MaxRates <= Len(calls) /\ \A k \in DOMAIN calls : dials[i].at <= calls[k]
    <3>1. dials[i].at <= at
      BY <1>1, <2>1 DEF Traced
    <3>2. MaxRates <= Len(longer)
      BY <1>2, <2>5, RecordsAssumption
    <3>3. longer[n] = at
      BY <1>2 DEF n
    <3>4. \A k \in DOMAIN longer : more[i].at <= longer[k]
      BY <1>2, <1>3, <2>1, <2>5, <3>1, <3>3
    <3> QED BY <3>2, <3>4 DEF Forgettable
  <2> QED BY <2>3, <2>4, <2>5 DEF Forgettable
<1> QED BY <1>8, <1>9 DEF Follows, Forgotten

\* Time passes.
LEMMA LaterFollows ==
  ASSUME NEW calls, NEW dials, DialsOK(dials), NEW x, NEW at \in Nat, NEW at2 \in Nat, at <= at2,
         Follows(calls, dials, x, at)
  PROVE  Follows(calls, dials, x, at2)
<1>1. PICK f : Traced(calls, dials, x, f, at) /\ Forgotten(calls, dials, x, f, at)
  BY DEF Follows
<1>3. \A i \in OfSpeaker(dials, x) : dials[i].at \in Nat
  BY DEF DialsOK, OfSpeaker
<1>2. Traced(calls, dials, x, f, at2)
  BY <1>1, <1>3 DEF Traced
<1>4. Forgotten(calls, dials, x, f, at2)
  BY <1>1, <1>3, RecordsAssumption DEF Forgotten, Forgettable
<1> QED BY <1>2, <1>4 DEF Follows

\* The tracker finds the volume abnormal exactly when it is.
LEMMA VolumeTrue ==
  ASSUME NEW calls, NEW dials, DialsOK(dials), NEW x, now \in Nat, Follows(calls, dials, x, now),
         Rate < MaxRates
  PROVE  Abnormal(calls) <=> Cardinality(RecentOf(dials, x)) > Rate
<1>1. PICK f : Traced(calls, dials, x, f, now) /\ Forgotten(calls, dials, x, f, now)
  BY DEF Follows
<1>. DEFINE K == {k \in DOMAIN calls : calls[k] + RateWindow >= now}
            R == RecentOf(dials, x)
            g == [k \in K |-> f[k]]
<1>2. /\ f \in [DOMAIN calls -> OfSpeaker(dials, x)] /\ (\A j, k \in DOMAIN calls : f[j] = f[k] => j = k)
      /\ \A k \in DOMAIN calls : calls[k] \in Nat /\ dials[f[k]].at = calls[k]
  BY <1>1 DEF Traced, Injection, IsInjective
<1>3. IsFiniteSet(R)
  <2>1. R \subseteq 1..Len(dials) /\ Len(dials) \in Nat
    BY Wires DEF RecentOf, DialsOK
  <2>2. 1 \in Int /\ Len(dials) \in Int
    BY <2>1
  <2>3. IsFiniteSet(1..Len(dials))
    BY <2>2, FS_Interval
  <2> QED BY <2>1, <2>3, FS_Subset
<1>4. \A k \in K : f[k] \in R
  BY <1>2 DEF RecentOf, OfSpeaker
<1>5. g \in Injection(K, R)
  BY <1>2, <1>4 DEF Injection, IsInjective
<1>6. ASSUME NEW i \in R, ~\E k \in DOMAIN calls : f[k] = i
      PROVE  K = DOMAIN calls /\ MaxRates <= Len(calls)
  <2>1. i \in OfSpeaker(dials, x) /\ dials[i].at \in Nat /\ dials[i].at + RateWindow >= now
    BY DEF RecentOf, OfSpeaker, DialsOK
  <2>2. Forgettable(calls, dials, i, now)
    BY <1>1, <1>6, <2>1 DEF Forgotten
  <2>3. ~(dials[i].at + Horizon < now)
    BY <2>1, RecordsAssumption
  <2>4. MaxRates <= Len(calls) /\ \A k \in DOMAIN calls : dials[i].at <= calls[k]
    BY <2>2, <2>3 DEF Forgettable
  <2>5. \A k \in DOMAIN calls : calls[k] + RateWindow >= now
    BY <1>2, <2>1, <2>4, RecordsAssumption
  <2> QED BY <2>4, <2>5
<1>7. Len(calls) \in Nat /\ DOMAIN calls = 1..Len(calls)
  <2>1. IsWire(calls)
    BY <1>1 DEF Traced
  <2> QED BY <2>1, Wires
<1>8. Abnormal(calls) <=> Cardinality(K) > Rate
  BY DEF Abnormal
<1>9. CASE \A i \in R : \E k \in DOMAIN calls : f[k] = i
  <2>1. \A i \in R : \E k \in K : g[k] = i
    <3>. TAKE i \in R
    <3>1. PICK k \in DOMAIN calls : f[k] = i
      BY <1>9
    <3>2. k \in K
      BY <1>2, <3>1 DEF RecentOf
    <3> QED BY <3>1, <3>2
  <2>. HIDE DEF K, R
  <2>2. g \in Surjection(K, R)
    BY <1>5, <2>1 DEF Surjection, Injection
  <2>. HIDE DEF g
  <2>3. Cardinality(K) = Cardinality(R)
    BY <1>3, <1>5, <2>2, FS_Injection
  <2> QED BY <1>8, <2>3 DEF R
<1>10. CASE \E i \in R : ~\E k \in DOMAIN calls : f[k] = i
  <2>1. K = 1..Len(calls) /\ MaxRates <= Len(calls)
    BY <1>6, <1>7, <1>10
  <2>2. Cardinality(1..Len(calls)) = Len(calls)
    <3>. DEFINE n == Len(calls)
    <3>1. n \in Nat /\ 1 \in Int /\ n \in Int
      BY <1>7
    <3>. HIDE DEF n
    <3>2. Cardinality(1..n) = IF 1 > n THEN 0 ELSE n - 1 + 1
      BY <3>1, FS_Interval
    <3>3. Cardinality(1..n) = n
      BY <3>1, <3>2
    <3> QED BY <3>3 DEF n
  <2>. HIDE DEF K, R, g
  <2>3. Cardinality(K) <= Cardinality(R) /\ Cardinality(R) \in Nat
    BY <1>3, <1>5, FS_Injection, FS_CardinalityType
  <2>4. Cardinality(K) = Len(calls)
    BY <2>1, <2>2
  <2>5. Cardinality(K) > Rate /\ Cardinality(R) > Rate
    BY <1>7, <2>1, <2>3, <2>4, RecordsAssumption
  <2> QED BY <1>8, <2>5 DEF R
<1> QED BY <1>9, <1>10

\* Calls that ring are of extensions; the tracker and the lists keep their types; and what
\* the tracker keeps of an extension follows what was heard of it.
WireTellsRings == \A i \in DOMAIN wire : RingToldOK(wire[i])
TrackerOK ==
  /\ now \in Nat /\ IsWire(alerts) /\ DialsOK(heard.dials)
  /\ heard = [cdrs |-> heard.cdrs, dials |-> heard.dials]
  /\ rates = [x \in DOMAIN rates |-> rates[x]] /\ DOMAIN rates \subseteq Speakers
Watched == Rate < MaxRates /\ Cardinality(Speakers) <= MaxTracked
Tracking == \A x \in Speakers : Follows(RatesOf(rates, x), heard.dials, x, now)
VolumeInv ==
  WireTellsRings /\ TrackerOK /\ (Watched /\ Never({"restart", "setback"}) => Tracking)

\* A list that has room grows, once or twice.
LEMMA ListGrows ==
  ASSUME NEW l, IsWire(l), NEW e, NEW m, m = Listed(l, e)
  PROVE  /\ IsWire(m) /\ Len(l) \in Nat
         /\ Len(m) = IF Len(l) + 1 > MaxListed THEN Len(l) ELSE Len(l) + 1
<1>. DEFINE all == Append(l, e)
<1>1. Adds(l, e, all) /\ m = IF Len(all) > MaxListed THEN Tail(all) ELSE all
  BY DEF Adds, Listed
<1>. HIDE DEF all
<1>2. IsWire(all) /\ Len(l) \in Nat /\ Len(all) = Len(l) + 1
  BY <1>1, OneAdded
<1>3. IsWire(Tail(all)) /\ Len(Tail(all)) = Len(l)
  <2>. DEFINE S == {all[i] : i \in DOMAIN all}
              r == Tail(all)
  <2>1. all \in Seq(S) /\ all # <<>>
    BY <1>2 DEF IsWire
  <2>. HIDE DEF S
  <2>2. r \in Seq(S) /\ Len(r) = Len(all) - 1
    BY <2>1, HeadTailProperties
  <2>. HIDE DEF r
  <2>3. IsWire(r)
    BY <2>2, OwnElements
  <2> QED BY <1>2, <2>2, <2>3 DEF r
<1> QED BY <1>1, <1>2, <1>3

LEMMA ListsDiffer ==
  ASSUME NEW l, IsWire(l), Len(l) < MaxListed, NEW e, NEW d
  PROVE  Listed(l, e) # l /\ Listed(Listed(l, e), d) # l
<1>. DEFINE m == Listed(l, e)
            n == Listed(m, d)
<1>1. m = Listed(l, e) /\ n = Listed(m, d)
  OBVIOUS
<1>. HIDE DEF m, n
<1>2. IsWire(m) /\ Len(l) \in Nat /\ Len(m) = IF Len(l) + 1 > MaxListed THEN Len(l) ELSE Len(l) + 1
  BY <1>1, ListGrows
<1>3. Len(m) \in Nat /\ Len(n) = IF Len(m) + 1 > MaxListed THEN Len(m) ELSE Len(m) + 1
  BY <1>1, <1>2, ListGrows
<1>4. MaxListed \in Nat
  BY RecordsAssumption
<1>5. Len(m) # Len(l) /\ Len(n) # Len(l)
  BY <1>2, <1>3, <1>4
<1>6. m # l /\ n # l
  BY <1>5
<1> QED BY <1>6 DEF m, n

\* There is room for every extension.
LEMMA RoomForSpeaker ==
  ASSUME TrackerOK, Watched, NEW x \in Speakers PROVE HasRoom(x)
<1>. SUFFICES ASSUME x \notin DOMAIN rates PROVE Cardinality(DOMAIN rates) < MaxTracked
  BY DEF HasRoom
<1>. DEFINE D == DOMAIN rates
<1>1. D \subseteq Speakers /\ D # Speakers /\ IsFiniteSet(Speakers) /\ MaxTracked \in Nat
  BY RecordsAssumption DEF TrackerOK
<1>. HIDE DEF D
<1>2. Cardinality(D) <= Cardinality(Speakers) /\ Cardinality(D) # Cardinality(Speakers)
  BY <1>1, FS_Subset
<1>3. Cardinality(D) \in Nat /\ Cardinality(Speakers) \in Nat
  <2>1. IsFiniteSet(D)
    BY <1>1, FS_Subset
  <2> QED BY <1>1, <2>1, FS_CardinalityType
<1>4. Cardinality(D) < MaxTracked
  BY <1>1, <1>2, <1>3 DEF Watched
<1> QED BY <1>4 DEF D

\* What the tracker keeps when a call is heard of.
Kept(old) == LET calls == Append(DropOld(old), now)
             IN  IF Len(calls) > MaxRates THEN Tail(calls) ELSE calls
LEMMA KeptFollows ==
  ASSUME NEW dials, DialsOK(dials), NEW x, now \in Nat, NEW more, CallAdded(dials, x, now, more),
         NEW old, Follows(old, dials, x, now)
  PROVE  DialsOK(more) /\ Follows(Kept(old), more, x, now)
<1>. DEFINE rest == DropOld(old)
            calls == Append(rest, now)
<1>1. IsWire(dials)
  BY DEF DialsOK
<1>2. DialsOK(more)
  <2>1. /\ IsWire(more) /\ more[Len(more)].at = now
        /\ \A i \in DOMAIN dials : more[i] = dials[i]
        /\ \A i \in DOMAIN more : i \in DOMAIN dials \/ i = Len(more)
    BY <1>1, CallHeard
  <2> QED BY <2>1 DEF DialsOK
<1>3. Follows(rest, dials, x, now)
  BY OldForgotten
<1>4. calls = Append(rest, now)
  OBVIOUS
<1>5. Kept(old) = IF Len(calls) > MaxRates THEN Tail(calls) ELSE calls
  BY DEF Kept
<1>. HIDE DEF rest, calls
<1>6. Follows(calls, more, x, now)
  BY <1>1, <1>3, <1>4, CallFollows
<1>7. CASE Len(calls) > MaxRates
  <2>1. Follows(Tail(calls), more, x, now)
    BY <1>2, <1>6, <1>7, OldestForgotten
  <2> QED BY <1>2, <1>5, <1>7, <2>1
<1>8. CASE ~(Len(calls) > MaxRates)
  BY <1>2, <1>5, <1>6, <1>8
<1> QED BY <1>7, <1>8

\* What is left as it is.
LEMMA VolumeStays ==
  ASSUME VolumeInv, KindsGrow, WireTellsRings', rates' = rates, now' = now, IsWire(alerts'),
         heard' = [cdrs |-> heard'.cdrs, dials |-> heard'.dials], heard'.dials = heard.dials
  PROVE  VolumeInv'
<1>1. TrackerOK'
  BY DEF VolumeInv, TrackerOK
<1>2. ASSUME Watched, Never({"restart", "setback"})' PROVE Tracking'
  <2>1. Never({"restart", "setback"})
    BY <1>2, NeverBefore
  <2> QED BY <1>2, <2>1 DEF VolumeInv, Tracking, RatesOf
<1> QED BY <1>1, <1>2 DEF VolumeInv, Watched

\* A call to the outside rings, and is heard of.
Rings(e) == e.kind = "dial_begin" /\ e.external
LEMMA RingHeard ==
  ASSUME VolumeInv, NEW e, RingToldOK(e), Rings(e), RecordsHear(e), now' = now, KindsGrow
  PROVE  /\ TrackerOK' /\ (Watched /\ Never({"restart", "setback"}) => Tracking')
         /\ CallAdded(heard.dials, e.speaker, now, heard'.dials)
         /\ Len(alerts) < MaxListed => (alerts' # alerts <=> Abnormal(RatesOf(rates', e.speaker)))
<1>. DEFINE x == e.speaker
            over == Listed(alerts, Alert("volume_anormal", x))
            blocked == Listed(over, Alert("bloqueio_automatico", x))
<1>1. /\ e.kind = "dial_begin" /\ e.external /\ x \in Speakers
      /\ TrackerOK /\ now \in Nat /\ IsWire(alerts) /\ DialsOK(heard.dials)
  BY DEF Rings, RingToldOK, VolumeInv, TrackerOK
<1>2. /\ rates' = TrackCall(x)
      /\ IF Abnormal(RatesOf(TrackCall(x), x)) THEN alerts' = over \/ alerts' = blocked
         ELSE alerts' = alerts
  <2>1. CallVolume(e)
    BY <1>1 DEF RecordsHear
  <2> QED BY <1>1, <2>1 DEF CallVolume
<1>3. /\ CallAdded(heard.dials, x, now, heard'.dials)
      /\ heard' = [cdrs |-> heard'.cdrs, dials |-> heard'.dials]
  <2>1. heard = [cdrs |-> heard.cdrs, dials |-> heard.dials]
    BY <1>1 DEF TrackerOK
  <2>2. heard' = [heard EXCEPT !.cdrs = @, !.dials = Append(@, [speaker |-> x, at |-> now])]
    BY <1>1 DEF RecordsHear
  <2> QED BY <2>1, <2>2 DEF CallAdded
<1>4. /\ IsWire(over) /\ IsWire(blocked)
      /\ Len(alerts) < MaxListed => over # alerts /\ blocked # alerts
  <2>. DEFINE a == Alert("volume_anormal", x)
              b == Alert("bloqueio_automatico", x)
  <2>1. over = Listed(alerts, a) /\ blocked = Listed(over, b)
    OBVIOUS
  <2>. HIDE DEF a, b, over, blocked
  <2>2. IsWire(over) /\ IsWire(blocked)
    BY <1>1, <2>1, ListGrows
  <2>3. Len(alerts) < MaxListed => Listed(alerts, a) # alerts /\ Listed(Listed(alerts, a), b) # alerts
    BY <1>1, ListsDiffer
  <2> QED BY <2>1, <2>2, <2>3
<1>. HIDE DEF over, blocked
<1>5. Len(alerts) < MaxListed => (alerts' # alerts <=> Abnormal(RatesOf(rates', x)))
  BY <1>2, <1>4
<1>6. rates' = IF HasRoom(x) THEN WithCalls(x, Kept(RatesOf(rates, x))) ELSE rates
  BY <1>2 DEF TrackCall, Kept
<1>. HIDE DEF x
<1>7. DOMAIN rates' \subseteq Speakers /\ rates' = [y \in DOMAIN rates' |-> rates'[y]]
  BY <1>1, <1>6 DEF WithCalls, TrackerOK
<1>8. DialsOK(heard'.dials)
  <2>. DEFINE dials == heard.dials
              more == heard'.dials
  <2>1. IsWire(dials) /\ CallAdded(dials, x, now, more) /\ \A i \in DOMAIN dials : dials[i].at \in Nat
    BY <1>1, <1>3 DEF DialsOK
  <2>. HIDE DEF dials, more
  <2>2. /\ IsWire(more) /\ more[Len(more)].at = now
        /\ \A i \in DOMAIN dials : more[i] = dials[i]
        /\ \A i \in DOMAIN more : i \in DOMAIN dials \/ i = Len(more)
    BY <2>1, CallHeard
  <2>3. DialsOK(more)
    BY <1>1, <2>1, <2>2 DEF DialsOK
  <2> QED BY <2>3 DEF more
<1>9. IsWire(alerts')
  BY <1>1, <1>2, <1>4
<1>10. TrackerOK'
  BY <1>1, <1>3, <1>7, <1>8, <1>9 DEF TrackerOK
<1>11. ASSUME Watched, Never({"restart", "setback"}) PROVE Tracking'
  <2>1. Tracking /\ HasRoom(x)
    BY <1>1, <1>11, RoomForSpeaker DEF VolumeInv
  <2>2. /\ RatesOf(rates', x) = Kept(RatesOf(rates, x))
        /\ \A y \in Speakers : y # x => RatesOf(rates', y) = RatesOf(rates, y)
    BY <1>6, <2>1 DEF RatesOf, WithCalls
  <2>. DEFINE dials == heard.dials
              more == heard'.dials
              old == RatesOf(rates, x)
  <2>3. DialsOK(dials) /\ CallAdded(dials, x, now, more) /\ Follows(old, dials, x, now)
    BY <1>1, <1>3, <2>1 DEF Tracking
  <2>. HIDE DEF dials, more, old
  <2>4. Follows(Kept(old), more, x, now)
    BY <1>1, <2>3, KeptFollows
  <2>5. ASSUME NEW y \in Speakers, y # x PROVE Follows(RatesOf(rates, y), more, y, now)
    <3>. DEFINE calls == RatesOf(rates, y)
    <3>1. Follows(calls, dials, y, now) /\ IsWire(dials)
      BY <2>1, <2>3 DEF Tracking, dials, DialsOK
    <3>. HIDE DEF calls
    <3>2. Follows(calls, more, y, now)
      BY <2>3, <2>5, <3>1, OtherFollows
    <3> QED BY <3>2 DEF calls
  <2>6. \A y \in Speakers : Follows(RatesOf(rates', y), more, y, now)
    BY <2>2, <2>4, <2>5 DEF old
  <2> QED BY <2>6 DEF Tracking, more
<1> QED BY <1>3, <1>5, <1>10, <1>11 DEF x

\* An event is handled: a call rings, or the tracker hears of none.
SameCalls ==
  /\ rates' = rates /\ IsWire(alerts') /\ heard' = [cdrs |-> heard'.cdrs, dials |-> heard'.dials]
  /\ heard'.dials = heard.dials
LEMMA NoRingHeard ==
  ASSUME TrackerOK, NEW e, RecordsHear(e) \/ RecordsFail(e) \/ RestUnheard, RingToldOK(e)
  PROVE  SameCalls \/ (RecordsHear(e) /\ Rings(e))
<1>1. heard = [cdrs |-> heard.cdrs, dials |-> heard.dials] /\ IsWire(alerts)
  BY DEF TrackerOK
<1>2. CASE RestUnheard
  BY <1>1, <1>2 DEF RestUnheard, SameCalls
<1>3. CASE RecordsFail(e)
  BY <1>1, <1>3 DEF RecordsFail, SameCalls
<1>4. CASE RecordsHear(e) /\ ~Rings(e)
  <2>1. heard' = [cdrs |-> heard'.cdrs, dials |-> heard'.dials] /\ heard'.dials = heard.dials
    BY <1>1, <1>4 DEF RecordsHear, Rings
  <2>2. rates' = rates /\ IsWire(alerts')
    <3>1. CASE e.kind = "cdr"
      <4>. DEFINE a == Alert("limite_gasto", e.speaker)
                  l == Listed(alerts, a)
      <4>1. rates' = rates /\ (alerts' = alerts \/ alerts' = l)
        BY <1>4, <3>1 DEF RecordsHear
      <4>2. l = Listed(alerts, a)
        OBVIOUS
      <4>. HIDE DEF a, l
      <4>3. IsWire(l)
        BY <1>1, <4>2, ListGrows
      <4> QED BY <1>1, <4>1, <4>3
    <3>2. CASE e.kind # "cdr"
      <4>1. CallVolume(e) /\ (e.kind # "dial_begin" \/ ~e.external)
        BY <1>4, <3>2 DEF RecordsHear, Rings
      <4>2. UNCHANGED <<rates, alerts>>
        BY <4>1 DEF CallVolume
      <4> QED BY <1>1, <4>2
    <3> QED BY <3>1, <3>2
  <2> QED BY <2>1, <2>2 DEF SameCalls
<1> QED BY <1>2, <1>3, <1>4

LEMMA VolumeTakes ==
  ASSUME MirrorInv, VolumeInv, NEW i \in DOMAIN wire, NEW again \in BOOLEAN, HandleAmiEvent(i, again)
  PROVE  /\ VolumeInv'
         /\ SameCalls \/ (RecordsHear(wire[i]) /\ Rings(wire[i]) /\ RingToldOK(wire[i]))
<1>. DEFINE e == wire[i]
<1>1. Hears(i, again) /\ KindsGrow /\ now' = now
  BY Hearing DEF Hears, HandleAmiEvent
<1>2. WireTellsRings'
  <2>1. \A j \in DOMAIN wire' : \E k \in DOMAIN wire : wire'[j] = wire[k]
    BY <1>1, WireHeard
  <2> QED BY <2>1 DEF VolumeInv, WireTellsRings
<1>3. RingToldOK(e) /\ TrackerOK
  BY DEF VolumeInv, WireTellsRings
<1>4. RecordsHear(e) \/ RecordsFail(e) \/ RestUnheard
  BY DEF HandleAmiEvent
<1>. HIDE DEF e
<1>5. SameCalls \/ (RecordsHear(e) /\ Rings(e))
  BY <1>3, <1>4, NoRingHeard
<1>6. CASE SameCalls
  BY <1>1, <1>2, <1>6, VolumeStays DEF SameCalls, e
<1>7. CASE RecordsHear(e) /\ Rings(e)
  <2>1. TrackerOK' /\ (Watched /\ Never({"restart", "setback"}) => Tracking')
    BY <1>1, <1>3, <1>7, RingHeard
  <2>2. Never({"restart", "setback"})' => Never({"restart", "setback"})
    BY <1>1, NeverBefore
  <2> QED BY <1>2, <1>3, <1>7, <2>1, <2>2 DEF VolumeInv, Watched, e
<1> QED BY <1>5, <1>6, <1>7

LEMMA VolumeIdles ==
  ASSUME MirrorInv, VolumeInv, Strangers \/ wire' = wire, KindsGrow, now' = now,
         UNCHANGED <<rates, alerts, heard>>
  PROVE  VolumeInv' /\ SameCalls
<1>1. WireTellsRings'
  <2>1. CASE wire' = wire
    BY <2>1 DEF VolumeInv, WireTellsRings
  <2>2. CASE Strangers
    <3>1. ASSUME NEW j \in DOMAIN wire' PROVE RingToldOK(wire'[j])
      <4>1. CASE j \in DOMAIN wire
        BY <2>2, <4>1 DEF Strangers, Extended, VolumeInv, WireTellsRings
      <4>2. CASE j \notin DOMAIN wire
        BY <2>2, <4>2 DEF Strangers, New, Stranger
      <4> QED BY <4>1, <4>2
    <3> QED BY <3>1 DEF WireTellsRings
  <2> QED BY <2>1, <2>2
<1>2. SameCalls
  BY DEF SameCalls, VolumeInv, TrackerOK
<1> QED BY <1>1, <1>2, VolumeStays DEF SameCalls

LEMMA VolumeRestarts ==
  ASSUME MirrorInv, VolumeInv, Restart PROVE VolumeInv' /\ heard' = heard
<1>1. /\ wire' = <<>> /\ rates' = <<>> /\ alerts' = <<>> /\ Mishap("restart") /\ UNCHANGED <<now, heard>>
  BY DEF Restart
<1>2. DOMAIN wire' = {} /\ "restart" \in mishaps'.kinds
  BY <1>1, NoWire DEF Mishap, Mishaps, MishapsAnd
<1>3. ~Never({"restart", "setback"})'
  BY <1>2 DEF Never
<1>4. IsWire(alerts') /\ DOMAIN rates' = {} /\ rates' = [x \in DOMAIN rates' |-> rates'[x]]
  <2>1. IsWire(<<>>) /\ DOMAIN <<>> = {} /\ <<>> = [x \in {} |-> <<>>[x]]
    BY NoWire
  <2> QED BY <1>1, <2>1
<1>5. WireTellsRings' /\ TrackerOK'
  BY <1>1, <1>2, <1>4 DEF VolumeInv, WireTellsRings, TrackerOK
<1> QED BY <1>1, <1>3, <1>5 DEF VolumeInv

LEMMA VolumePasses ==
  ASSUME MirrorInv, VolumeInv, Clock PROVE VolumeInv' /\ heard' = heard
<1>1. /\ UNCHANGED <<wire, rates, alerts, heard>> /\ now' \in Clocks
      /\ IF now' > now THEN mishaps' = mishaps ELSE Mishap("setback")
  BY DEF Clock, SetClock, recordVars, NoMishap
<1>2. KindsGrow /\ now' \in Nat /\ (Never({"restart", "setback"})' => now' > now)
  <2>1. Mishap("setback") => ~Never({"restart", "setback"})'
    BY DEF Mishap, Mishaps, MishapsAnd, Never
  <2> QED BY <1>1, <2>1, MishapsGrow, StreamAssumption
<1>3. WireTellsRings' /\ TrackerOK'
  BY <1>1, <1>2 DEF VolumeInv, WireTellsRings, TrackerOK
<1>4. ASSUME Watched, Never({"restart", "setback"})' PROVE Tracking'
  <2>1. Never({"restart", "setback"})
    BY <1>2, <1>4, NeverBefore
  <2>2. /\ Tracking /\ DialsOK(heard.dials) /\ now \in Nat /\ now' \in Nat /\ now <= now'
    BY <1>2, <1>4, <2>1 DEF VolumeInv, TrackerOK
  <2>3. ASSUME NEW x \in Speakers PROVE Follows(RatesOf(rates, x), heard.dials, x, now')
    <3>. DEFINE calls == RatesOf(rates, x)
                dials == heard.dials
                at == now
                at2 == now'
    <3>1. Follows(calls, dials, x, at) /\ DialsOK(dials) /\ at \in Nat /\ at2 \in Nat /\ at <= at2
      BY <2>2 DEF Tracking
    <3>. HIDE DEF calls, dials, at, at2
    <3>2. Follows(calls, dials, x, at2)
      BY <3>1, LaterFollows
    <3> QED BY <3>2 DEF calls, dials, at2
  <2> QED BY <1>1, <2>3 DEF Tracking, RatesOf
<1> QED BY <1>1, <1>3, <1>4 DEF VolumeInv, Watched

LEMMA VolumeBegins == DeskInit => VolumeInv
<1>. SUFFICES ASSUME DeskInit PROVE VolumeInv
  OBVIOUS
<1>1. /\ wire = <<>> /\ now = StartClock /\ alerts = <<>> /\ rates = <<>>
      /\ heard = [cdrs |-> <<>>, dials |-> <<>>]
  BY DEF DeskInit, StreamInit, RecordsInit
<1>2. IsWire(<<>>) /\ DOMAIN <<>> = {} /\ <<>> = [x \in {} |-> <<>>[x]]
  BY NoWire
<1>. DEFINE none == <<>>
<1>3. IsWire(none) /\ DOMAIN none = {} /\ heard.dials = none /\ heard.cdrs = none /\ none = [x \in {} |-> none[x]]
  BY <1>1, <1>2
<1>. HIDE DEF none
<1>4. DialsOK(none)
  BY <1>3 DEF DialsOK
<1>5. TrackerOK
  BY <1>1, <1>2, <1>3, <1>4, StreamAssumption DEF TrackerOK
<1>6. ASSUME NEW x \in Speakers PROVE Follows(none, none, x, now)
  <2>1. OfSpeaker(none, x) = {}
    BY <1>3 DEF OfSpeaker
  <2>2. none \in Injection({}, {})
    <3>1. none \in [{} -> {}]
      BY <1>3
    <3> QED BY <3>1 DEF Injection, IsInjective
  <2>3. Traced(none, none, x, none, now) /\ Forgotten(none, none, x, none, now)
    BY <1>3, <2>1, <2>2 DEF Traced, Forgotten
  <2> QED BY <2>3 DEF Follows
<1>7. Tracking
  <2>1. \A x \in Speakers : RatesOf(rates, x) = none
    BY <1>1, <1>2 DEF RatesOf, none
  <2> QED BY <1>3, <1>6, <2>1 DEF Tracking
<1> QED BY <1>1, <1>2, <1>5, <1>7 DEF VolumeInv, WireTellsRings

LEMMA VolumeSteps ==
  ASSUME MirrorInv, VolumeInv, [DeskNext]_deskVars
  PROVE  /\ VolumeInv'
         /\ \/ heard'.dials = heard.dials
            \/ \E i \in DOMAIN wire : /\ RecordsHear(wire[i]) /\ Rings(wire[i]) /\ RingToldOK(wire[i])
                                      /\ now' = now /\ KindsGrow
<1>1. ASSUME NEW i \in DOMAIN wire, NEW again \in BOOLEAN, HandleAmiEvent(i, again)
      PROVE  /\ VolumeInv'
             /\ \/ heard'.dials = heard.dials
                \/ /\ RecordsHear(wire[i]) /\ Rings(wire[i]) /\ RingToldOK(wire[i])
                   /\ now' = now /\ KindsGrow
  <2>1. KindsGrow /\ now' = now
    BY <1>1, Hearing DEF Hears, HandleAmiEvent
  <2> QED BY <1>1, <2>1, VolumeTakes DEF SameCalls
<1>2. CASE Restart \/ Clock
  BY <1>2, VolumeRestarts, VolumePasses
<1>3. CASE OfMirror \/ OfSla \/ OfCdrs \/ OfCalls
  <2>1. Strangers /\ now' = now
    BY <1>3, TimeStands, MirrorStrangers, SlaStrangers, RecordsStrangers
  <2>2. UNCHANGED <<rates, alerts, heard>>
    <3>1. \A e : Emit(e) => UNCHANGED <<rates, alerts, heard>>
      BY DEF Emit
    <3>2. OfCdrs \/ OfCalls => \E e : Emit(e)
      BY DEF OfCdrs, OfCalls, CdrStep, CallStep, CallEnds, CallRings, QualityTold, CallLost, CallRated
    <3> QED BY <1>3, <3>1, <3>2 DEF OfMirror, OfSla, recordVars
  <2>3. VolumeInv' /\ SameCalls
    BY <2>1, <2>2, VolumeIdles DEF Strangers
  <2> QED BY <2>3 DEF SameCalls
<1>4. CASE OfBoard
  <2>1. UNCHANGED <<rates, alerts, heard, now>>
    BY <1>4 DEF OfBoard, BoardStep, MemberChange, SetPause, DeviceChange, BoardUnheard, recordVars
  <2>2. KindsGrow
    <3>1. mishaps' = mishaps \/ \E kind : Note(kind)
      BY <1>4, BoardTells DEF OfBoard
    <3> QED BY <3>1, MishapsGrow DEF Note
  <2>3. WireTellsRings'
    <3>1. PICK E : IsWire(E) /\ Appends(wire', wire, E) /\ \A k \in DOMAIN E : OfAgents(E[k])
      BY <1>4, BoardTells DEF OfBoard
    <3>2. /\ \A j \in DOMAIN wire : wire'[j] = wire[j]
          /\ \A j \in DOMAIN wire' \ DOMAIN wire : \E k \in DOMAIN E : wire'[j] = E[k]
      BY <3>1, WireAppend DEF MirrorInv
    <3>3. \A k \in DOMAIN E : RingToldOK(E[k])
      BY <3>1 DEF OfAgents, RingToldOK, MemberKinds
    <3> QED BY <3>2, <3>3 DEF VolumeInv, WireTellsRings
  <2>4. SameCalls
    BY <2>1 DEF SameCalls, VolumeInv, TrackerOK
  <2> QED BY <2>1, <2>2, <2>3, <2>4, VolumeStays DEF SameCalls
<1>5. CASE OfPresence
  <2>1. wire' = wire /\ UNCHANGED <<rates, alerts, heard, now>>
    BY <1>5 DEF OfPresence, PresenceStep, SavePresence, AskPresence, recordVars
  <2>2. KindsGrow
    <3>1. NoMishap \/ Mishap("failed") \/ Note("overlap")
      BY <1>5 DEF OfPresence, PresenceStep, SavePresence, AskPresence
    <3> QED BY <3>1, MishapsGrow DEF NoMishap, Note
  <2>3. VolumeInv' /\ SameCalls
    BY <2>1, <2>2, VolumeIdles
  <2> QED BY <2>3 DEF SameCalls
<1>6. CASE UNCHANGED deskVars
  <2>1. wire' = wire /\ UNCHANGED <<rates, alerts, heard, now, mishaps>>
    BY <1>6 DEF deskVars, streamVars, recordVars
  <2>2. KindsGrow
    BY <2>1, MishapsGrow
  <2>3. VolumeInv' /\ SameCalls
    BY <2>1, <2>2, VolumeIdles
  <2> QED BY <2>3 DEF SameCalls
<1> QED BY <1>1, <1>2, <1>3, <1>4, <1>5, <1>6 DEF DeskNext

\* What the tracker keeps of an extension numbers calls heard of, and those it forgot
\* cannot make a difference.
THEOREM CallsAreTracked == DeskSpec => [](MirrorInv /\ VolumeInv)
<1>1. DeskInit => MirrorInv /\ VolumeInv
  BY MirrorBegins, VolumeBegins
<1>2. MirrorInv /\ VolumeInv /\ [DeskNext]_deskVars => (MirrorInv /\ VolumeInv)'
  BY DeskSteps, VolumeSteps
<1> QED BY <1>1, <1>2, PTL DEF DeskSpec

\* What VolumeIsNoticed says of a step.
NoticedVolume ==
  Len(heard'.dials) > Len(heard.dials) /\ Never({"restart", "setback"})
    /\ Len(alerts) < MaxListed /\ Rate < MaxRates /\ Cardinality(Speakers) <= MaxTracked =>
    LET x == Last(heard'.dials).speaker
        recent == {i \in DOMAIN heard'.dials : /\ heard'.dials[i].speaker = x
                                               /\ heard'.dials[i].at + RateWindow >= now}
    IN  alerts' # alerts <=> Cardinality(recent) > Rate
LEMMA RingNoticed ==
  ASSUME VolumeInv, NEW e, RecordsHear(e), Rings(e), RingToldOK(e), now' = now, KindsGrow,
         Never({"restart", "setback"}), Len(alerts) < MaxListed, Watched
  PROVE  /\ Last(heard'.dials).speaker = e.speaker
         /\ alerts' # alerts <=> Cardinality(RecentOf(heard'.dials, e.speaker)) > Rate
<1>. DEFINE x == e.speaker
            dials == heard.dials
            more == heard'.dials
            calls == RatesOf(rates', x)
<1>1. /\ TrackerOK' /\ Tracking' /\ CallAdded(dials, x, now, more)
      /\ alerts' # alerts <=> Abnormal(calls)
  BY RingHeard
<1>2. x \in Speakers /\ now \in Nat /\ IsWire(dials) /\ DialsOK(more)
  BY <1>1 DEF RingToldOK, Rings, VolumeInv, TrackerOK, DialsOK
<1>3. Follows(calls, more, x, now)
  BY <1>1, <1>2 DEF Tracking
<1>. HIDE DEF x, dials, more, calls
<1>4. Last(more).speaker = x
  BY <1>1, <1>2, CallHeard DEF Last
<1>5. Abnormal(calls) <=> Cardinality(RecentOf(more, x)) > Rate
  BY <1>2, <1>3, VolumeTrue DEF Watched
<1> QED BY <1>1, <1>4, <1>5 DEF x, more

\* A ringing call to the outside raises the alarm of fraud_detection.py exactly when more
\* than Rate calls of the extension were heard of within the window, although the tracker
\* drops the calls of the day before and those beyond its size, for any clock readings that
\* go forward and any number of extensions within MaxTracked.
THEOREM VolumeNoticed == DeskSpec => VolumeIsNoticed
<1>1. MirrorInv /\ VolumeInv /\ [DeskNext]_deskVars => NoticedVolume
  <2>. SUFFICES ASSUME MirrorInv, VolumeInv, [DeskNext]_deskVars,
                       Len(heard'.dials) > Len(heard.dials), Never({"restart", "setback"}),
                       Len(alerts) < MaxListed, Watched
                PROVE  LET x == Last(heard'.dials).speaker
                       IN  alerts' # alerts <=> Cardinality(RecentOf(heard'.dials, x)) > Rate
    BY DEF NoticedVolume, Watched, RecentOf
  <2>1. heard'.dials # heard.dials
    BY Wires DEF VolumeInv, TrackerOK, DialsOK
  <2>2. PICK i \in DOMAIN wire : /\ RecordsHear(wire[i]) /\ Rings(wire[i]) /\ RingToldOK(wire[i])
                                 /\ now' = now /\ KindsGrow
    BY <2>1, VolumeSteps
  <2> QED BY <2>2, RingNoticed
<1>2. MirrorInv /\ VolumeInv /\ [DeskNext]_deskVars => [NoticedVolume]_recordVars
  BY <1>1
<1> QED BY <1>2, CallsAreTracked, PTL DEF DeskSpec, VolumeIsNoticed, NoticedVolume
----------------------------------------------------------------------------
(* The history of the service level.  What is said of the tracker, of the  *)
(* file and of the calls heard of is said of any such, s, file and ofs: a  *)
(* rollover is one step, the recording of a call in what it leaves another.*)

Fields == {"offered", "within"}
\* What the lines of a day and a queue add up to, one by one.
Stored(file, day, q, field) ==
  Units(file, {i \in DOMAIN file : file[i].date = day /\ file[i].queue = q}, day, q, field)
GoodRow(row) ==
  row \notin {Torn, Garbage} /\ row.date \in Nat /\ row.offered \in Nat /\ row.within \in Nat
GoodFile(file) ==
  /\ IsWire(file) /\ \A i \in DOMAIN file : GoodRow(file[i])
  /\ \A day, q : \A field \in Fields : IsFiniteSet(Stored(file, day, q, field))
LiveOf(s, day, q, field) == IF s.day = day /\ q \in DOMAIN s.stats THEN s.stats[q][field] ELSE 0
Account(s, file, day, q, field) == Cardinality(Stored(file, day, q, field)) + LiveOf(s, day, q, field)

\* The calls heard of, of a day and a queue; one without a Uniqueid is known by its number.
HeardOf(calls, day, q) == {h \in calls : h.day = day /\ h.queue = q}
Nameless(h) == h.id[1] = NoUniqueid
OfferOK(h, n) ==
  /\ h = [day |-> h.day, queue |-> h.queue, id |-> h.id] /\ h.day \in Nat
  /\ \/ h.id = <<h.id[1]>> /\ ~Nameless(h)
     \/ h.id = <<h.id[1], h.id[2]>> /\ Nameless(h) /\ h.id[2] \in Nat /\ h.id[2] < n
OffersOK(ofs) ==
  /\ ofs = [told |-> ofs.told, heard |-> ofs.heard, met |-> ofs.met]
  /\ IsFiniteSet(ofs.heard) /\ ofs.met \subseteq ofs.heard
  /\ \A h \in ofs.heard : OfferOK(h, Cardinality(ofs.heard))

\* The tracker: one row per queue, and the keys of calls heard of on its day.
StatsOK(s) ==
  /\ s.stats = [q \in {s.order[i] : i \in DOMAIN s.order} |-> s.stats[q]]
  /\ \A q \in DOMAIN s.stats :
       /\ s.stats[q] = [offered |-> s.stats[q].offered, within |-> s.stats[q].within]
       /\ s.stats[q].offered \in Nat \ {0} /\ s.stats[q].within \in Nat
Distinct(seq) == IsWire(seq) /\ \A i, j \in DOMAIN seq : seq[i] = seq[j] => i = j
Tracks(s) ==
  /\ s = [day |-> s.day, order |-> s.order, stats |-> s.stats, seen |-> s.seen]
  /\ s.day \in Nat /\ Distinct(s.order) /\ Distinct(s.seen) /\ StatsOK(s)
Named(day, key) == [day |-> day, queue |-> key[1], id |-> <<key[2]>>]
IsKey(key, day, calls) ==
  key = <<key[1], key[2]>> /\ key[2] # NoUniqueid /\ Named(day, key) \in calls
KeysOK(s, calls) == \A i \in DOMAIN s.seen : IsKey(s.seen[i], s.day, calls)
Sound(s, ofs) == OffersOK(ofs) /\ Tracks(s) /\ KeysOK(s, ofs.heard)

\* Nothing is lost.
NoneMissing(s, file, ofs) ==
  \A day, q : /\ Account(s, file, day, q, "offered") >= Cardinality(HeardOf(ofs.heard, day, q))
              /\ Account(s, file, day, q, "within") >= Cardinality(HeardOf(ofs.met, day, q))
\* Nothing is counted twice: the days of the history are over, and of the running day the
\* calls counted are the ones without a Uniqueid and the ones remembered.
InTime(s, file, ofs, time) ==
  /\ s.day <= DayKey(time) /\ \A h \in ofs.heard : h.day <= s.day
  /\ \A i \in DOMAIN file : file[i].date < s.day
IsSeen(s, key) == \E i \in DOMAIN s.seen : s.seen[i] = key
IsCounted(s, h) == Nameless(h) \/ IsSeen(s, <<h.queue, h.id[1]>>)
CountedOf(s, calls, q) == {h \in HeardOf(calls, s.day, q) : IsCounted(s, h)}
OnceEach(s, file, ofs) ==
  /\ \A day, q : day # s.day =>
       Cardinality(Stored(file, day, q, "offered")) <= Cardinality(HeardOf(ofs.heard, day, q))
  /\ \A q : LiveOf(s, s.day, q, "offered") <= Cardinality(CountedOf(s, ofs.heard, q))
MetOnce(s, file, ofs) ==
  /\ \A h \in ofs.heard : h.day = s.day => IsCounted(s, h)
  /\ \A day, q : Account(s, file, day, q, "within") <= Cardinality(HeardOf(ofs.met, day, q))
FewHeard(ofs) == Cardinality(ofs.heard) <= MaxIds
Exact(s, file, ofs, time) == InTime(s, file, ofs, time) /\ (FewHeard(ofs) => OnceEach(s, file, ofs))
MetExact(s, file, ofs) == FewHeard(ofs) => MetOnce(s, file, ofs)
SlaHolds(s, file, ofs, time) ==
  /\ Sound(s, ofs)
  /\ Never({"torn"}) => GoodFile(file)
  /\ Never({"torn", "restart"}) => NoneMissing(s, file, ofs)
  /\ Never({"torn", "failed", "setback"}) => Exact(s, file, ofs, time)
  /\ Never({"torn", "failed", "setback", "restart"}) => MetExact(s, file, ofs)
SlaInv == now \in Nat /\ SlaHolds(sla, history, offers, now)

\* Rows are added to the file: of a day and a queue, one at most.
OneRowEach(rows) ==
  /\ IsWire(rows) /\ \A i \in DOMAIN rows : GoodRow(rows[i])
  /\ \A i, j \in DOMAIN rows : rows[i].date = rows[j].date /\ rows[i].queue = rows[j].queue => i = j
LEMMA StoredOf ==
  ASSUME NEW file, NEW day, NEW q, NEW field
  PROVE  \A s : s \in Stored(file, day, q, field) <=>
           \E i \in DOMAIN file : file[i].date = day /\ file[i].queue = q /\ s \in Seconds(i, file[i][field])
BY DEF Stored, Units, Seconds

LEMMA RowsAdded ==
  ASSUME NEW file, GoodFile(file), NEW rows, OneRowEach(rows), NEW more, Appends(more, file, rows),
         NEW day, NEW q, NEW field \in Fields
  PROVE  /\ Cardinality(Stored(file, day, q, field)) \in Nat /\ IsFiniteSet(Stored(more, day, q, field))
         /\ \A i \in DOMAIN rows : rows[i].date = day /\ rows[i].queue = q =>
              Cardinality(Stored(more, day, q, field)) =
                Cardinality(Stored(file, day, q, field)) + rows[i][field]
         /\ (\A i \in DOMAIN rows : ~(rows[i].date = day /\ rows[i].queue = q)) =>
              Stored(more, day, q, field) = Stored(file, day, q, field)
<1>. DEFINE A == Stored(file, day, q, field)
            n == Len(file)
<1>1. /\ n \in Nat /\ DOMAIN file = 1..n /\ \A i \in DOMAIN file : more[i] = file[i]
      /\ \A i \in DOMAIN more \ DOMAIN file : i - n \in DOMAIN rows /\ more[i] = rows[i - n]
      /\ \A k \in DOMAIN rows : n + k \in DOMAIN more /\ more[n + k] = rows[k] /\ k \in Nat /\ k >= 1
      /\ DOMAIN file \subseteq DOMAIN more
  BY WireAppend DEF GoodFile, OneRowEach
<1>2. IsFiniteSet(A) /\ Cardinality(A) \in Nat
  BY FS_CardinalityType DEF GoodFile
<1>3. ASSUME \A i \in DOMAIN rows : ~(rows[i].date = day /\ rows[i].queue = q)
      PROVE  Stored(more, day, q, field) = A
  <2>1. \A i \in DOMAIN more : more[i].date = day /\ more[i].queue = q => i \in DOMAIN file
    BY <1>1, <1>3
  <2>2. ASSUME NEW s PROVE s \in Stored(more, day, q, field) <=> s \in A
    <3>1. s \in Stored(more, day, q, field) <=>
            \E i \in DOMAIN file : more[i].date = day /\ more[i].queue = q /\ s \in Seconds(i, more[i][field])
      BY <1>1, <2>1, StoredOf
    <3>2. s \in A <=>
            \E i \in DOMAIN file : file[i].date = day /\ file[i].queue = q /\ s \in Seconds(i, file[i][field])
      BY StoredOf
    <3> QED BY <1>1, <3>1, <3>2
  <2> QED BY <2>2
<1>4. ASSUME NEW k \in DOMAIN rows, rows[k].date = day, rows[k].queue = q
      PROVE  /\ IsFiniteSet(Stored(more, day, q, field))
             /\ Cardinality(Stored(more, day, q, field)) = Cardinality(A) + rows[k][field]
  <2>. DEFINE B == Seconds(n + k, rows[k][field])
  <2>1. ASSUME NEW i \in DOMAIN more
        PROVE  more[i].date = day /\ more[i].queue = q <=>
                 i = n + k \/ (i \in DOMAIN file /\ file[i].date = day /\ file[i].queue = q)
    <3>1. CASE i \in DOMAIN file
      BY <1>1, <1>4, <3>1
    <3>2. CASE i \notin DOMAIN file
      <4>1. i - n \in DOMAIN rows /\ more[i] = rows[i - n] /\ i = n + (i - n)
        <5>1. i \in Int
          BY WireAppend DEF GoodFile, OneRowEach
        <5> QED BY <1>1, <3>2, <5>1
      <4>2. rows[i - n].date = day /\ rows[i - n].queue = q <=> i - n = k
        BY <1>4, <4>1 DEF OneRowEach
      <4> QED BY <1>1, <3>2, <4>1, <4>2
    <3> QED BY <3>1, <3>2
  <2>2. Stored(more, day, q, field) = A \cup B
    <3>1. more[n + k] = rows[k] /\ n + k \in DOMAIN more
      BY <1>1
    <3>2. ASSUME NEW s PROVE s \in Stored(more, day, q, field) <=> s \in A \cup B
      <4>1. s \in Stored(more, day, q, field) <=>
              \E i \in DOMAIN more : /\ i = n + k \/ (i \in DOMAIN file /\ file[i].date = day /\ file[i].queue = q)
                                     /\ s \in Seconds(i, more[i][field])
        BY <2>1, StoredOf
      <4>2. s \in A <=>
              \E i \in DOMAIN file : file[i].date = day /\ file[i].queue = q /\ s \in Seconds(i, more[i][field])
        BY <1>1, StoredOf
      <4> QED BY <1>1, <3>1, <4>1, <4>2
    <3> QED BY <3>2
  <2>3. rows[k][field] \in Nat
    BY <1>4 DEF OneRowEach, GoodRow, Fields
  <2>4. IsFiniteSet(B) /\ Cardinality(B) = rows[k][field]
    BY <2>3, SecondsCount
  <2>5. A \cap B = {}
    <3>1. \A s \in A : s[1] \in DOMAIN file
      BY StoredOf DEF Seconds
    <3>2. \A s \in B : s[1] = n + k
      BY DEF Seconds
    <3>3. n + k \notin DOMAIN file
      BY <1>1
    <3> QED BY <3>1, <3>2, <3>3
  <2>. HIDE DEF A, B
  <2>6. Cardinality(A \cap B) = 0
    BY <2>5, FS_EmptySet
  <2>7. /\ IsFiniteSet(A \cup B)
        /\ Cardinality(A \cup B) = Cardinality(A) + Cardinality(B) - Cardinality(A \cap B)
    BY <1>2, <2>4, FS_Union
  <2> QED BY <1>2, <2>2, <2>3, <2>4, <2>6, <2>7
<1>5. IsFiniteSet(Stored(more, day, q, field))
  BY <1>2, <1>3, <1>4
<1> QED BY <1>2, <1>3, <1>4, <1>5

LEMMA FileGrows ==
  ASSUME NEW file, GoodFile(file), NEW rows, OneRowEach(rows), NEW more, Appends(more, file, rows)
  PROVE  GoodFile(more)
<1>1. IsWire(more)
  BY WireAppend DEF GoodFile, OneRowEach
<1>2. \A i \in DOMAIN more : GoodRow(more[i])
  <2>1. \A i \in DOMAIN more : \/ i \in DOMAIN file /\ more[i] = file[i]
                               \/ i - Len(file) \in DOMAIN rows /\ more[i] = rows[i - Len(file)]
    BY WireAppend DEF GoodFile, OneRowEach
  <2> QED BY <2>1 DEF GoodFile, OneRowEach
<1>3. \A day, q : \A field \in Fields : IsFiniteSet(Stored(more, day, q, field))
  BY RowsAdded
<1> QED BY <1>1, <1>2, <1>3 DEF GoodFile

\* The rows of a day that is closed, all or the first of them.
RowOf(day, q, counts) ==
  [date |-> day, queue |-> q, offered |-> counts.offered, within |-> counts.within]
ClosingOf(s) == [i \in DOMAIN s.order |-> RowOf(s.day, s.order[i], s.stats[s.order[i]])]
LEMMA ClosingRows ==
  ASSUME NEW s, Tracks(s), NEW rows, rows = ClosingOf(s)
  PROVE  /\ OneRowEach(rows) /\ DOMAIN rows = DOMAIN s.order
         /\ \A i \in DOMAIN rows : rows[i].date = s.day /\ rows[i].queue = s.order[i]
         /\ \A i \in DOMAIN rows : \A field \in Fields : rows[i][field] = s.stats[s.order[i]][field]
         /\ \A i \in DOMAIN s.order : s.order[i] \in DOMAIN s.stats
         /\ \A q \in DOMAIN s.stats : \E i \in DOMAIN s.order : s.order[i] = q
<1>. DEFINE n == Len(s.order)
            S == {rows[i] : i \in DOMAIN rows}
<1>1. /\ DOMAIN rows = DOMAIN s.order
      /\ \A i \in DOMAIN rows : rows[i] = RowOf(s.day, s.order[i], s.stats[s.order[i]])
  BY DEF ClosingOf
<1>0. \A day, q, counts :
        LET row == RowOf(day, q, counts)
        IN  /\ row.date = day /\ row.queue = q
            /\ row.offered = counts.offered /\ row.within = counts.within
  BY DEF RowOf
<1>2. DOMAIN s.stats = {s.order[i] : i \in DOMAIN s.order}
  BY DEF Tracks, StatsOK
<1>3. n \in Nat /\ DOMAIN s.order = 1..n
  BY Wires DEF Tracks, Distinct
<1>4. IsWire(rows)
  <2>1. rows \in [1..n -> S]
    <3>1. rows = [i \in 1..n |-> rows[i]]
      BY <1>1, <1>3 DEF ClosingOf
    <3>2. \A i \in 1..n : rows[i] \in S
      BY <1>1, <1>3
    <3>. HIDE DEF S, n
    <3> QED BY <3>1, <3>2
  <2>. HIDE DEF S, n
  <2>2. rows \in Seq(S)
    BY <1>3, <2>1, SeqDef
  <2> QED BY <2>2 DEF IsWire, S
<1>5. ASSUME NEW i \in DOMAIN rows PROVE GoodRow(rows[i])
  <2>1. s.order[i] \in DOMAIN s.stats
    BY <1>1, <1>2
  <2>2. /\ s.day \in Nat /\ s.stats[s.order[i]].offered \in Nat \ {0}
        /\ s.stats[s.order[i]].within \in Nat
    BY <2>1 DEF Tracks, StatsOK
  <2>3. Torn.offered = 0 /\ Garbage.offered = 0
    BY DEF Torn, Garbage
  <2>4. rows[i].offered = s.stats[s.order[i]].offered /\ rows[i].within = s.stats[s.order[i]].within
        /\ rows[i].date = s.day
    BY <1>0, <1>1
  <2>5. rows[i] # Torn /\ rows[i] # Garbage
    BY <2>2, <2>3, <2>4
  <2> QED BY <2>2, <2>4, <2>5 DEF GoodRow
<1>6. \A i, j \in DOMAIN rows : rows[i].date = rows[j].date /\ rows[i].queue = rows[j].queue => i = j
  BY <1>0, <1>1 DEF Tracks, Distinct
<1>7. ASSUME NEW i \in DOMAIN rows, NEW field \in Fields
      PROVE  rows[i][field] = s.stats[s.order[i]][field]
  BY <1>0, <1>1, <1>7 DEF Fields
<1>8. \A i \in DOMAIN rows : rows[i].date = s.day /\ rows[i].queue = s.order[i]
  BY <1>0, <1>1
<1> QED BY <1>1, <1>2, <1>4, <1>5, <1>6, <1>7, <1>8 DEF OneRowEach

FirstOf(rows, k, some) == k \in 0..Len(rows) /\ some = SubSeq(rows, 1, k)
LEMMA FirstRows ==
  ASSUME NEW rows, OneRowEach(rows), NEW k, NEW some, FirstOf(rows, k, some)
  PROVE  OneRowEach(some)
<1>. DEFINE S == {rows[i] : i \in DOMAIN rows}
<1>1. rows \in Seq(S) /\ Len(rows) \in Nat /\ DOMAIN rows = 1..Len(rows) /\ \A i \in 1..Len(rows) : rows[i] \in S
  BY Wires DEF IsWire, OneRowEach
<1>. HIDE DEF S
<1>2. Len(rows) \in Nat
  BY <1>1
<1>3. k \in Nat /\ k <= Len(rows) /\ 1 \in Int /\ k \in Int
  BY <1>2 DEF FirstOf
<1>4. \A i \in 1..k : rows[i] \in S /\ i \in DOMAIN rows
  BY <1>1, <1>3
<1>5. some \in Seq(S) /\ Len(some) = k /\ \A i \in 1..k : some[i] = rows[i]
  <2>1. /\ some \in Seq(S) /\ Len(some) = IF 1 <= k THEN k - 1 + 1 ELSE 0
        /\ \A i \in 1..(k - 1 + 1) : some[i] = rows[1 + i - 1]
    BY <1>1, <1>3, <1>4, SubSeqProperties DEF FirstOf
  <2>2. \A i \in 1..k : 1 + i - 1 = i
    BY <1>3
  <2>3. k - 1 + 1 = k /\ (~(1 <= k) => k = 0)
    BY <1>3
  <2> QED BY <2>1, <2>2, <2>3
<1>6. IsWire(some) /\ DOMAIN some = 1..k
  BY <1>5, OwnElements
<1> QED BY <1>4, <1>5, <1>6 DEF OneRowEach

\* The tracker of a day that begins.
LEMMA FreshTracks ==
  ASSUME NEW s, NEW ofs, Sound(s, ofs), NEW day \in Nat, NEW t, t = Fresh(day)
  PROVE  /\ Sound(t, ofs) /\ t.day = day
         /\ DOMAIN t.order = {} /\ DOMAIN t.stats = {} /\ DOMAIN t.seen = {}
<1>1. t = [day |-> day, order |-> <<>>, stats |-> <<>>, seen |-> <<>>]
  BY DEF Fresh
<1>. DEFINE none == <<>>
<1>2. IsWire(none) /\ DOMAIN none = {} /\ none = [q \in {} |-> none[q]]
  BY NoWire
<1>3. t = [day |-> day, order |-> none, stats |-> none, seen |-> none]
  BY <1>1
<1>. HIDE DEF none
<1>4. /\ Tracks(t) /\ KeysOK(t, ofs.heard) /\ t.day = day
      /\ DOMAIN t.order = {} /\ DOMAIN t.stats = {} /\ DOMAIN t.seen = {}
  <2>1. t.stats = none /\ t.order = none /\ t.seen = none /\ t.day = day
    BY <1>3
  <2>2. StatsOK(t)
    BY <1>2, <2>1 DEF StatsOK
  <2>3. Distinct(none)
    BY <1>2 DEF Distinct
  <2> QED BY <1>2, <1>3, <2>1, <2>2, <2>3 DEF Tracks, KeysOK
<1> QED BY <1>4 DEF Sound

\* A day is closed: what was counted is stored, and nothing else changes.
LEMMA RolledOver ==
  ASSUME NEW s, NEW file, NEW ofs, Sound(s, ofs), GoodFile(file), NEW more,
         Appends(more, file, ClosingOf(s)), NEW day \in Nat, NEW t, t = Fresh(day)
  PROVE  /\ Sound(t, ofs) /\ GoodFile(more)
         /\ \A d, q : \A field \in Fields : s.day # day => Account(t, more, d, q, field) = Account(s, file, d, q, field)
         /\ \A i \in DOMAIN more : (i \in DOMAIN file /\ more[i] = file[i]) \/ more[i].date = s.day
<1>. DEFINE rows == ClosingOf(s)
<1>1. /\ Tracks(s) /\ rows = ClosingOf(s) /\ OneRowEach(rows) /\ DOMAIN rows = DOMAIN s.order
      /\ \A i \in DOMAIN rows : rows[i].date = s.day /\ rows[i].queue = s.order[i]
      /\ \A i \in DOMAIN rows : \A field \in Fields : rows[i][field] = s.stats[s.order[i]][field]
      /\ \A i \in DOMAIN s.order : s.order[i] \in DOMAIN s.stats
      /\ \A q \in DOMAIN s.stats : \E i \in DOMAIN s.order : s.order[i] = q
  BY ClosingRows DEF Sound
<1>2. Appends(more, file, rows)
  OBVIOUS
<1>. HIDE DEF rows
<1>3. GoodFile(more)
  BY <1>1, <1>2, FileGrows
<1>4. \A i \in DOMAIN more : (i \in DOMAIN file /\ more[i] = file[i]) \/ more[i].date = s.day
  <2>1. \A i \in DOMAIN more : \/ i \in DOMAIN file /\ more[i] = file[i]
                               \/ i - Len(file) \in DOMAIN rows /\ more[i] = rows[i - Len(file)]
    BY <1>1, <1>2, WireAppend DEF GoodFile, OneRowEach
  <2> QED BY <1>1, <2>1
<1>5. Sound(t, ofs) /\ DOMAIN t.stats = {} /\ t.day = day
  BY FreshTracks
<1>6. ASSUME NEW d, NEW q, NEW field \in Fields, s.day # day
      PROVE  Account(t, more, d, q, field) = Account(s, file, d, q, field)
  <2>1. /\ Cardinality(Stored(file, d, q, field)) \in Nat
        /\ \A i \in DOMAIN rows : rows[i].date = d /\ rows[i].queue = q =>
             Cardinality(Stored(more, d, q, field)) = Cardinality(Stored(file, d, q, field)) + rows[i][field]
        /\ (\A i \in DOMAIN rows : ~(rows[i].date = d /\ rows[i].queue = q)) =>
             Stored(more, d, q, field) = Stored(file, d, q, field)
    BY <1>1, <1>2, RowsAdded
  <2>2. LiveOf(t, d, q, field) = 0
    BY <1>5 DEF LiveOf
  <2>3. CASE s.day = d /\ q \in DOMAIN s.stats
    <3>1. PICK i \in DOMAIN rows : s.order[i] = q
      BY <1>1, <2>3
    <3>2. LiveOf(s, d, q, field) = s.stats[q][field] /\ rows[i][field] = s.stats[q][field]
          /\ rows[i].date = d /\ rows[i].queue = q
      BY <1>1, <2>3, <3>1 DEF LiveOf
    <3>3. s.stats[q][field] \in Nat
      BY <1>1, <2>3 DEF Tracks, StatsOK, Fields
    <3> QED BY <2>1, <2>2, <3>2, <3>3 DEF Account
  <2>4. CASE ~(s.day = d /\ q \in DOMAIN s.stats)
    <3>1. LiveOf(s, d, q, field) = 0
      BY <2>4 DEF LiveOf
    <3>2. \A i \in DOMAIN rows : ~(rows[i].date = d /\ rows[i].queue = q)
      BY <1>1, <2>4
    <3> QED BY <2>1, <2>2, <3>1, <3>2 DEF Account
  <2> QED BY <2>3, <2>4
<1> QED BY <1>3, <1>4, <1>5, <1>6 DEF Sound

\* A sequence without repetitions, one more element of it, one less.
LEMMA DistinctAdded ==
  ASSUME NEW seq, Distinct(seq), NEW x, \A i \in DOMAIN seq : seq[i] # x, NEW more, Adds(seq, x, more)
  PROVE  /\ Distinct(more) /\ \A i \in DOMAIN more : more[i] = x \/ \E j \in DOMAIN seq : more[i] = seq[j]
         /\ \A j \in DOMAIN seq : \E i \in DOMAIN more : more[i] = seq[j]
         /\ \E i \in DOMAIN more : more[i] = x
<1>1. /\ IsWire(more) /\ Len(seq) \in Nat /\ DOMAIN seq = 1..Len(seq) /\ DOMAIN more = 1..(Len(seq) + 1)
      /\ more[Len(seq) + 1] = x /\ \A i \in DOMAIN seq : more[i] = seq[i]
  BY OneAdded DEF Distinct
<1>2. \A i \in DOMAIN more : i \in DOMAIN seq \/ i = Len(seq) + 1
  BY <1>1
<1>3. DOMAIN seq \subseteq DOMAIN more /\ Len(seq) + 1 \in DOMAIN more
  BY <1>1
<1> QED BY <1>1, <1>2, <1>3 DEF Distinct

LEMMA DistinctRest ==
  ASSUME NEW seq, Distinct(seq), NEW one, one = 1, NEW rest, DropsFront(seq, one, rest)
  PROVE  Distinct(rest) /\ \A i \in DOMAIN rest : \E j \in DOMAIN seq : rest[i] = seq[j]
<1>1. /\ IsWire(rest) /\ Len(seq) \in Nat /\ DOMAIN seq = 1..Len(seq)
      /\ DOMAIN rest = 1..(Len(seq) - one) /\ \A k \in DOMAIN rest : rest[k] = seq[k + one]
  BY FrontGone DEF Distinct
<1>2. \A k \in DOMAIN rest : k \in Int /\ k + one \in DOMAIN seq
  BY <1>1
<1>3. ASSUME NEW i \in DOMAIN rest, NEW j \in DOMAIN rest, rest[i] = rest[j] PROVE i = j
  <2>1. i + one = j + one
    BY <1>1, <1>2, <1>3 DEF Distinct
  <2> QED BY <1>2, <2>1
<1> QED BY <1>1, <1>2, <1>3 DEF Distinct

\* A call's key is remembered; only when they are too many one is forgotten.
LEMMA KeyRemembered ==
  ASSUME NEW seq, Distinct(seq), NEW key, \A i \in DOMAIN seq : seq[i] # key,
         NEW more, more = Remember(seq, key)
  PROVE  /\ Distinct(more) /\ \A i \in DOMAIN more : more[i] = key \/ \E j \in DOMAIN seq : more[i] = seq[j]
         /\ \E i \in DOMAIN more : more[i] = key
         /\ Len(seq) \in Nat /\ (Len(seq) < MaxIds => \A j \in DOMAIN seq : \E i \in DOMAIN more : more[i] = seq[j])
<1>1. Len(seq) \in Nat
  BY Wires DEF Distinct
<1>2. CASE ~(Len(seq) >= MaxIds)
  <2>1. Adds(seq, key, more)
    BY <1>2 DEF Remember, Adds
  <2> QED BY <1>1, <2>1, DistinctAdded
<1>3. CASE Len(seq) >= MaxIds
  <2>. DEFINE one == 1
              rest == SubSeq(seq, one + 1, Len(seq))
  <2>1. Len(seq) >= 1
    BY <1>1, <1>3, SlaAssumption
  <2>2. rest = Tail(seq)
    <3>. DEFINE S == {seq[i] : i \in DOMAIN seq}
    <3>1. seq \in Seq(S)
      BY DEF Distinct, IsWire
    <3>2. seq # <<>>
      BY <2>1, EmptySeq
    <3>. HIDE DEF S
    <3>3. Tail(seq) = SubSeq(seq, 2, Len(seq))
      BY <3>1, <3>2, TailIsSubSeq
    <3> QED BY <3>3
  <2>3. more = Append(rest, key)
    BY <1>3, <2>2 DEF Remember
  <2>4. DropsFront(seq, one, rest) /\ one = 1
    BY <1>1, <2>1 DEF DropsFront
  <2>. HIDE DEF one, rest
  <2>5. Distinct(rest) /\ \A i \in DOMAIN rest : \E j \in DOMAIN seq : rest[i] = seq[j]
    BY <2>4, DistinctRest
  <2>6. Adds(rest, key, more)
    BY <2>3 DEF Adds
  <2>7. /\ Distinct(more) /\ \A i \in DOMAIN more : more[i] = key \/ \E j \in DOMAIN rest : more[i] = rest[j]
        /\ \E i \in DOMAIN more : more[i] = key
    BY <2>5, <2>6, DistinctAdded
  <2>8. ~(Len(seq) < MaxIds)
    BY <1>1, <1>3, SlaAssumption
  <2> QED BY <1>1, <2>5, <2>7, <2>8
<1> QED BY <1>2, <1>3

\* _record: the row of the queue grows by one call.
One(q, e, field) == IF q = e.queue /\ (field = "offered" \/ Met(e)) THEN 1 ELSE 0
LEMMA Recorded ==
  ASSUME NEW s, Tracks(s), NEW e, NEW t, t = Record(s, e)
  PROVE  /\ Tracks(t) /\ t.day = s.day /\ t.seen = s.seen
         /\ \A q : \A field \in Fields : LiveOf(t, s.day, q, field) = LiveOf(s, s.day, q, field) + One(q, e, field)
         /\ \A day, q : \A field \in Fields : day # s.day => LiveOf(t, day, q, field) = LiveOf(s, day, q, field)
<1>. DEFINE known == e.queue \in DOMAIN s.stats
            old == IF known THEN s.stats[e.queue] ELSE [offered |-> 0, within |-> 0]
            new == [offered |-> old.offered + 1, within |-> old.within + IF Met(e) THEN 1 ELSE 0]
            order == IF known THEN s.order ELSE Append(s.order, e.queue)
            stats == [q \in DOMAIN s.stats \cup {e.queue} |-> IF q = e.queue THEN new ELSE s.stats[q]]
<1>1. s = [day |-> s.day, order |-> s.order, stats |-> s.stats, seen |-> s.seen]
  BY DEF Tracks
<1>2. t = [day |-> s.day, order |-> order, stats |-> stats, seen |-> s.seen]
  BY <1>1 DEF Record
<1>3. DOMAIN s.stats = {s.order[i] : i \in DOMAIN s.order} /\ Distinct(s.order)
  BY DEF Tracks, StatsOK
<1>4. old.offered \in Nat /\ old.within \in Nat
  BY DEF Tracks, StatsOK
<1>5. new = [offered |-> new.offered, within |-> new.within] /\ new.offered \in Nat \ {0} /\ new.within \in Nat
  BY <1>4
<1>6. /\ DOMAIN stats = DOMAIN s.stats \cup {e.queue} /\ stats[e.queue] = new
      /\ \A q \in DOMAIN s.stats \ {e.queue} : stats[q] = s.stats[q]
      /\ stats = [q \in DOMAIN stats |-> stats[q]]
  OBVIOUS
<1>7. Distinct(order) /\ {order[i] : i \in DOMAIN order} = DOMAIN s.stats \cup {e.queue}
  <2>1. CASE known
    BY <1>3, <2>1
  <2>2. CASE ~known
    <3>1. Adds(s.order, e.queue, order) /\ \A i \in DOMAIN s.order : s.order[i] # e.queue
      BY <1>3, <2>2 DEF Adds
    <3>. HIDE DEF order
    <3>2. /\ Distinct(order) /\ \A i \in DOMAIN order : order[i] = e.queue \/ \E j \in DOMAIN s.order : order[i] = s.order[j]
          /\ \A j \in DOMAIN s.order : \E i \in DOMAIN order : order[i] = s.order[j]
          /\ \E i \in DOMAIN order : order[i] = e.queue
      BY <1>3, <3>1, DistinctAdded
    <3> QED BY <1>3, <3>2
  <2> QED BY <2>1, <2>2
<1>8. \A field \in Fields :
        new[field] = (IF known THEN s.stats[e.queue][field] ELSE 0) + IF field = "offered" \/ Met(e) THEN 1 ELSE 0
  <2>1. new.offered = (IF known THEN s.stats[e.queue].offered ELSE 0) + 1
    OBVIOUS
  <2>2. new.within = (IF known THEN s.stats[e.queue].within ELSE 0) + IF Met(e) THEN 1 ELSE 0
    OBVIOUS
  <2>. HIDE DEF new
  <2> QED BY <2>1, <2>2 DEF Fields
<1>9. \A q \in DOMAIN s.stats : /\ s.stats[q] = [offered |-> s.stats[q].offered, within |-> s.stats[q].within]
                                /\ s.stats[q].offered \in Nat \ {0} /\ s.stats[q].within \in Nat
  BY DEF Tracks, StatsOK
<1>. HIDE DEF old, new, order, stats
<1>10. t.day = s.day /\ t.order = order /\ t.stats = stats /\ t.seen = s.seen
  BY <1>2
<1>11. Tracks(t)
  <2>1. StatsOK(t)
    <3>1. t.stats = [q \in {t.order[i] : i \in DOMAIN t.order} |-> t.stats[q]]
      BY <1>6, <1>7, <1>10
    <3>2. ASSUME NEW q \in DOMAIN t.stats
          PROVE  /\ t.stats[q] = [offered |-> t.stats[q].offered, within |-> t.stats[q].within]
                 /\ t.stats[q].offered \in Nat \ {0} /\ t.stats[q].within \in Nat
      <4>1. CASE q = e.queue
        <5>1. t.stats[q] = new
          BY <1>6, <1>10, <4>1
        <5> QED BY <1>5, <5>1
      <4>2. CASE q # e.queue
        <5>1. q \in DOMAIN s.stats /\ t.stats[q] = s.stats[q]
          BY <1>6, <1>10, <4>2
        <5> QED BY <1>9, <5>1
      <4> QED BY <4>1, <4>2
    <3> QED BY <3>1, <3>2 DEF StatsOK
  <2>2. t = [day |-> t.day, order |-> t.order, stats |-> t.stats, seen |-> t.seen]
    BY <1>2, <1>10
  <2> QED BY <1>7, <1>10, <2>1, <2>2 DEF Tracks
<1>12. ASSUME NEW q, NEW field \in Fields
       PROVE  LiveOf(t, s.day, q, field) = LiveOf(s, s.day, q, field) + One(q, e, field)
  <2>1. CASE q = e.queue
    <3>1. LiveOf(t, s.day, q, field) = new[field]
      BY <1>6, <1>10, <2>1 DEF LiveOf
    <3>2. LiveOf(s, s.day, q, field) = IF known THEN s.stats[e.queue][field] ELSE 0
      BY <2>1 DEF LiveOf
    <3> QED BY <1>8, <2>1, <3>1, <3>2 DEF One
  <2>2. CASE q # e.queue
    <3>1. LiveOf(t, s.day, q, field) = LiveOf(s, s.day, q, field)
      BY <1>6, <1>10, <2>2 DEF LiveOf
    <3>2. LiveOf(s, s.day, q, field) \in Nat
      BY <1>9 DEF LiveOf, Fields
    <3> QED BY <2>2, <3>1, <3>2 DEF One
  <2> QED BY <2>1, <2>2
<1>13. \A day, q : \A field \in Fields : day # s.day => LiveOf(t, day, q, field) = LiveOf(s, day, q, field)
  BY <1>10 DEF LiveOf
<1> QED BY <1>10, <1>11, <1>12, <1>13

\* apply_event: a call that is remembered is not counted again.
LEMMA Recording ==
  ASSUME NEW s, Tracks(s), NEW e, NEW t, t = CountedOnce(s, e)
  PROVE  \/ e.id # NoUniqueid /\ IsSeen(s, Key(e)) /\ t = s
         \/ /\ Tracks(t) /\ t.day = s.day
            /\ \A q : \A field \in Fields : LiveOf(t, s.day, q, field) = LiveOf(s, s.day, q, field) + One(q, e, field)
            /\ \A day, q : \A field \in Fields : day # s.day => LiveOf(t, day, q, field) = LiveOf(s, day, q, field)
            /\ e.id = NoUniqueid => t.seen = s.seen
            /\ e.id # NoUniqueid =>
                 /\ ~IsSeen(s, Key(e)) /\ IsSeen(t, Key(e)) /\ Len(s.seen) \in Nat
                 /\ \A i \in DOMAIN t.seen : t.seen[i] = Key(e) \/ \E j \in DOMAIN s.seen : t.seen[i] = s.seen[j]
                 /\ Len(s.seen) < MaxIds => \A key : IsSeen(s, key) => IsSeen(t, key)
<1>. DEFINE r == Record(s, e)
            m == Remember(s.seen, Key(e))
<1>1. /\ Tracks(r) /\ r.day = s.day /\ r.seen = s.seen
      /\ \A q : \A field \in Fields : LiveOf(r, s.day, q, field) = LiveOf(s, s.day, q, field) + One(q, e, field)
      /\ \A day, q : \A field \in Fields : day # s.day => LiveOf(r, day, q, field) = LiveOf(s, day, q, field)
  BY Recorded
<1>2. t = IF e.id = NoUniqueid THEN r
          ELSE IF \E i \in DOMAIN s.seen : s.seen[i] = Key(e) THEN s
          ELSE [r EXCEPT !.seen = m]
  BY <1>1 DEF CountedOnce
<1>. HIDE DEF r
<1>3. CASE e.id = NoUniqueid
  BY <1>1, <1>2, <1>3
<1>4. CASE e.id # NoUniqueid /\ IsSeen(s, Key(e))
  BY <1>2, <1>4 DEF IsSeen
<1>5. CASE e.id # NoUniqueid /\ ~IsSeen(s, Key(e))
  <2>1. m = Remember(s.seen, Key(e)) /\ Distinct(s.seen) /\ \A i \in DOMAIN s.seen : s.seen[i] # Key(e)
    BY <1>5 DEF IsSeen, Tracks
  <2>2. t = [r EXCEPT !.seen = m]
    BY <1>2, <1>5 DEF IsSeen
  <2>. HIDE DEF m
  <2>3. /\ Distinct(m) /\ \A i \in DOMAIN m : m[i] = Key(e) \/ \E j \in DOMAIN s.seen : m[i] = s.seen[j]
        /\ \E i \in DOMAIN m : m[i] = Key(e)
        /\ Len(s.seen) \in Nat /\ (Len(s.seen) < MaxIds => \A j \in DOMAIN s.seen : \E i \in DOMAIN m : m[i] = s.seen[j])
    BY <2>1, KeyRemembered
  <2>4. r = [day |-> r.day, order |-> r.order, stats |-> r.stats, seen |-> r.seen]
    BY <1>1 DEF Tracks
  <2>5. t = [day |-> r.day, order |-> r.order, stats |-> r.stats, seen |-> m]
    BY <2>2, <2>4
  <2>6. t.day = r.day /\ t.order = r.order /\ t.stats = r.stats /\ t.seen = m
    BY <2>5
  <2>7. Tracks(t)
    BY <1>1, <2>3, <2>5, <2>6 DEF Tracks, StatsOK
  <2>8. \A day, q, field : LiveOf(t, day, q, field) = LiveOf(r, day, q, field)
    BY <2>6 DEF LiveOf
  <2>9. IsSeen(t, Key(e)) /\ (Len(s.seen) < MaxIds => \A key : IsSeen(s, key) => IsSeen(t, key))
    BY <2>3, <2>6 DEF IsSeen
  <2> QED BY <1>1, <1>5, <2>3, <2>6, <2>7, <2>8, <2>9
<1> QED BY <1>3, <1>4, <1>5

\* A call is heard of.
OfferOf(ofs, day, e) ==
  [day |-> day, queue |-> e.queue,
   id |-> IF e.id = NoUniqueid THEN <<e.id, Cardinality(ofs.heard)>> ELSE <<e.id>>]
WithOffer(ofs, h, e) ==
  [told |-> ofs.told, heard |-> ofs.heard \cup {h},
   met |-> IF Met(e) /\ h \notin ofs.heard THEN ofs.met \cup {h} ELSE ofs.met]
LEMMA OneMore ==
  ASSUME NEW A, IsFiniteSet(A), NEW h, NEW day, NEW q
  PROVE  /\ Cardinality(HeardOf(A, day, q)) \in Nat /\ IsFiniteSet(HeardOf(A, day, q))
         /\ Cardinality(HeardOf(A \cup {h}, day, q)) =
              Cardinality(HeardOf(A, day, q))
                + IF h \notin A /\ h.day = day /\ h.queue = q THEN 1 ELSE 0
<1>. DEFINE B == HeardOf(A, day, q)
<1>1. B \in SUBSET A /\ (h \in B <=> h \in A /\ h.day = day /\ h.queue = q)
  BY DEF HeardOf
<1>2. HeardOf(A \cup {h}, day, q) = IF h.day = day /\ h.queue = q THEN B \cup {h} ELSE B
  BY DEF HeardOf
<1>. HIDE DEF B
<1>3. IsFiniteSet(B)
  BY <1>1, FS_Subset
<1>4. Cardinality(B) \in Nat
  BY <1>3, FS_CardinalityType
<1>5. Cardinality(B \cup {h}) = IF h \in B THEN Cardinality(B) ELSE Cardinality(B) + 1
  BY <1>3, FS_AddElement
<1> QED BY <1>1, <1>2, <1>3, <1>4, <1>5 DEF B

LEMMA OfferHeard ==
  ASSUME NEW ofs, OffersOK(ofs), NEW day \in Nat, NEW e, NEW h, h = OfferOf(ofs, day, e),
         NEW ofs2, ofs2 = WithOffer(ofs, h, e)
  PROVE  /\ OffersOK(ofs2) /\ ofs2.heard = ofs.heard \cup {h}
         /\ h.day = day /\ h.queue = e.queue /\ h.id[1] = e.id /\ (Nameless(h) <=> e.id = NoUniqueid)
         /\ e.id # NoUniqueid => h = Named(day, Key(e))
         /\ e.id = NoUniqueid => h \notin ofs.heard
         /\ h \in ofs.heard => ofs2 = ofs
         /\ Cardinality(ofs.heard) \in Nat
         /\ Cardinality(ofs2.heard) = Cardinality(ofs.heard) + IF h \in ofs.heard THEN 0 ELSE 1
<1>1. /\ ofs = [told |-> ofs.told, heard |-> ofs.heard, met |-> ofs.met]
      /\ IsFiniteSet(ofs.heard) /\ ofs.met \subseteq ofs.heard
      /\ \A x \in ofs.heard : OfferOK(x, Cardinality(ofs.heard))
  BY DEF OffersOK
<1>2. Cardinality(ofs.heard) \in Nat
  BY <1>1, FS_CardinalityType
<1>. DEFINE n == Cardinality(ofs.heard)
<1>3. /\ h = [day |-> h.day, queue |-> h.queue, id |-> h.id] /\ h.day = day /\ h.queue = e.queue
      /\ e.id = NoUniqueid => h.id = <<e.id, n>> /\ h.id[1] = e.id /\ h.id[2] = n
      /\ e.id # NoUniqueid => h.id = <<e.id>> /\ h.id[1] = e.id
  BY DEF OfferOf
<1>4. Nameless(h) <=> e.id = NoUniqueid
  BY <1>3 DEF Nameless
<1>5. e.id # NoUniqueid => h = Named(day, Key(e))
  BY <1>3 DEF Named, Key
<1>6. ASSUME e.id = NoUniqueid, h \in ofs.heard PROVE FALSE
  <2>1. OfferOK(h, n)
    BY <1>1, <1>6
  <2>2. h.id[2] < n
    BY <1>4, <1>6, <2>1 DEF OfferOK
  <2> QED BY <1>2, <1>3, <1>6, <2>2
<1>7. /\ ofs2.heard = ofs.heard \cup {h} /\ ofs2.told = ofs.told
      /\ ofs2.met = IF Met(e) /\ h \notin ofs.heard THEN ofs.met \cup {h} ELSE ofs.met
      /\ ofs2 = [told |-> ofs2.told, heard |-> ofs2.heard, met |-> ofs2.met]
  BY DEF WithOffer
<1>8. h \in ofs.heard => ofs2 = ofs
  <2>1. ASSUME h \in ofs.heard PROVE ofs2 = ofs
    <3>1. ofs2.heard = ofs.heard /\ ofs2.met = ofs.met
      BY <1>7, <2>1
    <3> QED BY <1>1, <1>7, <3>1
  <2> QED BY <2>1
<1>9. /\ IsFiniteSet(ofs2.heard)
      /\ Cardinality(ofs2.heard) = n + IF h \in ofs.heard THEN 0 ELSE 1
  BY <1>1, <1>2, <1>7, FS_AddElement
<1>. HIDE DEF n
<1>10. OffersOK(ofs2)
  <2>1. CASE h \in ofs.heard
    BY <1>8, <2>1
  <2>2. CASE h \notin ofs.heard
    <3>1. Cardinality(ofs2.heard) = n + 1 /\ n \in Nat
      BY <1>2, <1>9, <2>2 DEF n
    <3>2. ASSUME NEW x \in ofs.heard PROVE OfferOK(x, n + 1)
      <4>1. OfferOK(x, n)
        BY <1>1 DEF n
      <4> QED BY <3>1, <4>1 DEF OfferOK
    <3>3. OfferOK(h, n + 1)
      <4>1. CASE e.id = NoUniqueid
        <5>1. h.id = <<h.id[1], h.id[2]>> /\ Nameless(h) /\ h.id[2] \in Nat /\ h.id[2] < n + 1
          BY <1>3, <1>4, <3>1, <4>1
        <5> QED BY <1>3, <5>1 DEF OfferOK
      <4>2. CASE e.id # NoUniqueid
        <5>1. h.id = <<h.id[1]>> /\ ~Nameless(h)
          BY <1>3, <1>4, <4>2
        <5> QED BY <1>3, <5>1 DEF OfferOK
      <4> QED BY <4>1, <4>2
    <3>4. ofs2.met \subseteq ofs2.heard
      BY <1>1, <1>7
    <3>5. \A x \in ofs2.heard : OfferOK(x, Cardinality(ofs2.heard))
      BY <1>7, <3>1, <3>2, <3>3
    <3> QED BY <1>7, <1>9, <3>4, <3>5 DEF OffersOK
  <2> QED BY <2>1, <2>2
<1> QED BY <1>2, <1>3, <1>4, <1>5, <1>6, <1>7, <1>8, <1>9, <1>10 DEF n

\* While few calls were heard of none is forgotten.
LEMMA RoomForKey ==
  ASSUME NEW s, NEW ofs, Sound(s, ofs), NEW key, ~IsSeen(s, key), key = <<key[1], key[2]>>,
         NEW ofs2, IsFiniteSet(ofs2.heard), ofs2.heard = ofs.heard \cup {Named(s.day, key)}, FewHeard(ofs2)
  PROVE  Len(s.seen) \in Nat /\ Len(s.seen) < MaxIds
<1>. DEFINE n == Len(s.seen)
            f == [i \in 1..(n + 1) |-> IF i = n + 1 THEN Named(s.day, key) ELSE Named(s.day, s.seen[i])]
<1>1. n \in Nat /\ DOMAIN s.seen = 1..n
  BY Wires DEF Sound, Tracks, Distinct
<1>2. \A i \in DOMAIN s.seen : s.seen[i] = <<s.seen[i][1], s.seen[i][2]>> /\ Named(s.day, s.seen[i]) \in ofs.heard
  BY DEF Sound, KeysOK, IsKey
<1>3. \A a, b : a = <<a[1], a[2]>> /\ b = <<b[1], b[2]>> /\ Named(s.day, a) = Named(s.day, b) => a = b
  <2>1. ASSUME NEW a, NEW b, a = <<a[1], a[2]>>, b = <<b[1], b[2]>>, Named(s.day, a) = Named(s.day, b)
        PROVE  a = b
    <3>1. a[1] = b[1]
      BY <2>1 DEF Named
    <3>2. <<a[2]>> = <<b[2]>>
      BY <2>1 DEF Named
    <3>3. a[2] = b[2]
      BY <3>2
    <3>4. \A x, y : <<x, y>> = <<x, y>>
      OBVIOUS
    <3> QED BY <2>1, <3>1, <3>3
  <2> QED BY <2>1
<1>4. f \in Injection(1..(n + 1), ofs2.heard)
  <2>1. \A i \in 1..(n + 1) : i = n + 1 \/ i \in DOMAIN s.seen
    BY <1>1
  <2>2. f \in [1..(n + 1) -> ofs2.heard]
    BY <1>2, <2>1
  <2>3. ASSUME NEW i \in 1..(n + 1), NEW j \in 1..(n + 1), f[i] = f[j] PROVE i = j
    <3>1. CASE i \in DOMAIN s.seen /\ j \in DOMAIN s.seen
      <4>1. i # n + 1 /\ j # n + 1
        BY <1>1, <3>1
      <4>2. s.seen[i] = s.seen[j]
        BY <1>2, <1>3, <2>3, <3>1, <4>1
      <4> QED BY <3>1, <4>2 DEF Sound, Tracks, Distinct
    <3>2. CASE i = n + 1 /\ j \in DOMAIN s.seen
      <4>1. j # n + 1
        BY <1>1, <3>2
      <4>2. s.seen[j] = key
        BY <1>2, <1>3, <2>3, <3>2, <4>1
      <4> QED BY <3>2, <4>2 DEF IsSeen
    <3>3. CASE i \in DOMAIN s.seen /\ j = n + 1
      <4>1. i # n + 1
        BY <1>1, <3>3
      <4>2. s.seen[i] = key
        BY <1>2, <1>3, <2>3, <3>3, <4>1
      <4> QED BY <3>3, <4>2 DEF IsSeen
    <3> QED BY <2>1, <3>1, <3>2, <3>3
  <2>. HIDE DEF f
  <2> QED BY <2>2, <2>3 DEF Injection, IsInjective
<1>. HIDE DEF f, n
<1>5. Cardinality(1..(n + 1)) <= Cardinality(ofs2.heard)
  BY <1>4, FS_Injection
<1>6. Cardinality(1..(n + 1)) = n + 1
  <2>. DEFINE m == n + 1
  <2>1. m \in Int /\ m >= 1 /\ 1 \in Int
    BY <1>1
  <2>. HIDE DEF m
  <2>2. IsFiniteSet(1..m) /\ Cardinality(1..m) = IF 1 > m THEN 0 ELSE m - 1 + 1
    BY <2>1, FS_Interval
  <2>3. Cardinality(1..m) = m
    BY <2>1, <2>2
  <2> QED BY <2>3 DEF m
<1>7. Cardinality(ofs2.heard) \in Nat
  BY FS_CardinalityType
<1> QED BY <1>1, <1>5, <1>6, <1>7, SlaAssumption DEF FewHeard, n

\* A call that is counted: tracker, calls heard of, and the call.
LiveGrows(s, e, t) ==
  /\ \A q : \A field \in Fields : LiveOf(t, s.day, q, field) = LiveOf(s, s.day, q, field) + One(q, e, field)
  /\ \A day, q : \A field \in Fields : day # s.day => LiveOf(t, day, q, field) = LiveOf(s, day, q, field)
SeenGrows(s, e, t) ==
  /\ e.id = NoUniqueid => t.seen = s.seen
  /\ e.id # NoUniqueid =>
       /\ ~IsSeen(s, Key(e)) /\ IsSeen(t, Key(e)) /\ Len(s.seen) \in Nat
       /\ \A i \in DOMAIN t.seen : t.seen[i] = Key(e) \/ \E j \in DOMAIN s.seen : t.seen[i] = s.seen[j]
       /\ Len(s.seen) < MaxIds => \A key : IsSeen(s, key) => IsSeen(t, key)
IsOffer(h, day, e, ofs) ==
  /\ h.day = day /\ h.queue = e.queue /\ h.id[1] = e.id /\ (Nameless(h) <=> e.id = NoUniqueid)
  /\ e.id # NoUniqueid => h = Named(day, Key(e))
  /\ e.id = NoUniqueid => h \notin ofs.heard
NewCall(s, ofs, e, t, h, ofs2) ==
  /\ Sound(s, ofs) /\ Tracks(t) /\ t.day = s.day /\ LiveGrows(s, e, t) /\ SeenGrows(s, e, t)
  /\ IsOffer(h, s.day, e, ofs) /\ OffersOK(ofs2) /\ ofs2 = WithOffer(ofs, h, e)

LEMMA NewSound ==
  ASSUME NEW s, NEW ofs, NEW e, NEW t, NEW h, NEW ofs2, NewCall(s, ofs, e, t, h, ofs2)
  PROVE  Sound(t, ofs2)
<1>1. ofs2.heard = ofs.heard \cup {h} /\ t.day = s.day
  BY DEF NewCall, WithOffer
<1>2. \A i \in DOMAIN s.seen : IsKey(s.seen[i], t.day, ofs2.heard)
  BY <1>1 DEF NewCall, Sound, KeysOK, IsKey
<1>3. CASE e.id = NoUniqueid
  BY <1>2, <1>3 DEF NewCall, SeenGrows, Sound, KeysOK
<1>4. CASE e.id # NoUniqueid
  <2>1. IsKey(Key(e), t.day, ofs2.heard)
    BY <1>1, <1>4 DEF NewCall, IsOffer, IsKey, Key
  <2> QED BY <1>2, <1>4, <2>1 DEF NewCall, SeenGrows, Sound, KeysOK
<1> QED BY <1>3, <1>4

\* What is heard of, and what is counted, of a queue and a day.
HeardGrows(s, ofs, e, h, ofs2, day, q) ==
  /\ Cardinality(HeardOf(ofs.heard, day, q)) \in Nat /\ Cardinality(HeardOf(ofs.met, day, q)) \in Nat
  /\ Cardinality(HeardOf(ofs2.heard, day, q)) = Cardinality(HeardOf(ofs.heard, day, q))
       + IF h \notin ofs.heard /\ day = s.day /\ q = e.queue THEN 1 ELSE 0
  /\ Cardinality(HeardOf(ofs2.met, day, q)) = Cardinality(HeardOf(ofs.met, day, q))
       + IF Met(e) /\ h \notin ofs.heard /\ day = s.day /\ q = e.queue THEN 1 ELSE 0
LEMMA NewHeard ==
  ASSUME NEW s, NEW ofs, NEW e, NEW t, NEW h, NEW ofs2, NewCall(s, ofs, e, t, h, ofs2), NEW day, NEW q
  PROVE  HeardGrows(s, ofs, e, h, ofs2, day, q)
<1>1. /\ IsFiniteSet(ofs.heard) /\ ofs.met \subseteq ofs.heard /\ h.day = s.day /\ h.queue = e.queue
      /\ ofs2.heard = ofs.heard \cup {h}
      /\ ofs2.met = IF Met(e) /\ h \notin ofs.heard THEN ofs.met \cup {h} ELSE ofs.met
  BY DEF NewCall, Sound, OffersOK, IsOffer, WithOffer
<1>2. IsFiniteSet(ofs.met) /\ (h \notin ofs.heard => h \notin ofs.met)
  BY <1>1, FS_Subset
<1>. DEFINE A == ofs.heard
            B == ofs.met
<1>. HIDE DEF A, B
<1>3. /\ Cardinality(HeardOf(A, day, q)) \in Nat
      /\ Cardinality(HeardOf(A \cup {h}, day, q)) =
           Cardinality(HeardOf(A, day, q)) + IF h \notin A /\ h.day = day /\ h.queue = q THEN 1 ELSE 0
  <2>1. IsFiniteSet(A)
    BY <1>1 DEF A
  <2> QED BY <2>1, OneMore
<1>4. /\ Cardinality(HeardOf(B, day, q)) \in Nat
      /\ Cardinality(HeardOf(B \cup {h}, day, q)) =
           Cardinality(HeardOf(B, day, q)) + IF h \notin B /\ h.day = day /\ h.queue = q THEN 1 ELSE 0
  <2>1. IsFiniteSet(B)
    BY <1>2 DEF B
  <2> QED BY <2>1, OneMore
<1>5. Cardinality(HeardOf(ofs2.heard, day, q)) = Cardinality(HeardOf(A, day, q))
        + IF h \notin A /\ day = s.day /\ q = e.queue THEN 1 ELSE 0
  BY <1>1, <1>3 DEF A
<1>6. Cardinality(HeardOf(ofs2.met, day, q)) = Cardinality(HeardOf(B, day, q))
        + IF Met(e) /\ h \notin A /\ day = s.day /\ q = e.queue THEN 1 ELSE 0
  <2>1. CASE Met(e) /\ h \notin A
    <3>1. ofs2.met = B \cup {h} /\ h \notin B
      BY <1>1, <1>2, <2>1 DEF A, B
    <3> QED BY <1>1, <1>4, <2>1, <3>1
  <2>2. CASE ~(Met(e) /\ h \notin A)
    <3>1. ofs2.met = B
      BY <1>1, <2>2 DEF A, B
    <3> QED BY <1>4, <2>2, <3>1
  <2> QED BY <2>1, <2>2
<1> QED BY <1>3, <1>4, <1>5, <1>6 DEF A, B, HeardGrows

LEMMA NewAccount ==
  ASSUME NEW s, NEW ofs, NEW e, NEW t, NEW h, NEW ofs2, NewCall(s, ofs, e, t, h, ofs2),
         NEW file, GoodFile(file), NEW day, NEW q, NEW field \in Fields
  PROVE  /\ Account(s, file, day, q, field) \in Nat
         /\ Account(t, file, day, q, field) = Account(s, file, day, q, field)
              + IF day = s.day /\ q = e.queue /\ (field = "offered" \/ Met(e)) THEN 1 ELSE 0
<1>1. Cardinality(Stored(file, day, q, field)) \in Nat
  BY FS_CardinalityType DEF GoodFile
<1>2. LiveOf(s, day, q, field) \in Nat
  BY DEF NewCall, Sound, Tracks, StatsOK, LiveOf, Fields
<1>3. CASE day = s.day
  <2>1. LiveOf(t, day, q, field) = LiveOf(s, day, q, field) + One(q, e, field)
    BY <1>3 DEF NewCall, LiveGrows
  <2> QED BY <1>1, <1>2, <1>3, <2>1 DEF Account, One
<1>4. CASE day # s.day
  <2>1. LiveOf(t, day, q, field) = LiveOf(s, day, q, field)
    BY <1>4 DEF NewCall, LiveGrows
  <2> QED BY <1>1, <1>2, <1>4, <2>1 DEF Account
<1> QED BY <1>3, <1>4

LEMMA NewNoneMissing ==
  ASSUME NEW s, NEW ofs, NEW e, NEW t, NEW h, NEW ofs2, NewCall(s, ofs, e, t, h, ofs2),
         NEW file, GoodFile(file), NoneMissing(s, file, ofs)
  PROVE  NoneMissing(t, file, ofs2)
<1>1. "offered" \in Fields /\ "within" \in Fields
  BY DEF Fields
<1>2. ASSUME NEW day, NEW q
      PROVE  /\ Account(t, file, day, q, "offered") >= Cardinality(HeardOf(ofs2.heard, day, q))
             /\ Account(t, file, day, q, "within") >= Cardinality(HeardOf(ofs2.met, day, q))
  <2>1. /\ Account(s, file, day, q, "offered") \in Nat
        /\ Account(t, file, day, q, "offered") = Account(s, file, day, q, "offered")
             + IF day = s.day /\ q = e.queue THEN 1 ELSE 0
    BY <1>1, NewAccount
  <2>2. /\ Account(s, file, day, q, "within") \in Nat
        /\ Account(t, file, day, q, "within") = Account(s, file, day, q, "within")
             + IF day = s.day /\ q = e.queue /\ Met(e) THEN 1 ELSE 0
    BY <1>1, NewAccount
  <2>3. /\ Account(s, file, day, q, "offered") >= Cardinality(HeardOf(ofs.heard, day, q))
        /\ Account(s, file, day, q, "within") >= Cardinality(HeardOf(ofs.met, day, q))
    BY DEF NoneMissing
  <2>4. /\ Cardinality(HeardOf(ofs.heard, day, q)) \in Nat /\ Cardinality(HeardOf(ofs.met, day, q)) \in Nat
        /\ Cardinality(HeardOf(ofs2.heard, day, q)) = Cardinality(HeardOf(ofs.heard, day, q))
             + IF h \notin ofs.heard /\ day = s.day /\ q = e.queue THEN 1 ELSE 0
        /\ Cardinality(HeardOf(ofs2.met, day, q)) = Cardinality(HeardOf(ofs.met, day, q))
             + IF Met(e) /\ h \notin ofs.heard /\ day = s.day /\ q = e.queue THEN 1 ELSE 0
    <3>1. HeardGrows(s, ofs, e, h, ofs2, day, q)
      BY NewHeard
    <3> QED BY <3>1 DEF HeardGrows
  <2>5. Account(t, file, day, q, "offered") >= Cardinality(HeardOf(ofs2.heard, day, q))
    BY <2>1, <2>3, <2>4
  <2>6. Account(t, file, day, q, "within") >= Cardinality(HeardOf(ofs2.met, day, q))
    BY <2>2, <2>3, <2>4
  <2> QED BY <2>5, <2>6
<1> QED BY <1>2 DEF NoneMissing

\* As few calls were heard of, what was counted stays counted, and the new call is.
LEMMA NewCounted ==
  ASSUME NEW s, NEW ofs, NEW e, NEW t, NEW h, NEW ofs2, NewCall(s, ofs, e, t, h, ofs2), FewHeard(ofs2)
  PROVE  /\ FewHeard(ofs) /\ IsCounted(t, h) /\ \A x : IsCounted(s, x) => IsCounted(t, x)
         /\ h \in ofs.heard => ~IsCounted(s, h)
<1>1. /\ Sound(s, ofs) /\ IsFiniteSet(ofs2.heard) /\ ofs2.heard = ofs.heard \cup {h}
      /\ IsOffer(h, s.day, e, ofs) /\ SeenGrows(s, e, t)
  BY DEF NewCall, WithOffer, OffersOK
<1>2. FewHeard(ofs)
  <2>1. IsFiniteSet(ofs.heard) /\ Cardinality(ofs.heard) <= Cardinality(ofs2.heard)
    BY <1>1, FS_Subset
  <2>2. Cardinality(ofs.heard) \in Nat /\ Cardinality(ofs2.heard) \in Nat
    BY <1>1, <2>1, FS_CardinalityType
  <2> QED BY <2>1, <2>2, SlaAssumption DEF FewHeard
<1>3. CASE e.id = NoUniqueid
  <2>1. t.seen = s.seen /\ Nameless(h) /\ h \notin ofs.heard
    BY <1>1, <1>3 DEF SeenGrows, IsOffer
  <2> QED BY <1>2, <2>1 DEF IsCounted, IsSeen
<1>4. CASE e.id # NoUniqueid
  <2>1. ~IsSeen(s, Key(e)) /\ IsSeen(t, Key(e)) /\ ~Nameless(h) /\ Key(e) = <<h.queue, h.id[1]>>
        /\ h = Named(s.day, Key(e)) /\ Key(e) = <<Key(e)[1], Key(e)[2]>>
    BY <1>1, <1>4 DEF SeenGrows, IsOffer, Key
  <2>2. Len(s.seen) < MaxIds
    BY <1>1, <2>1, RoomForKey
  <2>3. \A key : IsSeen(s, key) => IsSeen(t, key)
    BY <1>1, <1>4, <2>2 DEF SeenGrows
  <2> QED BY <1>2, <2>1, <2>3 DEF IsCounted
<1> QED BY <1>3, <1>4

LEMMA NewExact ==
  ASSUME NEW s, NEW ofs, NEW e, NEW t, NEW h, NEW ofs2, NewCall(s, ofs, e, t, h, ofs2),
         NEW file, GoodFile(file), NEW time, Exact(s, file, ofs, time)
  PROVE  Exact(t, file, ofs2, time)
<1>1. /\ ofs2.heard = ofs.heard \cup {h} /\ t.day = s.day /\ h.day = s.day /\ h.queue = e.queue
      /\ s.day \in Nat /\ IsFiniteSet(ofs2.heard)
  BY DEF NewCall, WithOffer, IsOffer, Sound, Tracks, OffersOK
<1>2. InTime(t, file, ofs2, time)
  BY <1>1 DEF Exact, InTime
<1>3. ASSUME FewHeard(ofs2) PROVE OnceEach(t, file, ofs2)
  <2>1. /\ FewHeard(ofs) /\ IsCounted(t, h) /\ \A x : IsCounted(s, x) => IsCounted(t, x)
        /\ h \in ofs.heard => ~IsCounted(s, h)
    BY <1>3, NewCounted
  <2>2. OnceEach(s, file, ofs)
    BY <2>1 DEF Exact
  <2>3. ASSUME NEW day, NEW q, day # t.day
        PROVE  Cardinality(Stored(file, day, q, "offered")) <= Cardinality(HeardOf(ofs2.heard, day, q))
    <3>1. Cardinality(HeardOf(ofs2.heard, day, q)) = Cardinality(HeardOf(ofs.heard, day, q)) + 0
          /\ Cardinality(HeardOf(ofs.heard, day, q)) \in Nat
      <4>1. HeardGrows(s, ofs, e, h, ofs2, day, q)
        BY NewHeard
      <4> QED BY <1>1, <2>3, <4>1 DEF HeardGrows
    <3> QED BY <1>1, <2>2, <2>3, <3>1 DEF OnceEach
  <2>4. ASSUME NEW q PROVE LiveOf(t, t.day, q, "offered") <= Cardinality(CountedOf(t, ofs2.heard, q))
    <3>. DEFINE A == CountedOf(s, ofs.heard, q)
                B == CountedOf(t, ofs2.heard, q)
    <3>1. A \subseteq B /\ (q = e.queue => h \in B /\ h \notin A)
      BY <1>1, <2>1 DEF CountedOf, HeardOf
    <3>2. B \in SUBSET ofs2.heard
      BY DEF CountedOf, HeardOf
    <3>3. LiveOf(s, s.day, q, "offered") <= Cardinality(A)
      BY <2>2 DEF OnceEach
    <3>4. LiveOf(s, s.day, q, "offered") \in Nat
      BY DEF NewCall, Sound, Tracks, StatsOK, LiveOf
    <3>5. LiveOf(t, t.day, q, "offered") = LiveOf(s, s.day, q, "offered") + IF q = e.queue THEN 1 ELSE 0
      <4>1. LiveOf(t, s.day, q, "offered") = LiveOf(s, s.day, q, "offered") + One(q, e, "offered")
        BY DEF NewCall, LiveGrows, Fields
      <4>2. One(q, e, "offered") = IF q = e.queue THEN 1 ELSE 0
        BY DEF One
      <4> QED BY <1>1, <4>1, <4>2
    <3>. HIDE DEF A, B
    <3>6. IsFiniteSet(B) /\ IsFiniteSet(A)
      BY <1>1, <3>1, <3>2, FS_Subset
    <3>7. Cardinality(A) \in Nat /\ Cardinality(B) \in Nat
      BY <3>6, FS_CardinalityType
    <3>8. CASE q = e.queue
      <4>1. A \cup {h} \in SUBSET B /\ h \notin A
        BY <3>1, <3>8
      <4>2. Cardinality(A \cup {h}) = Cardinality(A) + 1
        BY <3>6, <4>1, FS_AddElement
      <4>3. Cardinality(A \cup {h}) <= Cardinality(B)
        BY <3>6, <4>1, FS_Subset
      <4>4. Cardinality(A) + 1 <= Cardinality(B)
        BY <4>2, <4>3
      <4> QED BY <3>3, <3>4, <3>5, <3>7, <3>8, <4>4 DEF B
    <3>9. CASE q # e.queue
      <4>1. Cardinality(A) <= Cardinality(B)
        BY <3>1, <3>6, FS_Subset
      <4> QED BY <3>3, <3>4, <3>5, <3>7, <3>9, <4>1 DEF B
    <3> QED BY <3>8, <3>9
  <2> QED BY <2>3, <2>4 DEF OnceEach
<1> QED BY <1>2, <1>3 DEF Exact

LEMMA NewMetExact ==
  ASSUME NEW s, NEW ofs, NEW e, NEW t, NEW h, NEW ofs2, NewCall(s, ofs, e, t, h, ofs2),
         NEW file, GoodFile(file), MetExact(s, file, ofs)
  PROVE  MetExact(t, file, ofs2)
<1>1. /\ ofs2.heard = ofs.heard \cup {h} /\ t.day = s.day /\ h.day = s.day /\ h.queue = e.queue
  BY DEF NewCall, WithOffer, IsOffer
<1>2. ASSUME FewHeard(ofs2) PROVE MetOnce(t, file, ofs2)
  <2>1. /\ FewHeard(ofs) /\ IsCounted(t, h) /\ \A x : IsCounted(s, x) => IsCounted(t, x)
        /\ h \in ofs.heard => ~IsCounted(s, h)
    BY <1>2, NewCounted
  <2>2. MetOnce(s, file, ofs)
    BY <2>1 DEF MetExact
  <2>3. h \notin ofs.heard
    BY <1>1, <2>1, <2>2 DEF MetOnce
  <2>4. \A x \in ofs2.heard : x.day = t.day => IsCounted(t, x)
    BY <1>1, <2>1, <2>2 DEF MetOnce
  <2>5. ASSUME NEW day, NEW q
        PROVE  Account(t, file, day, q, "within") <= Cardinality(HeardOf(ofs2.met, day, q))
    <3>1. /\ Account(s, file, day, q, "within") \in Nat
          /\ Account(t, file, day, q, "within") = Account(s, file, day, q, "within")
               + IF day = s.day /\ q = e.queue /\ Met(e) THEN 1 ELSE 0
      BY NewAccount DEF Fields
    <3>2. /\ Cardinality(HeardOf(ofs.met, day, q)) \in Nat
          /\ Cardinality(HeardOf(ofs2.met, day, q)) = Cardinality(HeardOf(ofs.met, day, q))
               + IF Met(e) /\ h \notin ofs.heard /\ day = s.day /\ q = e.queue THEN 1 ELSE 0
      <4>1. HeardGrows(s, ofs, e, h, ofs2, day, q)
        BY NewHeard
      <4> QED BY <4>1 DEF HeardGrows
    <3>3. Account(s, file, day, q, "within") <= Cardinality(HeardOf(ofs.met, day, q))
      BY <2>2 DEF MetOnce
    <3> QED BY <2>3, <3>1, <3>2, <3>3
  <2> QED BY <2>4, <2>5 DEF MetOnce
<1> QED BY <1>2 DEF MetExact

\* Days pass as the time does.
LEMMA DaysPass ==
  ASSUME NEW m \in Nat, NEW n \in Nat
  PROVE  DayKey(m) \in Nat /\ (m <= n => DayKey(m) <= DayKey(n))
<1>1. DayLength \in Nat /\ DayLength > 0
  BY StreamAssumption
<1> QED BY <1>1, SMT DEF DayKey

\* Of every day no more calls are counted than were heard of.
LEMMA AtMostHeard ==
  ASSUME NEW s, NEW file, NEW ofs, Sound(s, ofs), GoodFile(file), NEW time,
         InTime(s, file, ofs, time), OnceEach(s, file, ofs), NEW day, NEW q
  PROVE  /\ Account(s, file, day, q, "offered") <= Cardinality(HeardOf(ofs.heard, day, q))
         /\ Cardinality(Stored(file, day, q, "offered")) \in Nat
         /\ Cardinality(Stored(file, day, q, "offered")) <= Account(s, file, day, q, "offered")
<1>. DEFINE A == CountedOf(s, ofs.heard, q)
            B == HeardOf(ofs.heard, day, q)
            n == Cardinality(Stored(file, day, q, "offered"))
            live == LiveOf(s, day, q, "offered")
<1>1. n \in Nat
  BY FS_CardinalityType DEF GoodFile, Fields
<1>2. live \in Nat /\ s.day \in Nat
  BY DEF Sound, Tracks, StatsOK, LiveOf
<1>3. IsFiniteSet(B)
  BY OneMore DEF Sound, OffersOK
<1>4. CASE day # s.day
  <2>1. live = 0
    BY <1>4 DEF LiveOf
  <2>2. n <= Cardinality(B)
    BY <1>4 DEF OnceEach
  <2> QED BY <1>1, <2>1, <2>2 DEF Account
<1>5. CASE day = s.day
  <2>1. n = 0
    <3>1. \A i \in DOMAIN file : file[i].date \in Nat /\ file[i].date < s.day
      BY DEF InTime, GoodFile, GoodRow
    <3>2. \A i \in DOMAIN file : file[i].date # day
      BY <1>2, <1>5, <3>1
    <3>3. \A x : x \notin Stored(file, day, q, "offered")
      BY <3>2, StoredOf
    <3>4. Stored(file, day, q, "offered") = {}
      BY <3>3
    <3> QED BY <3>4, FS_EmptySet
  <2>2. live <= Cardinality(A)
    BY <1>5 DEF OnceEach
  <2>3. A \in SUBSET B
    BY <1>5 DEF CountedOf
  <2>. HIDE DEF A, B, n, live
  <2>4. IsFiniteSet(A) /\ Cardinality(A) <= Cardinality(B)
    BY <1>3, <2>3, FS_Subset
  <2>5. Cardinality(A) \in Nat /\ Cardinality(B) \in Nat
    BY <1>3, <2>4, FS_CardinalityType
  <2>6. n + live <= Cardinality(B) /\ n <= n + live
    BY <1>2, <2>1, <2>2, <2>4, <2>5
  <2>7. Account(s, file, day, q, "offered") = n + live
    BY DEF Account, n, live
  <2> QED BY <1>1, <2>6, <2>7 DEF B, n
<1> QED BY <1>4, <1>5

LEMMA DayClosed ==
  ASSUME NEW s, NEW file, NEW ofs, Sound(s, ofs), GoodFile(file), NEW more,
         Appends(more, file, ClosingOf(s)), NEW time \in Nat, s.day # DayKey(time),
         NEW t, t = Fresh(DayKey(time))
  PROVE  /\ Sound(t, ofs) /\ GoodFile(more) /\ t.day = DayKey(time)
         /\ NoneMissing(s, file, ofs) => NoneMissing(t, more, ofs)
         /\ Exact(s, file, ofs, time) => Exact(t, more, ofs, time)
         /\ Exact(s, file, ofs, time) /\ MetExact(s, file, ofs) => MetExact(t, more, ofs)
<1>1. DayKey(time) \in Nat /\ s.day \in Nat
  BY DaysPass DEF Sound, Tracks
<1>2. /\ Sound(t, ofs) /\ GoodFile(more)
      /\ \A d, q : \A field \in Fields : Account(t, more, d, q, field) = Account(s, file, d, q, field)
      /\ \A i \in DOMAIN more : (i \in DOMAIN file /\ more[i] = file[i]) \/ more[i].date = s.day
  BY <1>1, RolledOver
<1>3. t.day = DayKey(time) /\ DOMAIN t.stats = {}
  <2>1. t.day = DayKey(time) /\ t.stats = <<>>
    BY DEF Fresh
  <2> QED BY <2>1, NoWire
<1>4. "offered" \in Fields /\ "within" \in Fields
  BY DEF Fields
<1>5. ASSUME NoneMissing(s, file, ofs) PROVE NoneMissing(t, more, ofs)
  BY <1>2, <1>4, <1>5 DEF NoneMissing
<1>6. ASSUME Exact(s, file, ofs, time) PROVE Exact(t, more, ofs, time)
  <2>1. /\ s.day <= DayKey(time) /\ \A h \in ofs.heard : h.day <= s.day
        /\ \A i \in DOMAIN file : file[i].date < s.day
    BY <1>6 DEF Exact, InTime
  <2>2. s.day < DayKey(time)
    BY <1>1, <2>1
  <2>3. \A h \in ofs.heard : h.day \in Nat
    BY DEF Sound, OffersOK, OfferOK
  <2>4. \A i \in DOMAIN file : file[i].date \in Nat
    BY DEF GoodFile, GoodRow
  <2>5. InTime(t, more, ofs, time)
    <3>1. \A h \in ofs.heard : h.day <= t.day
      BY <1>1, <1>3, <2>1, <2>2, <2>3
    <3>2. \A i \in DOMAIN more : more[i].date < t.day
      BY <1>1, <1>2, <1>3, <2>1, <2>2, <2>4
    <3>3. t.day <= DayKey(time)
      BY <1>1, <1>3
    <3> QED BY <3>1, <3>2, <3>3 DEF InTime
  <2>6. ASSUME FewHeard(ofs) PROVE OnceEach(t, more, ofs)
    <3>1. OnceEach(s, file, ofs)
      BY <1>6, <2>6 DEF Exact
    <3>2. \A day, q : IsFiniteSet(HeardOf(ofs.heard, day, q))
      BY OneMore DEF Sound, OffersOK
    <3>3. ASSUME NEW day, NEW q, day # t.day
          PROVE  Cardinality(Stored(more, day, q, "offered")) <= Cardinality(HeardOf(ofs.heard, day, q))
      <4>1. Cardinality(Stored(more, day, q, "offered")) \in Nat
        BY <1>2, <1>4, FS_CardinalityType DEF GoodFile
      <4>2. LiveOf(t, day, q, "offered") = 0
        BY <3>3 DEF LiveOf
      <4>3. Account(t, more, day, q, "offered") = Account(s, file, day, q, "offered")
        BY <1>2, <1>4
      <4>4. Cardinality(Stored(more, day, q, "offered")) = Account(s, file, day, q, "offered")
        BY <4>1, <4>2, <4>3 DEF Account
      <4>5. Account(s, file, day, q, "offered") <= Cardinality(HeardOf(ofs.heard, day, q))
        BY <1>6, <3>1, AtMostHeard DEF Exact
      <4> QED BY <4>4, <4>5
    <3>4. ASSUME NEW q PROVE LiveOf(t, t.day, q, "offered") <= Cardinality(CountedOf(t, ofs.heard, q))
      <4>1. LiveOf(t, t.day, q, "offered") = 0
        BY <1>3 DEF LiveOf
      <4>2. CountedOf(t, ofs.heard, q) \in SUBSET HeardOf(ofs.heard, t.day, q)
        BY DEF CountedOf
      <4>3. Cardinality(CountedOf(t, ofs.heard, q)) \in Nat
        BY <3>2, <4>2, FS_Subset, FS_CardinalityType
      <4> QED BY <4>1, <4>3
    <3> QED BY <3>3, <3>4 DEF OnceEach
  <2> QED BY <2>5, <2>6 DEF Exact
<1>7. ASSUME Exact(s, file, ofs, time), MetExact(s, file, ofs) PROVE MetExact(t, more, ofs)
  <2>1. \A h \in ofs.heard : h.day # t.day
    <3>1. s.day <= DayKey(time) /\ \A h \in ofs.heard : h.day <= s.day /\ h.day \in Nat
      BY <1>7 DEF Exact, InTime, Sound, OffersOK, OfferOK
    <3> QED BY <1>1, <1>3, <3>1
  <2>2. ASSUME FewHeard(ofs) PROVE MetOnce(t, more, ofs)
    BY <1>2, <1>4, <1>7, <2>1, <2>2 DEF MetExact, MetOnce
  <2> QED BY <2>2 DEF MetExact
<1> QED BY <1>2, <1>3, <1>5, <1>6, <1>7

\* Of a day that could not be closed some rows may have been written.
LEMMA DayLeft ==
  ASSUME NEW s, NEW file, NEW ofs, Sound(s, ofs), GoodFile(file), NEW k, NEW some,
         FirstOf(ClosingOf(s), k, some), NEW more, Appends(more, file, some)
  PROVE  GoodFile(more) /\ (NoneMissing(s, file, ofs) => NoneMissing(s, more, ofs))
<1>1. OneRowEach(some)
  <2>1. OneRowEach(ClosingOf(s))
    BY ClosingRows DEF Sound
  <2> QED BY <2>1, FirstRows
<1>2. GoodFile(more)
  BY <1>1, FileGrows
<1>3. ASSUME NEW day, NEW q, NEW field \in Fields
      PROVE  /\ Account(s, more, day, q, field) >= Account(s, file, day, q, field)
             /\ Account(s, more, day, q, field) \in Nat /\ Account(s, file, day, q, field) \in Nat
  <2>1. /\ Cardinality(Stored(file, day, q, field)) \in Nat
        /\ \A i \in DOMAIN some : some[i].date = day /\ some[i].queue = q =>
             Cardinality(Stored(more, day, q, field)) = Cardinality(Stored(file, day, q, field)) + some[i][field]
        /\ (\A i \in DOMAIN some : ~(some[i].date = day /\ some[i].queue = q)) =>
             Stored(more, day, q, field) = Stored(file, day, q, field)
    BY <1>1, RowsAdded
  <2>2. \A i \in DOMAIN some : some[i][field] \in Nat
    BY <1>1 DEF OneRowEach, GoodRow, Fields
  <2>3. LiveOf(s, day, q, field) \in Nat
    BY DEF Sound, Tracks, StatsOK, LiveOf, Fields
  <2>4. /\ Cardinality(Stored(more, day, q, field)) \in Nat
        /\ Cardinality(Stored(more, day, q, field)) >= Cardinality(Stored(file, day, q, field))
    BY <2>1, <2>2
  <2> QED BY <2>1, <2>3, <2>4 DEF Account
<1>4. ASSUME NoneMissing(s, file, ofs) PROVE NoneMissing(s, more, ofs)
  <2>1. ASSUME NEW day, NEW q
        PROVE  /\ Account(s, more, day, q, "offered") >= Cardinality(HeardOf(ofs.heard, day, q))
               /\ Account(s, more, day, q, "within") >= Cardinality(HeardOf(ofs.met, day, q))
    <3>1. /\ Cardinality(HeardOf(ofs.heard, day, q)) \in Nat
          /\ Cardinality(HeardOf(ofs.met, day, q)) \in Nat
      <4>1. IsFiniteSet(ofs.heard) /\ ofs.met \in SUBSET ofs.heard
        BY DEF Sound, OffersOK
      <4>2. IsFiniteSet(ofs.met)
        BY <4>1, FS_Subset
      <4>. DEFINE A == ofs.heard
                  B == ofs.met
      <4>. HIDE DEF A, B
      <4>3. IsFiniteSet(A) /\ IsFiniteSet(B)
        BY <4>1, <4>2 DEF A, B
      <4>4. Cardinality(HeardOf(A, day, q)) \in Nat /\ Cardinality(HeardOf(B, day, q)) \in Nat
        BY <4>3, OneMore
      <4> QED BY <4>4 DEF A, B
    <3>2. /\ Account(s, more, day, q, "offered") >= Account(s, file, day, q, "offered")
          /\ Account(s, more, day, q, "offered") \in Nat /\ Account(s, file, day, q, "offered") \in Nat
          /\ Account(s, more, day, q, "within") >= Account(s, file, day, q, "within")
          /\ Account(s, more, day, q, "within") \in Nat /\ Account(s, file, day, q, "within") \in Nat
      BY <1>3 DEF Fields
    <3>3. /\ Account(s, file, day, q, "offered") >= Cardinality(HeardOf(ofs.heard, day, q))
          /\ Account(s, file, day, q, "within") >= Cardinality(HeardOf(ofs.met, day, q))
      BY <1>4 DEF NoneMissing
    <3> QED BY <3>1, <3>2, <3>3
  <2> QED BY <2>1 DEF NoneMissing
<1> QED BY <1>2, <1>4

\* What a step leaves of the service level, from one tracker, file and calls to others.
Carried(s, file, ofs, t, more, ofs2, time) ==
  /\ Sound(t, ofs2)
  /\ GoodFile(file) =>
       /\ GoodFile(more)
       /\ NoneMissing(s, file, ofs) => NoneMissing(t, more, ofs2)
       /\ Exact(s, file, ofs, time) => Exact(t, more, ofs2, time)
       /\ Exact(s, file, ofs, time) /\ MetExact(s, file, ofs) => MetExact(t, more, ofs2)

\* A call is counted, or was.
LEMMA HoldsCounted ==
  ASSUME NEW s, NEW file, NEW ofs, Sound(s, ofs), NEW e, NEW t, t = CountedOnce(s, e),
         NEW h, h = OfferOf(ofs, s.day, e), NEW ofs2, ofs2 = WithOffer(ofs, h, e), NEW time
  PROVE  Carried(s, file, ofs, t, file, ofs2, time)
<1>1. s.day \in Nat /\ OffersOK(ofs) /\ Tracks(s)
  BY DEF Sound, Tracks
<1>2. /\ OffersOK(ofs2) /\ IsOffer(h, s.day, e, ofs)
      /\ e.id # NoUniqueid => h = Named(s.day, Key(e))
      /\ h \in ofs.heard => ofs2 = ofs
  BY <1>1, OfferHeard DEF IsOffer
<1>3. \/ e.id # NoUniqueid /\ IsSeen(s, Key(e)) /\ t = s
      \/ Tracks(t) /\ t.day = s.day /\ LiveGrows(s, e, t) /\ SeenGrows(s, e, t)
  BY <1>1, Recording DEF LiveGrows, SeenGrows
<1>4. CASE e.id # NoUniqueid /\ IsSeen(s, Key(e)) /\ t = s
  <2>1. Named(s.day, Key(e)) \in ofs.heard
    BY <1>4 DEF Sound, KeysOK, IsKey, IsSeen
  <2>2. ofs2 = ofs
    BY <1>2, <1>4, <2>1
  <2> QED BY <1>4, <2>2 DEF Carried
<1>5. CASE Tracks(t) /\ t.day = s.day /\ LiveGrows(s, e, t) /\ SeenGrows(s, e, t)
  <2>1. NewCall(s, ofs, e, t, h, ofs2)
    BY <1>2, <1>5 DEF NewCall
  <2>2. Sound(t, ofs2)
    BY <2>1, NewSound
  <2>3. ASSUME GoodFile(file)
        PROVE  /\ NoneMissing(s, file, ofs) => NoneMissing(t, file, ofs2)
               /\ Exact(s, file, ofs, time) => Exact(t, file, ofs2, time)
               /\ MetExact(s, file, ofs) => MetExact(t, file, ofs2)
    BY <2>1, <2>3, NewNoneMissing, NewExact, NewMetExact
  <2> QED BY <2>2, <2>3 DEF Carried
<1> QED BY <1>3, <1>4, <1>5

\* A day is closed.
LEMMA HoldsClosed ==
  ASSUME NEW s, NEW file, NEW ofs, Sound(s, ofs), NEW more,
         GoodFile(file) => Appends(more, file, ClosingOf(s)),
         NEW time \in Nat, s.day # DayKey(time), NEW t, t = Fresh(DayKey(time))
  PROVE  Carried(s, file, ofs, t, more, ofs, time) /\ t.day = DayKey(time)
<1>1. DayKey(time) \in Nat
  BY DaysPass
<1>2. Sound(t, ofs) /\ t.day = DayKey(time)
  BY <1>1, FreshTracks
<1>3. ASSUME GoodFile(file)
      PROVE  /\ GoodFile(more)
             /\ NoneMissing(s, file, ofs) => NoneMissing(t, more, ofs)
             /\ Exact(s, file, ofs, time) => Exact(t, more, ofs, time)
             /\ Exact(s, file, ofs, time) /\ MetExact(s, file, ofs) => MetExact(t, more, ofs)
  BY <1>3, DayClosed
<1> QED BY <1>2, <1>3 DEF Carried

LEMMA WrittenWhole ==
  ASSUME GoodFile(history), NEW rows PROVE Appends(Written(rows), history, rows)
<1>1. CASE history = <<>>
  BY <1>1 DEF Written, Appends
<1>2. CASE history # <<>>
  <2>1. Len(history) \in DOMAIN history
    <3>. DEFINE w == history
                S == {w[i] : i \in DOMAIN w}
    <3>1. w \in Seq(S) /\ w # <<>> /\ DOMAIN w = 1..Len(w) /\ Len(w) \in Nat
      BY <1>2, Wires DEF GoodFile, IsWire
    <3>. HIDE DEF w, S
    <3>2. Len(w) # 0
      BY <3>1, EmptySeq
    <3>3. Len(w) \in DOMAIN w
      BY <3>1, <3>2
    <3> QED BY <3>3 DEF w
  <2>2. Last(history) # Torn
    BY <2>1 DEF Last, GoodFile, GoodRow
  <2> QED BY <2>2 DEF Written, Appends
<1> QED BY <1>1, <1>2

LEMMA ClosingIs == Closing = ClosingOf(sla)
BY DEF Closing, ClosingOf, RowOf

\* A step leaves what it says of the service level.
LEMMA HoldsAfter ==
  ASSUME SlaInv, KindsGrow, now' = now, Carried(sla, history, offers, sla', history', offers', now)
  PROVE  SlaInv'
<1>1. /\ Never({"torn"})' => Never({"torn"})
      /\ Never({"torn", "restart"})' => Never({"torn", "restart"}) /\ Never({"torn"})
      /\ Never({"torn", "failed", "setback"})' => Never({"torn", "failed", "setback"}) /\ Never({"torn"})
      /\ Never({"torn", "failed", "setback", "restart"})' =>
           /\ Never({"torn", "failed", "setback", "restart"})
           /\ Never({"torn", "failed", "setback"}) /\ Never({"torn"})
  BY DEF KindsGrow, Never
<1>2. /\ Sound(sla', offers')
      /\ GoodFile(history) =>
           /\ GoodFile(history')
           /\ NoneMissing(sla, history, offers) => NoneMissing(sla', history', offers')
           /\ Exact(sla, history, offers, now) => Exact(sla', history', offers', now)
           /\ Exact(sla, history, offers, now) /\ MetExact(sla, history, offers) =>
                MetExact(sla', history', offers')
  BY DEF Carried
<1>3. /\ now \in Nat
      /\ Never({"torn"}) => GoodFile(history)
      /\ Never({"torn", "restart"}) => NoneMissing(sla, history, offers)
      /\ Never({"torn", "failed", "setback"}) => Exact(sla, history, offers, now)
      /\ Never({"torn", "failed", "setback", "restart"}) => MetExact(sla, history, offers)
  BY DEF SlaInv, SlaHolds
<1> QED BY <1>1, <1>2, <1>3 DEF SlaInv, SlaHolds

LEMMA NothingHeard ==
  ASSUME SlaInv, KindsGrow, now' = now, UNCHANGED <<sla, history>>,
         offers' = offers \/ offers' = [offers EXCEPT !.told = @ + 1]
  PROVE  SlaInv'
<1>1. /\ Sound(sla, offers)
      /\ offers = [told |-> offers.told, heard |-> offers.heard, met |-> offers.met]
  BY DEF SlaInv, SlaHolds, Sound, OffersOK
<1>2. /\ offers'.heard = offers.heard /\ offers'.met = offers.met
      /\ offers' = [told |-> offers'.told, heard |-> offers'.heard, met |-> offers'.met]
  BY <1>1
<1>3. Sound(sla', offers')
  BY <1>1, <1>2 DEF Sound, OffersOK
<1>4. /\ NoneMissing(sla, history, offers) => NoneMissing(sla', history', offers')
      /\ Exact(sla, history, offers, now) => Exact(sla', history', offers', now)
      /\ MetExact(sla, history, offers) => MetExact(sla', history', offers')
  BY <1>2 DEF NoneMissing, Exact, MetExact, InTime, OnceEach, MetOnce, FewHeard
<1>5. Carried(sla, history, offers, sla', history', offers', now)
  BY <1>3, <1>4 DEF Carried
<1> QED BY <1>5, HoldsAfter

\* apply_event.
LEMMA SlaHearing ==
  ASSUME SlaInv, KindsGrow, now' = now, NEW e, SlaHears(e) PROVE SlaInv'
<1>. DEFINE h == Offer(e)
<1>1. now \in Nat /\ Sound(sla, offers) /\ OffersOK(offers)
  BY DEF SlaInv, SlaHolds, Sound
<1>2. h = OfferOf(offers, DayKey(now), e)
  BY DEF Offer, OfferOf
<1>3. offers' = WithOffer(offers, h, e)
  <2>1. offers = [told |-> offers.told, heard |-> offers.heard, met |-> offers.met]
    BY <1>1 DEF OffersOK
  <2>2. offers' = [offers EXCEPT !.heard = @ \cup {h},
                                 !.met = IF Met(e) /\ h \notin offers.heard THEN @ \cup {h} ELSE @]
    BY DEF SlaHears
  <2>. HIDE DEF h
  <2> QED BY <2>1, <2>2 DEF WithOffer
<1>. HIDE DEF h
<1>4. CASE KeepDay /\ sla' = CountedOnce(sla, e) /\ UNCHANGED history
  <2>1. h = OfferOf(offers, sla.day, e)
    BY <1>2, <1>4 DEF KeepDay
  <2>2. Carried(sla, history, offers, sla', history, offers', now)
    BY <1>1, <1>3, <1>4, <2>1, HoldsCounted
  <2> QED BY <1>4, <2>2, HoldsAfter
<1>5. CASE Rollover /\ sla' = CountedOnce(Fresh(DayKey(now)), e)
  <2>. DEFINE t == Fresh(DayKey(now))
  <2>1. t = Fresh(DayKey(now)) /\ sla' = CountedOnce(t, e)
    BY <1>5
  <2>. HIDE DEF t
  <2>2. GoodFile(history) => Appends(history', history, ClosingOf(sla))
    BY <1>5, ClosingIs, WrittenWhole DEF Rollover
  <2>3. sla.day # DayKey(now)
    BY <1>5 DEF Rollover, KeepDay
  <2>4. Carried(sla, history, offers, t, history', offers, now) /\ t.day = DayKey(now)
    BY <1>1, <2>1, <2>2, <2>3, HoldsClosed
  <2>5. Sound(t, offers) /\ h = OfferOf(offers, t.day, e)
    BY <1>2, <2>4 DEF Carried
  <2>6. Carried(t, history', offers, sla', history', offers', now)
    BY <1>3, <2>1, <2>5, HoldsCounted
  <2>7. Carried(sla, history, offers, sla', history', offers', now)
    BY <2>4, <2>6 DEF Carried
  <2> QED BY <2>7, HoldsAfter
<1> QED BY <1>4, <1>5 DEF SlaHears

\* A day that cannot be closed: of its rows the first may have been written.
LEMMA SlaUnclosed ==
  ASSUME SlaInv, KindsGrow, now' = now, NEW how, RolloverFails(how), offers' = offers,
         how = "torn" => "torn" \in mishaps'.kinds, how # "torn" => "failed" \in mishaps'.kinds
  PROVE  SlaInv'
<1>1. now \in Nat /\ Sound(sla, offers) /\ sla' = sla
  BY DEF SlaInv, SlaHolds, RolloverFails
<1>2. CASE "torn" \in mishaps'.kinds
  BY <1>1, <1>2 DEF SlaInv, SlaHolds, Never
<1>3. CASE "torn" \notin mishaps'.kinds
  <2>. DEFINE rows == ClosingOf(sla)
  <2>1. how # "torn" /\ "failed" \in mishaps'.kinds
    BY <1>3
  <2>2. \E k \in DOMAIN rows :
          history' = Written(SubSeq(rows, 1, k - 1)) \/ history' = Written(SubSeq(rows, 1, k))
    BY <2>1, ClosingIs DEF RolloverFails
  <2>3. \E k \in 0..Len(rows) : history' = Written(SubSeq(rows, 1, k))
    <3>1. DOMAIN rows = 1..Len(rows) /\ Len(rows) \in Nat
      <4>1. IsWire(rows)
        BY <1>1, ClosingRows DEF Sound, OneRowEach
      <4>. HIDE DEF rows
      <4> QED BY <4>1, Wires
    <3>. HIDE DEF rows
    <3>2. PICK k \in DOMAIN rows :
            history' = Written(SubSeq(rows, 1, k - 1)) \/ history' = Written(SubSeq(rows, 1, k))
      BY <2>2
    <3>3. k \in 0..Len(rows) /\ k - 1 \in 0..Len(rows)
      BY <3>1
    <3> QED BY <3>2, <3>3
  <2>4. ASSUME GoodFile(history)
        PROVE  /\ GoodFile(history')
               /\ NoneMissing(sla, history, offers) => NoneMissing(sla', history', offers')
    <3>1. PICK k \in 0..Len(rows) : history' = Written(SubSeq(rows, 1, k))
      BY <2>3
    <3>. DEFINE some == SubSeq(rows, 1, k)
    <3>2. FirstOf(ClosingOf(sla), k, some)
      BY DEF FirstOf
    <3>3. history' = Written(some)
      BY <3>1
    <3>. HIDE DEF some
    <3>4. Appends(history', history, some)
      BY <2>4, <3>3, WrittenWhole
    <3>5. GoodFile(history') /\ (NoneMissing(sla, history, offers) => NoneMissing(sla, history', offers))
      BY <1>1, <2>4, <3>2, <3>4, DayLeft
    <3> QED BY <1>1, <3>5
  <2>5. /\ Never({"torn"})' => Never({"torn"})
        /\ Never({"torn", "restart"})' => Never({"torn", "restart"}) /\ Never({"torn"})
        /\ ~Never({"torn", "failed", "setback"})' /\ ~Never({"torn", "failed", "setback", "restart"})'
    BY <2>1 DEF KindsGrow, Never
  <2>6. /\ Never({"torn"}) => GoodFile(history)
        /\ Never({"torn", "restart"}) => NoneMissing(sla, history, offers)
    BY DEF SlaInv, SlaHolds
  <2> QED BY <1>1, <2>4, <2>5, <2>6 DEF SlaInv, SlaHolds
<1> QED BY <1>2, <1>3

\* The process is started again: the day in memory is lost.
LEMMA SlaRestarts ==
  ASSUME SlaInv, KindsGrow, now' = now, sla' = Fresh(DayKey(now)), UNCHANGED <<history, offers>>,
         "restart" \in mishaps'.kinds
  PROVE  SlaInv'
<1>1. now \in Nat /\ Sound(sla, offers) /\ sla.day \in Nat /\ DayKey(now) \in Nat
  BY DaysPass DEF SlaInv, SlaHolds, Sound, Tracks
<1>2. Sound(sla', offers) /\ sla'.day = DayKey(now) /\ DOMAIN sla'.stats = {}
  BY <1>1, FreshTracks
<1>3. /\ Never({"torn"})' => Never({"torn"})
      /\ Never({"torn", "failed", "setback"})' => Never({"torn", "failed", "setback"}) /\ Never({"torn"})
      /\ ~Never({"torn", "restart"})' /\ ~Never({"torn", "failed", "setback", "restart"})'
  BY DEF KindsGrow, Never
<1>4. ASSUME GoodFile(history), Exact(sla, history, offers, now)
      PROVE  Exact(sla', history, offers, now)
  <2>1. InTime(sla, history, offers, now)
    BY <1>4 DEF Exact
  <2>2. InTime(sla', history, offers, now)
    <3>1. \A h \in offers.heard : h.day \in Nat /\ h.day <= sla.day
      BY <1>1, <2>1 DEF InTime, Sound, OffersOK, OfferOK
    <3>2. \A i \in DOMAIN history : history[i].date \in Nat /\ history[i].date < sla.day
      BY <1>4, <2>1 DEF InTime, GoodFile, GoodRow
    <3>3. sla.day <= DayKey(now)
      BY <2>1 DEF InTime
    <3> QED BY <1>1, <1>2, <3>1, <3>2, <3>3 DEF InTime
  <2>3. ASSUME FewHeard(offers) PROVE OnceEach(sla', history, offers)
    <3>1. OnceEach(sla, history, offers)
      BY <1>4, <2>3 DEF Exact
    <3>2. ASSUME NEW day, NEW q
          PROVE  Cardinality(Stored(history, day, q, "offered")) <= Cardinality(HeardOf(offers.heard, day, q))
      <4>. DEFINE n == Cardinality(Stored(history, day, q, "offered"))
                  m == Account(sla, history, day, q, "offered")
                  most == Cardinality(HeardOf(offers.heard, day, q))
      <4>1. m <= most /\ n \in Nat /\ n <= m
        BY <1>1, <1>4, <2>1, <3>1, AtMostHeard
      <4>2. m \in Nat /\ most \in Nat
        <5>1. most \in Nat
          BY <1>1, OneMore DEF Sound, OffersOK
        <5>2. LiveOf(sla, day, q, "offered") \in Nat
          BY <1>1 DEF Sound, Tracks, StatsOK, LiveOf
        <5> QED BY <4>1, <5>1, <5>2 DEF Account
      <4>. HIDE DEF n, m, most
      <4>3. n <= most
        BY <4>1, <4>2
      <4> QED BY <4>3 DEF n, most
    <3>3. ASSUME NEW q
          PROVE  LiveOf(sla', sla'.day, q, "offered") <= Cardinality(CountedOf(sla', offers.heard, q))
      <4>1. LiveOf(sla', sla'.day, q, "offered") = 0
        BY <1>2 DEF LiveOf
      <4>2. CountedOf(sla', offers.heard, q) \in SUBSET HeardOf(offers.heard, sla'.day, q)
        BY DEF CountedOf
      <4>3. IsFiniteSet(HeardOf(offers.heard, sla'.day, q))
        BY <1>1, OneMore DEF Sound, OffersOK
      <4>4. Cardinality(CountedOf(sla', offers.heard, q)) \in Nat
        BY <4>2, <4>3, FS_Subset, FS_CardinalityType
      <4> QED BY <4>1, <4>4
    <3> QED BY <3>2, <3>3 DEF OnceEach
  <2> QED BY <2>2, <2>3 DEF Exact
<1>5. /\ Never({"torn"}) => GoodFile(history)
      /\ Never({"torn", "failed", "setback"}) => Exact(sla, history, offers, now)
  BY DEF SlaInv, SlaHolds
<1> QED BY <1>1, <1>2, <1>3, <1>4, <1>5 DEF SlaInv, SlaHolds

\* The clock goes on, or back.
LEMMA SlaPasses ==
  ASSUME SlaInv, KindsGrow, UNCHANGED <<sla, history, offers>>, now' \in Nat,
         now' > now \/ "setback" \in mishaps'.kinds
  PROVE  SlaInv'
<1>1. now \in Nat /\ Sound(sla, offers)
  BY DEF SlaInv, SlaHolds
<1>2. ASSUME now' > now, Exact(sla, history, offers, now) PROVE Exact(sla, history, offers, now')
  <2>. DEFINE m == now
              n == now'
  <2>1. m \in Nat /\ n \in Nat /\ m <= n
    BY <1>1, <1>2
  <2>. HIDE DEF m, n
  <2>2. DayKey(m) \in Nat /\ DayKey(n) \in Nat /\ DayKey(m) <= DayKey(n)
    BY <2>1, DaysPass
  <2>3. sla.day \in Nat /\ (sla.day <= DayKey(m) => sla.day <= DayKey(n))
    BY <1>1, <2>2 DEF Sound, Tracks
  <2> QED BY <1>2, <2>3 DEF Exact, InTime, m, n
<1>3. /\ Never({"torn"})' => Never({"torn"})
      /\ Never({"torn", "restart"})' => Never({"torn", "restart"})
      /\ Never({"torn", "failed", "setback"})' => Never({"torn", "failed", "setback"}) /\ now' > now
      /\ Never({"torn", "failed", "setback", "restart"})' => Never({"torn", "failed", "setback", "restart"})
  BY DEF KindsGrow, Never
<1>4. /\ Never({"torn"}) => GoodFile(history)
      /\ Never({"torn", "restart"}) => NoneMissing(sla, history, offers)
      /\ Never({"torn", "failed", "setback"}) => Exact(sla, history, offers, now)
      /\ Never({"torn", "failed", "setback", "restart"}) => MetExact(sla, history, offers)
  BY DEF SlaInv, SlaHolds
<1> QED BY <1>1, <1>2, <1>3, <1>4 DEF SlaInv, SlaHolds

LEMMA SlaBegins == DeskInit => SlaInv
<1>. SUFFICES ASSUME DeskInit PROVE SlaInv
  OBVIOUS
<1>. DEFINE none == <<>>
            nobody == {}
<1>1. /\ now = StartClock /\ now \in Nat /\ sla = Fresh(DayKey(now)) /\ history = none
      /\ offers = [told |-> 0, heard |-> nobody, met |-> nobody]
  BY StreamAssumption DEF DeskInit, StreamInit, SlaInit
<1>2. IsWire(none) /\ DOMAIN none = {} /\ none = [q \in {} |-> none[q]]
  BY NoWire
<1>3. DayKey(now) \in Nat
  BY <1>1, DaysPass
<1>4. /\ sla = [day |-> DayKey(now), order |-> none, stats |-> none, seen |-> none]
      /\ sla.day = DayKey(now) /\ sla.order = none /\ sla.stats = none /\ sla.seen = none
  BY <1>1 DEF Fresh
<1>5. IsFiniteSet(nobody) /\ Cardinality(nobody) = 0
  BY FS_EmptySet
<1>6. /\ offers.heard = nobody /\ offers.met = nobody /\ \A h : h \notin nobody
      /\ offers = [told |-> offers.told, heard |-> offers.heard, met |-> offers.met]
  BY <1>1
<1>7. \A day, q : HeardOf(nobody, day, q) = nobody
  BY DEF HeardOf
<1>8. \A day, q, field : Stored(none, day, q, field) = nobody
  <2>1. ASSUME NEW day, NEW q, NEW field, NEW x PROVE x \notin Stored(none, day, q, field)
    BY <1>2, StoredOf
  <2> QED BY <2>1
<1>. HIDE DEF none, nobody
<1>9. Sound(sla, offers)
  <2>1. OffersOK(offers)
    BY <1>5, <1>6 DEF OffersOK
  <2>2. StatsOK(sla) /\ Distinct(none)
    BY <1>2, <1>4 DEF StatsOK, Distinct
  <2>3. Tracks(sla) /\ KeysOK(sla, offers.heard)
    BY <1>2, <1>3, <1>4, <2>2 DEF Tracks, KeysOK
  <2> QED BY <2>1, <2>3 DEF Sound
<1>10. GoodFile(history)
  BY <1>1, <1>2, <1>5, <1>8 DEF GoodFile
<1>11. \A day, q, field : Account(sla, history, day, q, field) = 0
  <2>1. \A day, q, field : LiveOf(sla, day, q, field) = 0
    BY <1>2, <1>4 DEF LiveOf
  <2> QED BY <1>1, <1>5, <1>8, <2>1 DEF Account
<1>12. NoneMissing(sla, history, offers)
  BY <1>5, <1>6, <1>7, <1>11 DEF NoneMissing
<1>13. Exact(sla, history, offers, now)
  <2>1. InTime(sla, history, offers, now)
    BY <1>1, <1>2, <1>3, <1>4, <1>6 DEF InTime
  <2>2. \A q : CountedOf(sla, offers.heard, q) = nobody
    BY <1>6, <1>7 DEF CountedOf
  <2>3. \A q : LiveOf(sla, sla.day, q, "offered") = 0
    BY <1>2, <1>4 DEF LiveOf
  <2>4. OnceEach(sla, history, offers)
    BY <1>1, <1>5, <1>6, <1>7, <1>8, <2>2, <2>3 DEF OnceEach
  <2> QED BY <2>1, <2>4 DEF Exact
<1>14. MetExact(sla, history, offers)
  BY <1>5, <1>6, <1>7, <1>11 DEF MetExact, MetOnce
<1> QED BY <1>1, <1>9, <1>10, <1>12, <1>13, <1>14 DEF SlaInv, SlaHolds

LEMMA SlaSnapshots ==
  ASSUME SlaInv, KindsGrow, now' = now, SlaSnapshot PROVE SlaInv'
<1>1. now \in Nat /\ Sound(sla, offers) /\ offers' = offers
  BY DEF SlaInv, SlaHolds, SlaSnapshot
<1>2. CASE Rollover /\ sla' = Fresh(DayKey(now))
  <2>1. GoodFile(history) => Appends(history', history, ClosingOf(sla))
    BY <1>2, ClosingIs, WrittenWhole DEF Rollover
  <2>2. sla.day # DayKey(now)
    BY <1>2 DEF Rollover, KeepDay
  <2>3. Carried(sla, history, offers, sla', history', offers, now)
    BY <1>1, <1>2, <2>1, <2>2, HoldsClosed
  <2> QED BY <1>1, <2>3, HoldsAfter
<1>3. ASSUME NEW how \in {"full", "failed", "torn"}, RolloverFails(how), Trouble(how) PROVE SlaInv'
  <2>1. (how = "torn" => "torn" \in mishaps'.kinds) /\ (how # "torn" => "failed" \in mishaps'.kinds)
    BY <1>3 DEF Trouble, Note, Mishap, Mishaps, MishapsAnd
  <2> QED BY <1>1, <1>3, <2>1, SlaUnclosed
<1> QED BY <1>2, <1>3 DEF SlaSnapshot

LEMMA SlaTakes ==
  ASSUME MirrorInv, SlaInv, NEW i \in DOMAIN wire, NEW again \in BOOLEAN, HandleAmiEvent(i, again)
  PROVE  SlaInv'
<1>. DEFINE e == wire[i]
            d == Disorder(i, again)
<1>1. KindsGrow /\ now' = now
  BY Hearing DEF Hears, HandleAmiEvent
<1>2. \/ Sla(e)
      \/ \E how \in {"full", "failed", "torn"} :
           /\ SlaFails(how)
           /\ IF how = "full" THEN MishapsAnd(d, {"failed"}) ELSE Mishaps(d \cup {how})
  BY DEF HandleAmiEvent
<1>. HIDE DEF e, d
<1>3. CASE SlaHears(e)
  BY <1>1, <1>3, SlaHearing
<1>4. CASE UNCHANGED slaVars
  BY <1>1, <1>4, NothingHeard DEF slaVars
<1>5. ASSUME NEW how \in {"full", "failed", "torn"}, SlaFails(how),
             IF how = "full" THEN MishapsAnd(d, {"failed"}) ELSE Mishaps(d \cup {how})
      PROVE  SlaInv'
  <2>1. (how = "torn" => "torn" \in mishaps'.kinds) /\ (how # "torn" => "failed" \in mishaps'.kinds)
    BY <1>5 DEF Mishaps, MishapsAnd
  <2> QED BY <1>1, <1>5, <2>1, SlaUnclosed DEF SlaFails
<1> QED BY <1>2, <1>3, <1>4, <1>5 DEF Sla

LEMMA SlaSteps ==
  ASSUME MirrorInv, SlaInv, [DeskNext]_deskVars PROVE SlaInv'
<1>1. ASSUME NEW i \in DOMAIN wire, NEW again \in BOOLEAN, HandleAmiEvent(i, again) PROVE SlaInv'
  BY <1>1, SlaTakes
<1>2. CASE Restart
  <2>1. /\ sla' = Fresh(DayKey(now)) /\ UNCHANGED <<history, offers, now>> /\ Mishap("restart")
    BY <1>2 DEF Restart
  <2>2. KindsGrow /\ "restart" \in mishaps'.kinds
    BY <2>1, MishapsGrow DEF Mishap, Mishaps, MishapsAnd
  <2> QED BY <2>1, <2>2, SlaRestarts
<1>3. CASE Clock
  <2>1. /\ UNCHANGED <<sla, history, offers>> /\ now' \in Nat
        /\ IF now' > now THEN mishaps' = mishaps ELSE Mishap("setback")
    BY <1>3, StreamAssumption DEF Clock, SetClock, slaVars, NoMishap
  <2>2. KindsGrow /\ (now' > now \/ "setback" \in mishaps'.kinds)
    <3>1. Mishap("setback") => "setback" \in mishaps'.kinds
      BY DEF Mishap, Mishaps, MishapsAnd
    <3> QED BY <2>1, <3>1, MishapsGrow
  <2> QED BY <2>1, <2>2, SlaPasses
<1>4. CASE OfSla
  <2>1. KindsGrow /\ now' = now
    BY <1>4, SlaStrangers, TimeStands DEF Strangers
  <2>2. CASE SlaSnapshot
    BY <2>1, <2>2, SlaSnapshots
  <2>3. CASE UNCHANGED <<sla, history>> /\ offers' = [offers EXCEPT !.told = @ + 1]
    BY <2>1, <2>3, NothingHeard
  <2> QED BY <1>4, <2>2, <2>3 DEF OfSla, SlaStep, OfferEnds
<1>5. CASE OfMirror \/ OfBoard \/ OfPresence \/ OfCdrs \/ OfCalls \/ UNCHANGED deskVars
  <2>1. UNCHANGED <<sla, history, offers>>
    BY <1>5 DEF OfMirror, OfBoard, OfPresence, OfCdrs, OfCalls, deskVars, slaVars
  <2>2. now' = now
    <3>1. CASE OfMirror \/ OfCdrs \/ OfCalls
      BY <3>1, TimeStands
    <3>2. CASE OfBoard
      BY <3>2 DEF OfBoard, BoardStep, MemberChange, SetPause, DeviceChange, BoardUnheard
    <3>3. CASE OfPresence
      BY <3>3 DEF OfPresence, PresenceStep, SavePresence, AskPresence
    <3>4. CASE UNCHANGED deskVars
      BY <3>4 DEF deskVars, streamVars
    <3> QED BY <1>5, <3>1, <3>2, <3>3, <3>4
  <2>3. KindsGrow
    <3>1. CASE OfMirror \/ OfCdrs \/ OfCalls
      BY <3>1, MirrorStrangers, RecordsStrangers DEF Strangers
    <3>2. CASE OfBoard
      <4>1. mishaps' = mishaps \/ \E kind : Note(kind)
        BY <3>2, BoardTells DEF OfBoard
      <4> QED BY <4>1, MishapsGrow DEF Note
    <3>3. CASE OfPresence
      <4>1. NoMishap \/ Mishap("failed") \/ Note("overlap")
        BY <3>3 DEF OfPresence, PresenceStep, SavePresence, AskPresence
      <4> QED BY <4>1, MishapsGrow DEF NoMishap, Note
    <3>4. CASE UNCHANGED deskVars
      BY <3>4, MishapsGrow DEF deskVars, streamVars
    <3> QED BY <1>5, <3>1, <3>2, <3>3, <3>4
  <2> QED BY <2>1, <2>2, <2>3, NothingHeard
<1> QED BY <1>1, <1>2, <1>3, <1>4, <1>5 DEF DeskNext

\* What the history and the running day account for: a rollover moves the counts of the day
\* to the file, one row per queue, and of the calls of the running day those are counted
\* that have no Uniqueid or whose key is remembered, once each.
THEOREM HistoryIsKept == DeskSpec => [](MirrorInv /\ SlaInv)
<1>1. DeskInit => MirrorInv /\ SlaInv
  BY MirrorBegins, SlaBegins
<1>2. MirrorInv /\ SlaInv /\ [DeskNext]_deskVars => (MirrorInv /\ SlaInv)'
  BY DeskSteps, SlaSteps
<1> QED BY <1>1, <1>2, PTL DEF DeskSpec

\* What a file without broken lines says of a day.
LEMMA FileSays ==
  ASSUME GoodFile(history), NEW day \in Nat, NEW q, NEW field
  PROVE  Summary(history, Between(LoadAll, day, day), day, q, field) =
           Cardinality(Stored(history, day, q, field))
<1>1. Between(LoadAll, day, day) = {i \in DOMAIN history : history[i].date = day}
  <2>1. LoadAll = DOMAIN history /\ \A i \in DOMAIN history : history[i].date \in Nat
    BY DEF GoodFile, GoodRow, LoadAll
  <2>2. \A i \in DOMAIN history : day <= history[i].date /\ history[i].date <= day <=> history[i].date = day
    BY <2>1
  <2> QED BY <2>1, <2>2 DEF Between
<1>2. ASSUME NEW lines, lines = {i \in DOMAIN history : history[i].date = day}
      PROVE  {j \in lines : history[j].date = day /\ history[j].queue = q} =
             {j \in {i \in DOMAIN history : history[i].date = day /\ history[i].queue = q} :
                history[j].date = day /\ history[j].queue = q}
  BY <1>2
<1> QED BY <1>1, <1>2 DEF Summary, Units, Stored

LEMMA TruthOfHistory == SlaInv => HistoryIsTrue
<1>. SUFFICES ASSUME SlaInv, NEW day \in {h.day : h \in offers.heard}, NEW q \in SlaQueues
              PROVE
    LET lines == Between(LoadAll, day, day)
        real(calls) == Cardinality({h \in calls : h.day = day /\ h.queue = q})
        says(field) == Summary(history, lines, day, q, field) + Live(day, q, field)
    IN  /\ Never({"torn", "restart"}) =>
             says("offered") >= real(offers.heard) /\ says("within") >= real(offers.met)
        /\ Never({"torn", "failed", "setback"}) /\ Cardinality(offers.heard) <= MaxIds =>
             /\ says("offered") <= real(offers.heard)
             /\ Never({"restart"}) => says("within") <= real(offers.met)
  BY DEF HistoryIsTrue
<1>1. Sound(sla, offers) /\ day \in Nat
  BY DEF SlaInv, SlaHolds, Sound, OffersOK, OfferOK
<1>2. \A calls : {h \in calls : h.day = day /\ h.queue = q} = HeardOf(calls, day, q)
  BY DEF HeardOf
<1>3. \A field : Live(day, q, field) = LiveOf(sla, day, q, field)
  BY DEF Live, LiveOf
<1>4. GoodFile(history) =>
        \A field : Summary(history, Between(LoadAll, day, day), day, q, field) + Live(day, q, field) =
                     Account(sla, history, day, q, field)
  BY <1>1, <1>3, FileSays DEF Account
<1>5. /\ Never({"torn", "restart"}) => GoodFile(history) /\ NoneMissing(sla, history, offers)
      /\ Never({"torn", "failed", "setback"}) => GoodFile(history) /\ Exact(sla, history, offers, now)
      /\ Never({"torn", "failed", "setback"}) /\ Never({"restart"}) => MetExact(sla, history, offers)
  <2>1. /\ Never({"torn", "restart"}) => Never({"torn"})
        /\ Never({"torn", "failed", "setback"}) => Never({"torn"})
        /\ Never({"torn", "failed", "setback"}) /\ Never({"restart"}) =>
             Never({"torn", "failed", "setback", "restart"})
    BY DEF Never
  <2> QED BY <2>1 DEF SlaInv, SlaHolds
<1>6. ASSUME Never({"torn", "restart"})
      PROVE  /\ Account(sla, history, day, q, "offered") >= Cardinality(HeardOf(offers.heard, day, q))
             /\ Account(sla, history, day, q, "within") >= Cardinality(HeardOf(offers.met, day, q))
  BY <1>5, <1>6 DEF NoneMissing
<1>7. ASSUME Never({"torn", "failed", "setback"}), Cardinality(offers.heard) <= MaxIds
      PROVE  /\ Account(sla, history, day, q, "offered") <= Cardinality(HeardOf(offers.heard, day, q))
             /\ Never({"restart"}) =>
                  Account(sla, history, day, q, "within") <= Cardinality(HeardOf(offers.met, day, q))
  <2>1. /\ GoodFile(history) /\ InTime(sla, history, offers, now) /\ OnceEach(sla, history, offers)
        /\ Never({"restart"}) => MetOnce(sla, history, offers)
    BY <1>5, <1>7 DEF Exact, MetExact, FewHeard
  <2>2. Account(sla, history, day, q, "offered") <= Cardinality(HeardOf(offers.heard, day, q))
    BY <1>1, <2>1, AtMostHeard
  <2> QED BY <2>1, <2>2 DEF MetOnce
<1>. DEFINE says(field) == Summary(history, Between(LoadAll, day, day), day, q, field) + Live(day, q, field)
            real(calls) == Cardinality({h \in calls : h.day = day /\ h.queue = q})
<1>8. /\ \A calls : real(calls) = Cardinality(HeardOf(calls, day, q))
      /\ GoodFile(history) => \A field : says(field) = Account(sla, history, day, q, field)
  BY <1>2, <1>4
<1>. HIDE DEF says, real
<1>9. /\ Never({"torn", "restart"}) =>
           says("offered") >= real(offers.heard) /\ says("within") >= real(offers.met)
      /\ Never({"torn", "failed", "setback"}) /\ Cardinality(offers.heard) <= MaxIds =>
           /\ says("offered") <= real(offers.heard)
           /\ Never({"restart"}) => says("within") <= real(offers.met)
  BY <1>5, <1>6, <1>7, <1>8
<1> QED BY <1>9 DEF says, real

\* The rows of the history (queue_sla.py) and the counters of the running day together
\* account for every call heard of, on its day and in its queue: none is lost unless a
\* write came short or the process died, and none is counted twice unless an append
\* failed, the clock went back or more calls came than Uniqueids are remembered; for any
\* number of queues, calls, days and rows.
THEOREM HistoryTrue == DeskSpec => []HistoryIsTrue
<1>1. MirrorInv /\ SlaInv => HistoryIsTrue
  BY TruthOfHistory
<1> QED BY <1>1, HistoryIsKept, PTL
----------------------------------------------------------------------------
(* The counters of the day and the call log.  What is said of a counter    *)
(* and of the CDRs heard of is said of any such, m and cdrs; I are the     *)
(* numbers of the CDRs that the counter is about.                          *)

KeyOf(h) == <<h.e.leg, h.e.disposition>>
KeysAmong(cdrs, I) == {KeyOf(cdrs[i]) : i \in I}
AnsweredAmong(cdrs, I) == {i \in I : cdrs[i].e.disposition = "ANSWERED"}
TalkAmong(cdrs, I) == UNION {Seconds(i, cdrs[i].e.seconds) : i \in I}
OfDayAmong(cdrs, day) == {i \in DOMAIN cdrs : cdrs[i].day = day /\ cdrs[i].e.disposition \in Known}
OfAccountAmong(cdrs, I, t) == {i \in I : cdrs[i].e.account = t}

\* The types: of a counter, of the counters of all, and of the CDRs heard of.
MetricOK(m) ==
  /\ m = [day |-> m.day, answered |-> m.answered, missed |-> m.missed, talk |-> m.talk, seen |-> m.seen]
  /\ m.answered \in Nat /\ m.missed \in Nat /\ m.talk \in Nat
TenantsOK(td) ==
  /\ td = [day |-> td.day, by |-> td.by] /\ td.by = [t \in DOMAIN td.by |-> td.by[t]]
  /\ td.day \in Nat /\ DOMAIN td.by \subseteq Accounts /\ \A t \in DOMAIN td.by : MetricOK(td.by[t])
CdrsOK(cdrs) ==
  /\ IsWire(cdrs)
  /\ \A i \in DOMAIN cdrs : /\ cdrs[i].day \in Nat /\ cdrs[i].e.kind = "cdr" /\ CdrToldOK(cdrs[i].e)
                            /\ cdrs[i] = [e |-> cdrs[i].e, day |-> cdrs[i].day]

\* The keys a counter remembers are those of its CDRs and it counts each once; when no key
\* came again, what it counts as answered and as talked is so, as long as there is room.
Remembered(seq) == {seq[k] : k \in DOMAIN seq}
Remembers(m, cdrs, I) ==
  /\ Distinct(m.seen) /\ Remembered(m.seen) = KeysAmong(cdrs, I)
  /\ m.answered + m.missed = Cardinality(KeysAmong(cdrs, I))
  /\ Cardinality(KeysAmong(cdrs, I)) = Cardinality(I) =>
       /\ m.answered = Cardinality(AnsweredAmong(cdrs, I))
       /\ m.talk = Cardinality(TalkAmong(cdrs, AnsweredAmong(cdrs, I)))
Tallies(m, cdrs, I) ==
  /\ IsFiniteSet(I) /\ IsFiniteSet(TalkAmong(cdrs, AnsweredAmong(cdrs, I)))
  /\ Cardinality(KeysAmong(cdrs, I)) <= MaxCdrIds => Remembers(m, cdrs, I)

\* A counter, and the one of a company, as the day has it.
RolledTo(m, day) == IF m.day = day THEN m ELSE FreshDay(day)
ByOf(td, t, day) == IF td.day = day /\ t \in DOMAIN td.by THEN RolledTo(td.by[t], day) ELSE FreshDay(day)
CompaniesTally(td, cdrs, day) ==
  \A t \in Accounts : Tallies(ByOf(td, t, day), cdrs, OfAccountAmong(cdrs, OfDayAmong(cdrs, day), t))
DayTallied(m, td, cdrs, day) ==
  /\ m.day <= day /\ td.day <= day /\ \A i \in DOMAIN cdrs : cdrs[i].day <= day
  /\ Tallies(RolledTo(m, day), cdrs, OfDayAmong(cdrs, day))
  /\ Cardinality(Accounts) <= MaxTenants => CompaniesTally(td, cdrs, day)
LogFollows(log, cdrs) == DOMAIN log = DOMAIN cdrs /\ \A i \in DOMAIN log : log[i] = ReportRow(cdrs[i].e)

WireTellsCdrs == \A i \in DOMAIN wire : CdrToldOK(wire[i])
RecordsInv ==
  /\ now \in Nat /\ WireTellsCdrs /\ IsWire(callLog)
  /\ heard = [cdrs |-> heard.cdrs, dials |-> heard.dials] /\ CdrsOK(heard.cdrs)
  /\ MetricOK(daily) /\ daily.day \in Nat /\ TenantsOK(tenantDaily)
  /\ Never({"restart", "setback"}) => DayTallied(daily, tenantDaily, heard.cdrs, DayKey(now))
  /\ Never({"failed", "torn"}) => LogFollows(callLog, heard.cdrs)
LEMMA KeysFinite ==
  ASSUME NEW cdrs, NEW I, IsFiniteSet(I)
  PROVE  /\ IsFiniteSet(KeysAmong(cdrs, I)) /\ Cardinality(KeysAmong(cdrs, I)) \in Nat
         /\ Cardinality(I) \in Nat /\ Cardinality(KeysAmong(cdrs, I)) <= Cardinality(I)
<1>. DEFINE K == KeysAmong(cdrs, I)
            f == [i \in I |-> KeyOf(cdrs[i])]
<1>1. f \in Surjection(I, K)
  <2>1. f \in [I -> K] /\ \A k \in K : \E i \in I : f[i] = k
    BY DEF KeysAmong
  <2>. HIDE DEF f, K
  <2> QED BY <2>1 DEF Surjection
<1>. HIDE DEF f, K
<1>2. IsFiniteSet(K) /\ Cardinality(K) <= Cardinality(I)
  BY <1>1, FS_Surjection
<1> QED BY <1>2, FS_CardinalityType DEF K

\* CDRs heard of later do not change what is said of those before.
LEMMA CdrsBefore ==
  ASSUME NEW cdrs, NEW more, \A i \in DOMAIN cdrs : more[i] = cdrs[i], NEW I, I \subseteq DOMAIN cdrs
  PROVE  /\ KeysAmong(more, I) = KeysAmong(cdrs, I)
         /\ AnsweredAmong(more, I) = AnsweredAmong(cdrs, I)
         /\ TalkAmong(more, AnsweredAmong(more, I)) = TalkAmong(cdrs, AnsweredAmong(cdrs, I))
<1>1. \A i \in I : more[i] = cdrs[i]
  OBVIOUS
<1>2. AnsweredAmong(more, I) = AnsweredAmong(cdrs, I)
  BY <1>1 DEF AnsweredAmong
<1>3. KeysAmong(more, I) = KeysAmong(cdrs, I)
  BY <1>1 DEF KeysAmong
<1>4. AnsweredAmong(cdrs, I) \subseteq I
  BY DEF AnsweredAmong
<1>5. ASSUME NEW A, A \subseteq I PROVE TalkAmong(more, A) = TalkAmong(cdrs, A)
  <2>1. \A i \in A : Seconds(i, more[i].e.seconds) = Seconds(i, cdrs[i].e.seconds)
    BY <1>1, <1>5
  <2> QED BY <2>1 DEF TalkAmong
<1> QED BY <1>2, <1>3, <1>4, <1>5

LEMMA TallyStays ==
  ASSUME NEW m, NEW cdrs, NEW I, I \subseteq DOMAIN cdrs, Tallies(m, cdrs, I),
         NEW more, \A i \in DOMAIN cdrs : more[i] = cdrs[i]
  PROVE  Tallies(m, more, I)
BY CdrsBefore DEF Tallies, Remembers

\* A counter that begins counts none.
LEMMA TallyBegins ==
  ASSUME NEW day, NEW cdrs, NEW I, I = {} PROVE Tallies(FreshDay(day), cdrs, I)
<1>. DEFINE m == FreshDay(day)
            none == <<>>
<1>1. m.answered = 0 /\ m.missed = 0 /\ m.talk = 0 /\ m.seen = none
  BY DEF FreshDay
<1>2. IsWire(none) /\ DOMAIN none = {}
  BY NoWire
<1>. HIDE DEF m, none
<1>3. KeysAmong(cdrs, I) = {} /\ AnsweredAmong(cdrs, I) = {} /\ TalkAmong(cdrs, {}) = {}
  BY DEF KeysAmong, AnsweredAmong, TalkAmong
<1>4. IsFiniteSet({}) /\ Cardinality({}) = 0
  BY FS_EmptySet
<1>5. Distinct(none) /\ Remembered(none) = {}
  BY <1>2 DEF Distinct, Remembered
<1>6. Tallies(m, cdrs, I)
  BY <1>1, <1>3, <1>4, <1>5 DEF Tallies, Remembers
<1> QED BY <1>6 DEF m

\* The keys of a CDR more, those answered, and what was talked.
LEMMA CdrMore ==
  ASSUME NEW cdrs, IsWire(cdrs), NEW h, h.e.seconds \in Nat, NEW more, Adds(cdrs, h, more), NEW I,
         I \subseteq DOMAIN cdrs, IsFiniteSet(I), IsFiniteSet(TalkAmong(cdrs, AnsweredAmong(cdrs, I))),
         NEW n, n = Len(cdrs) + 1, NEW J, J = I \cup {n}
  PROVE  /\ n \notin I /\ IsFiniteSet(J) /\ Cardinality(J) = Cardinality(I) + 1
         /\ KeysAmong(more, J) = KeysAmong(cdrs, I) \cup {KeyOf(h)}
         /\ IsFiniteSet(TalkAmong(more, AnsweredAmong(more, J)))
         /\ h.e.disposition = "ANSWERED" =>
              /\ Cardinality(AnsweredAmong(more, J)) = Cardinality(AnsweredAmong(cdrs, I)) + 1
              /\ Cardinality(TalkAmong(more, AnsweredAmong(more, J))) =
                   Cardinality(TalkAmong(cdrs, AnsweredAmong(cdrs, I))) + h.e.seconds
         /\ h.e.disposition # "ANSWERED" =>
              /\ Cardinality(AnsweredAmong(more, J)) = Cardinality(AnsweredAmong(cdrs, I))
              /\ Cardinality(TalkAmong(more, AnsweredAmong(more, J))) =
                   Cardinality(TalkAmong(cdrs, AnsweredAmong(cdrs, I)))
<1>. DEFINE A == AnsweredAmong(cdrs, I)
            B == AnsweredAmong(more, J)
            U == TalkAmong(cdrs, A)
            V == TalkAmong(more, B)
            S == Seconds(n, h.e.seconds)
<1>1. /\ Len(cdrs) \in Nat /\ DOMAIN cdrs = 1..Len(cdrs) /\ more[n] = h
      /\ \A i \in DOMAIN cdrs : more[i] = cdrs[i]
  BY OneAdded
<1>2. n \notin DOMAIN cdrs /\ n \notin I
  BY <1>1
<1>3. \A i \in I : more[i] = cdrs[i]
  BY <1>1
<1>4. IsFiniteSet(J) /\ Cardinality(J) = Cardinality(I) + 1
  BY <1>2, FS_AddElement
<1>5. KeysAmong(more, J) = KeysAmong(cdrs, I) \cup {KeyOf(h)}
  <2>1. \A k : k \in KeysAmong(more, J) <=> \E i \in J : k = KeyOf(more[i])
    BY DEF KeysAmong
  <2>2. \A k : k \in KeysAmong(cdrs, I) <=> \E i \in I : k = KeyOf(cdrs[i])
    BY DEF KeysAmong
  <2>3. \A k : k \in KeysAmong(more, J) <=> k \in KeysAmong(cdrs, I) \/ k = KeyOf(h)
    BY <1>1, <1>3, <2>1, <2>2
  <2> QED BY <2>3
<1>6. B = IF h.e.disposition = "ANSWERED" THEN A \cup {n} ELSE A
  BY <1>1, <1>3 DEF AnsweredAmong
<1>7. n \notin A /\ A \subseteq I
  BY <1>2 DEF AnsweredAmong
<1>8. IsFiniteSet(A)
  BY <1>7, FS_Subset
<1>9. Cardinality(A \cup {n}) = Cardinality(A) + 1
  BY <1>7, <1>8, FS_AddElement
<1>10. \A i \in A : more[i] = cdrs[i]
  BY <1>3, <1>7
<1>. HIDE DEF A, B
<1>11. \A s : s \in U <=> \E i \in A : s \in Seconds(i, cdrs[i].e.seconds)
  BY DEF TalkAmong
<1>12. \A s : s \in V <=> \E i \in B : s \in Seconds(i, more[i].e.seconds)
  BY DEF TalkAmong
<1>13. IsFiniteSet(U)
  BY DEF A
<1>14. IsFiniteSet(S) /\ Cardinality(S) = h.e.seconds
  BY SecondsCount
<1>15. U \cap S = {}
  <2>1. \A s \in U : s[1] \in A
    BY <1>11 DEF Seconds
  <2>2. \A s \in S : s[1] = n
    BY DEF Seconds
  <2> QED BY <1>7, <2>1, <2>2
<1>16. more[n].e.seconds = h.e.seconds
  BY <1>1
<1>17. CASE h.e.disposition = "ANSWERED"
  <2>1. B = A \cup {n}
    BY <1>6, <1>17
  <2>2. \A s : s \in V <=> s \in U \/ s \in S
    BY <1>10, <1>11, <1>12, <1>16, <2>1
  <2>. HIDE DEF U, V, S
  <2>3. V = U \cup S
    BY <2>2
  <2>4. Cardinality(U \cap S) = 0
    BY <1>15, FS_EmptySet
  <2>5. IsFiniteSet(U \cup S) /\ Cardinality(U \cup S) = Cardinality(U) + Cardinality(S) - Cardinality(U \cap S)
    BY <1>13, <1>14, FS_Union
  <2>6. Cardinality(U) \in Nat
    BY <1>13, FS_CardinalityType
  <2>7. IsFiniteSet(V) /\ Cardinality(V) = Cardinality(U) + h.e.seconds
    BY <1>14, <2>3, <2>4, <2>5, <2>6
  <2>8. Cardinality(B) = Cardinality(A) + 1
    BY <1>9, <2>1
  <2> QED BY <1>2, <1>4, <1>5, <1>17, <2>7, <2>8 DEF A, B, U, V
<1>18. CASE h.e.disposition # "ANSWERED"
  <2>1. B = A
    BY <1>6, <1>18
  <2>2. \A s : s \in V <=> s \in U
    BY <1>10, <1>11, <1>12, <2>1
  <2>. HIDE DEF U, V, S
  <2>3. V = U
    BY <2>2
  <2>4. IsFiniteSet(V) /\ Cardinality(V) = Cardinality(U) /\ Cardinality(B) = Cardinality(A)
    BY <1>13, <2>1, <2>3
  <2> QED BY <1>2, <1>4, <1>5, <1>18, <2>4 DEF A, B, U, V
<1> QED BY <1>17, <1>18

\* What a counter remembers is no more than its CDRs have keys.
LEMMA SeenCount ==
  ASSUME NEW seq, Distinct(seq), NEW K, IsFiniteSet(K), Remembered(seq) = K
  PROVE  Len(seq) \in Nat /\ Len(seq) <= Cardinality(K)
<1>. DEFINE n == Len(seq)
<1>1. n \in Nat /\ DOMAIN seq = 1..n
  BY Wires DEF Distinct
<1>2. seq \in Injection(1..n, K)
  <2>. DEFINE T == {seq[k] : k \in DOMAIN seq}
  <2>1. seq \in Seq(T)
    BY DEF Distinct, IsWire
  <2>2. \A k \in DOMAIN seq : seq[k] \in K
    BY DEF Remembered
  <2>. HIDE DEF T
  <2>3. seq \in [1..Len(seq) -> T]
    BY <2>1, LenProperties
  <2>4. seq \in [1..n -> K]
    BY <1>1, <2>2, <2>3
  <2>. HIDE DEF n
  <2> QED BY <1>1, <2>4 DEF Injection, IsInjective, Distinct
<1>. HIDE DEF n
<1>3. 1 \in Int /\ n \in Int
  BY <1>1
<1>4. IsFiniteSet(1..n) /\ Cardinality(1..n) = IF 1 > n THEN 0 ELSE n - 1 + 1
  BY <1>3, FS_Interval
<1>5. Cardinality(1..n) = n
  BY <1>1, <1>4
<1>6. Cardinality(1..n) <= Cardinality(K)
  BY <1>2, <1>4, FS_Injection
<1> QED BY <1>1, <1>5, <1>6 DEF n
\* apply_cdr, of the day: a CDR that no counter knows, or whose key is remembered, is not
\* counted.
CountedIn(m, e) ==
  LET key == <<e.leg, e.disposition>>
  IN  IF e.disposition \notin Known \/ \E i \in DOMAIN m.seen : m.seen[i] = key THEN m
      ELSE IF e.disposition = "ANSWERED"
      THEN [m EXCEPT !.seen = Once(@, key), !.answered = @ + 1, !.talk = @ + e.seconds]
      ELSE [m EXCEPT !.seen = Once(@, key), !.missed = @ + 1]
LEMMA CdrApplied ==
  ASSUME NEW m, NEW e, NEW day, day = DayKey(now) PROVE ApplyCdr(m, e) = CountedIn(RolledTo(m, day), e)
BY DEF ApplyCdr, CountedIn, RollDay, RolledTo

LEMMA CountedTypes ==
  ASSUME NEW m, MetricOK(m), NEW e, e.seconds \in Nat, NEW c, c = CountedIn(m, e)
  PROVE  MetricOK(c) /\ c.day = m.day
<1>. DEFINE seen == Once(m.seen, <<e.leg, e.disposition>>)
<1>1. /\ m = [day |-> m.day, answered |-> m.answered, missed |-> m.missed, talk |-> m.talk, seen |-> m.seen]
      /\ m.answered \in Nat /\ m.missed \in Nat /\ m.talk \in Nat
  BY DEF MetricOK
<1>2. \/ c = m
      \/ c = [m EXCEPT !.seen = seen, !.answered = @ + 1, !.talk = @ + e.seconds]
      \/ c = [m EXCEPT !.seen = seen, !.missed = @ + 1]
  BY DEF CountedIn
<1>. HIDE DEF seen
<1>3. \/ c = m
      \/ c = [day |-> m.day, answered |-> m.answered + 1, missed |-> m.missed, talk |-> m.talk + e.seconds, seen |-> seen]
      \/ c = [day |-> m.day, answered |-> m.answered, missed |-> m.missed + 1, talk |-> m.talk, seen |-> seen]
  BY <1>1, <1>2
<1>4. CASE c = m
  BY <1>4
<1>5. CASE c = [day |-> m.day, answered |-> m.answered + 1, missed |-> m.missed, talk |-> m.talk + e.seconds, seen |-> seen]
  <2>1. /\ c.day = m.day /\ c.answered = m.answered + 1 /\ c.missed = m.missed
        /\ c.talk = m.talk + e.seconds /\ c.seen = seen
    BY <1>5
  <2> QED BY <1>1, <1>5, <2>1 DEF MetricOK
<1>6. CASE c = [day |-> m.day, answered |-> m.answered, missed |-> m.missed + 1, talk |-> m.talk, seen |-> seen]
  <2>1. /\ c.day = m.day /\ c.answered = m.answered /\ c.missed = m.missed + 1
        /\ c.talk = m.talk /\ c.seen = seen
    BY <1>6
  <2> QED BY <1>1, <1>6, <2>1 DEF MetricOK
<1> QED BY <1>3, <1>4, <1>5, <1>6

LEMMA KeyAdded ==
  ASSUME NEW seq, Distinct(seq), NEW key, key \notin Remembered(seq), NEW more, Adds(seq, key, more)
  PROVE  Distinct(more) /\ Remembered(more) = Remembered(seq) \cup {key}
<1>1. \A i \in DOMAIN seq : seq[i] # key
  BY DEF Remembered
<1>2. /\ Distinct(more) /\ \A i \in DOMAIN more : more[i] = key \/ \E j \in DOMAIN seq : more[i] = seq[j]
      /\ \A j \in DOMAIN seq : \E i \in DOMAIN more : more[i] = seq[j]
      /\ \E i \in DOMAIN more : more[i] = key
  BY <1>1, DistinctAdded
<1> QED BY <1>2 DEF Remembered

\* A CDR more, of those the counter is about: its key was remembered, or there is room.
LEMMA TallyAdds ==
  ASSUME NEW m, MetricOK(m), NEW cdrs, IsWire(cdrs), NEW h, h.e.seconds \in Nat,
         h.e.disposition \in Known, NEW more, Adds(cdrs, h, more),
         NEW I, I \subseteq DOMAIN cdrs, Tallies(m, cdrs, I), NEW J, J = I \cup {Len(cdrs) + 1},
         NEW c, c = CountedIn(m, h.e)
  PROVE  Tallies(c, more, J)
<1>. DEFINE K == KeysAmong(cdrs, I)
            L == KeysAmong(more, J)
            key == KeyOf(h)
            a == Cardinality(AnsweredAmong(cdrs, I))
            u == Cardinality(TalkAmong(cdrs, AnsweredAmong(cdrs, I)))
            b == Cardinality(AnsweredAmong(more, J))
            v == Cardinality(TalkAmong(more, AnsweredAmong(more, J)))
            s == h.e.seconds
<1>1. /\ IsFiniteSet(J) /\ Cardinality(J) = Cardinality(I) + 1 /\ L = K \cup {key}
      /\ IsFiniteSet(TalkAmong(more, AnsweredAmong(more, J)))
      /\ h.e.disposition = "ANSWERED" => b = a + 1 /\ v = u + s
      /\ h.e.disposition # "ANSWERED" => b = a /\ v = u
  BY CdrMore DEF Tallies
<1>0. IsFiniteSet(J) /\ Cardinality(J) = Cardinality(I) + 1 /\ L = K \cup {key}
  BY <1>1
<1>2. /\ IsFiniteSet(K) /\ Cardinality(K) \in Nat /\ Cardinality(I) \in Nat
      /\ Cardinality(K) <= Cardinality(I)
  BY KeysFinite DEF Tallies
<1>3. Cardinality(K) <= MaxCdrIds =>
        /\ Distinct(m.seen) /\ Remembered(m.seen) = K
        /\ m.answered + m.missed = Cardinality(K)
        /\ Cardinality(K) = Cardinality(I) => m.answered = a /\ m.talk = u
  BY DEF Tallies, Remembers
<1>4. (Distinct(c.seen) /\ Remembered(c.seen) = L
        /\ c.answered + c.missed = Cardinality(L)
        /\ (Cardinality(L) = Cardinality(J) => c.answered = b /\ c.talk = v))
      => Remembers(c, more, J)
  BY DEF Remembers
<1>5. key = <<h.e.leg, h.e.disposition>>
  BY DEF KeyOf
<1>. HIDE DEF K, L, key, a, b, u, v
<1>6. Cardinality(L) = (IF key \in K THEN Cardinality(K) ELSE Cardinality(K) + 1)
  BY <1>0, <1>2, FS_AddElement
<1>7. MaxCdrIds \in Nat
  BY RecordsAssumption
<1>. SUFFICES ASSUME Cardinality(L) <= MaxCdrIds PROVE Remembers(c, more, J)
  BY <1>0, <1>1 DEF Tallies, L
<1>8. Cardinality(K) <= MaxCdrIds
  BY <1>2, <1>6, <1>7
<1>9. /\ Distinct(m.seen) /\ Remembered(m.seen) = K
      /\ m.answered + m.missed = Cardinality(K)
      /\ Cardinality(K) = Cardinality(I) => m.answered = a /\ m.talk = u
  BY <1>3, <1>8
<1>10. CASE key \in K
  <2>1. \E i \in DOMAIN m.seen : m.seen[i] = key
    BY <1>9, <1>10 DEF Remembered
  <2>2. c = m
    BY <1>5, <2>1 DEF CountedIn
  <2>3. L = K
    BY <1>0, <1>10
  <2>4. Cardinality(L) # Cardinality(J)
    BY <1>0, <1>2, <1>6, <1>10
  <2> QED BY <1>4, <1>9, <2>2, <2>3, <2>4
<1>11. CASE key \notin K
  <2>. DEFINE seen == Append(m.seen, key)
  <2>1. \A i \in DOMAIN m.seen : m.seen[i] # key
    BY <1>9, <1>11 DEF Remembered
  <2>2. Len(m.seen) \in Nat /\ Len(m.seen) <= Cardinality(K)
    <3>. DEFINE seq == m.seen
    <3>1. Distinct(seq) /\ Remembered(seq) = K
      BY <1>9
    <3>. HIDE DEF seq
    <3>2. Len(seq) \in Nat /\ Len(seq) <= Cardinality(K)
      BY <1>2, <3>1, SeenCount
    <3> QED BY <3>2 DEF seq
  <2>3. ~(Len(m.seen) >= MaxCdrIds)
    BY <1>2, <1>6, <1>7, <1>11, <2>2
  <2>4. Once(m.seen, key) = seen
    BY <2>3 DEF Once
  <2>5. Distinct(seen) /\ Remembered(seen) = L
    <3>1. Adds(m.seen, key, seen)
      BY DEF Adds
    <3>. HIDE DEF seen
    <3>2. Distinct(seen) /\ Remembered(seen) = Remembered(m.seen) \cup {key}
      BY <1>9, <1>11, <3>1, KeyAdded
    <3> QED BY <1>0, <1>9, <3>2
  <2>6. m = [day |-> m.day, answered |-> m.answered, missed |-> m.missed, talk |-> m.talk, seen |-> m.seen]
        /\ m.answered \in Nat /\ m.missed \in Nat /\ m.talk \in Nat
    BY DEF MetricOK
  <2>7. Cardinality(L) = Cardinality(K) + 1
    BY <1>6, <1>11
  <2>8. Cardinality(L) = Cardinality(J) => m.answered = a /\ m.talk = u
    BY <1>0, <1>2, <1>9, <2>7
  <2>. HIDE DEF seen
  <2>9. CASE h.e.disposition = "ANSWERED"
    <3>1. c = [m EXCEPT !.seen = seen, !.answered = @ + 1, !.talk = @ + s]
      BY <1>5, <2>1, <2>4, <2>9 DEF CountedIn
    <3>2. c = [day |-> m.day, answered |-> m.answered + 1, missed |-> m.missed, talk |-> m.talk + s, seen |-> seen]
      BY <2>6, <3>1
    <3>3. c.answered = m.answered + 1 /\ c.missed = m.missed /\ c.talk = m.talk + s /\ c.seen = seen
      BY <3>2
    <3>4. c.answered + c.missed = Cardinality(L)
      BY <1>2, <1>9, <2>6, <2>7, <3>3
    <3>5. Cardinality(L) = Cardinality(J) => c.answered = b /\ c.talk = v
      BY <1>1, <2>8, <2>9, <3>3
    <3> QED BY <1>4, <2>5, <3>3, <3>4, <3>5
  <2>10. CASE h.e.disposition # "ANSWERED"
    <3>1. c = [m EXCEPT !.seen = seen, !.missed = @ + 1]
      BY <1>5, <2>1, <2>4, <2>10 DEF CountedIn
    <3>2. c = [day |-> m.day, answered |-> m.answered, missed |-> m.missed + 1, talk |-> m.talk, seen |-> seen]
      BY <2>6, <3>1
    <3>3. c.answered = m.answered /\ c.missed = m.missed + 1 /\ c.talk = m.talk /\ c.seen = seen
      BY <3>2
    <3>4. c.answered + c.missed = Cardinality(L)
      BY <1>2, <1>9, <2>6, <2>7, <3>3
    <3>5. Cardinality(L) = Cardinality(J) => c.answered = b /\ c.talk = v
      BY <1>1, <2>8, <2>10, <3>3
    <3> QED BY <1>4, <2>5, <3>3, <3>4, <3>5
  <2> QED BY <2>9, <2>10
<1> QED BY <1>10, <1>11
\* A CDR of the day is counted where it belongs, and only there.
IsNews(h, e, day) == h = [e |-> e, day |-> day]
LEMMA NewsTallied ==
  ASSUME NEW m, MetricOK(m), NEW cdrs, IsWire(cdrs), NEW e, e.seconds \in Nat, NEW h, NEW day,
         IsNews(h, e, day), NEW more, Adds(cdrs, h, more), NEW I, I \subseteq DOMAIN cdrs,
         Tallies(m, cdrs, I)
  PROVE  /\ Tallies(m, more, I)
         /\ e.disposition \in Known => Tallies(CountedIn(m, e), more, I \cup {Len(cdrs) + 1})
         /\ e.disposition \notin Known => CountedIn(m, e) = m
<1>1. h.e = e
  BY DEF IsNews
<1>2. \A i \in DOMAIN cdrs : more[i] = cdrs[i]
  BY OneAdded
<1>3. Tallies(m, more, I)
  BY <1>2, TallyStays
<1>4. ASSUME e.disposition \in Known PROVE Tallies(CountedIn(m, e), more, I \cup {Len(cdrs) + 1})
  BY <1>1, <1>4, TallyAdds
<1>5. e.disposition \notin Known => CountedIn(m, e) = m
  BY DEF CountedIn
<1> QED BY <1>3, <1>4, <1>5

LEMMA OfDayAdded ==
  ASSUME NEW cdrs, IsWire(cdrs), NEW e, NEW h, NEW day, IsNews(h, e, day), NEW more, Adds(cdrs, h, more),
         NEW n, n = Len(cdrs) + 1
  PROVE  /\ OfDayAmong(cdrs, day) \subseteq DOMAIN cdrs
         /\ \A t : OfAccountAmong(cdrs, OfDayAmong(cdrs, day), t) \subseteq DOMAIN cdrs
         /\ e.disposition \in Known => OfDayAmong(more, day) = OfDayAmong(cdrs, day) \cup {n}
         /\ e.disposition \notin Known => OfDayAmong(more, day) = OfDayAmong(cdrs, day)
         /\ \A t : e.disposition \in Known /\ e.account = t =>
              OfAccountAmong(more, OfDayAmong(more, day), t) =
                OfAccountAmong(cdrs, OfDayAmong(cdrs, day), t) \cup {n}
         /\ \A t : e.disposition \notin Known \/ e.account # t =>
              OfAccountAmong(more, OfDayAmong(more, day), t) =
                OfAccountAmong(cdrs, OfDayAmong(cdrs, day), t)
<1>. DEFINE A == OfDayAmong(cdrs, day)
            B == OfDayAmong(more, day)
<1>1. /\ h.e = e /\ h.day = day
  BY DEF IsNews
<1>2. /\ Len(cdrs) \in Nat /\ DOMAIN cdrs = 1..Len(cdrs) /\ DOMAIN more = 1..(Len(cdrs) + 1)
      /\ more[n] = h /\ \A i \in DOMAIN cdrs : more[i] = cdrs[i]
  BY OneAdded
<1>3. DOMAIN more = DOMAIN cdrs \cup {n} /\ n \notin DOMAIN cdrs
  BY <1>2
<1>4. A \subseteq DOMAIN cdrs /\ \A t : OfAccountAmong(cdrs, A, t) \subseteq A
  BY DEF OfDayAmong, OfAccountAmong
<1>5. \A i : i \in B <=> i \in A \/ (i = n /\ e.disposition \in Known)
  BY <1>1, <1>2, <1>3 DEF OfDayAmong
<1>. HIDE DEF A, B
<1>6. \A t, i : i \in OfAccountAmong(more, B, t) <=> i \in B /\ more[i].e.account = t
  BY DEF OfAccountAmong
<1>7. \A t, i : i \in OfAccountAmong(cdrs, A, t) <=> i \in A /\ cdrs[i].e.account = t
  BY DEF OfAccountAmong
<1>8. \A t, i : i \in OfAccountAmong(more, B, t) <=>
        i \in OfAccountAmong(cdrs, A, t) \/ (i = n /\ e.disposition \in Known /\ e.account = t)
  BY <1>1, <1>2, <1>4, <1>5, <1>6, <1>7
<1>9. /\ e.disposition \in Known => B = A \cup {n}
      /\ e.disposition \notin Known => B = A
  BY <1>5
<1>10. ASSUME NEW t, e.disposition \in Known, e.account = t
       PROVE  OfAccountAmong(more, B, t) = OfAccountAmong(cdrs, A, t) \cup {n}
  BY <1>8, <1>10
<1>11. ASSUME NEW t, e.disposition \notin Known \/ e.account # t
       PROVE  OfAccountAmong(more, B, t) = OfAccountAmong(cdrs, A, t)
  <2>1. \A i : i \in OfAccountAmong(more, B, t) <=> i \in OfAccountAmong(cdrs, A, t)
    BY <1>8, <1>11
  <2> QED BY <2>1
<1>12. \A t : OfAccountAmong(cdrs, A, t) \subseteq DOMAIN cdrs
  BY <1>4
<1> QED BY <1>4, <1>9, <1>10, <1>11, <1>12 DEF A, B

LEMMA RolledOK ==
  ASSUME NEW day, NEW m, MetricOK(m)
  PROVE  MetricOK(RolledTo(m, day)) /\ RolledTo(m, day).day = day
<1>1. MetricOK(FreshDay(day)) /\ FreshDay(day).day = day
  BY DEF MetricOK, FreshDay
<1> QED BY <1>1 DEF RolledTo

\* The counters of all.
LEMMA DayCounted ==
  ASSUME NEW m, MetricOK(m), NEW cdrs, IsWire(cdrs), NEW e, e.seconds \in Nat, NEW h, NEW day,
         IsNews(h, e, day), NEW more, Adds(cdrs, h, more),
         NEW c, c = CountedIn(RolledTo(m, day), e)
  PROVE  /\ MetricOK(c) /\ c.day = day
         /\ Tallies(RolledTo(m, day), cdrs, OfDayAmong(cdrs, day)) =>
              Tallies(RolledTo(c, day), more, OfDayAmong(more, day))
<1>. DEFINE r == RolledTo(m, day)
            I == OfDayAmong(cdrs, day)
            J == OfDayAmong(more, day)
            n == Len(cdrs) + 1
<1>1. MetricOK(r) /\ r.day = day
  BY RolledOK
<1>2. MetricOK(c) /\ c.day = r.day
  BY <1>1, CountedTypes
<1>3. RolledTo(c, day) = c
  BY <1>1, <1>2 DEF RolledTo
<1>4. /\ I \subseteq DOMAIN cdrs /\ (e.disposition \in Known => J = I \cup {n})
      /\ (e.disposition \notin Known => J = I)
  BY OfDayAdded
<1>. HIDE DEF r, I, J
<1>5. c = CountedIn(r, e)
  BY DEF r
<1>6. ASSUME Tallies(r, cdrs, I) PROVE Tallies(c, more, J)
  <2>1. /\ Tallies(r, more, I)
        /\ e.disposition \in Known => Tallies(CountedIn(r, e), more, I \cup {n})
        /\ e.disposition \notin Known => CountedIn(r, e) = r
    BY <1>1, <1>4, <1>6, NewsTallied
  <2> QED BY <1>4, <1>5, <2>1
<1> QED BY <1>1, <1>2, <1>3, <1>6 DEF r, I, J
\* The counters of the companies.
RolledTenants(td, day) == IF td.day = day THEN td ELSE [day |-> day, by |-> <<>>]
TenantCounted(td, e, day) ==
  LET m == RolledTenants(td, day)
      full == e.account \notin DOMAIN m.by /\ Cardinality(DOMAIN m.by) >= MaxTenants
  IN  IF e.account = NoCompany \/ full THEN m
      ELSE [m EXCEPT !.by = [t \in DOMAIN m.by \cup {e.account} |->
                               IF t = e.account THEN CountedIn(ByOf(m, t, day), e) ELSE m.by[t]]]

LEMMA ByOfOK ==
  ASSUME NEW td, TenantsOK(td), NEW t, NEW day PROVE MetricOK(ByOf(td, t, day)) /\ ByOf(td, t, day).day = day
<1>1. MetricOK(FreshDay(day)) /\ FreshDay(day).day = day
  BY DEF MetricOK, FreshDay
<1>2. ASSUME t \in DOMAIN td.by PROVE MetricOK(RolledTo(td.by[t], day)) /\ RolledTo(td.by[t], day).day = day
  BY <1>2, RolledOK DEF TenantsOK
<1> QED BY <1>1, <1>2 DEF ByOf

LEMMA TenantsRolled ==
  ASSUME NEW td, TenantsOK(td), NEW day \in Nat, NEW r, r = RolledTenants(td, day)
  PROVE  TenantsOK(r) /\ r.day = day /\ \A t : ByOf(r, t, day) = ByOf(td, t, day)
<1>1. CASE td.day = day
  BY <1>1 DEF RolledTenants
<1>2. CASE td.day # day
  <2>. DEFINE none == <<>>
  <2>1. r = [day |-> day, by |-> none] /\ DOMAIN none = {} /\ none = [t \in {} |-> none[t]]
    BY <1>2, NoWire DEF RolledTenants
  <2>. HIDE DEF none
  <2>2. r.day = day /\ r.by = none
    BY <2>1
  <2>3. TenantsOK(r)
    BY <2>1, <2>2 DEF TenantsOK
  <2>4. \A t : ByOf(r, t, day) = FreshDay(day) /\ ByOf(td, t, day) = FreshDay(day)
    BY <1>2, <2>1, <2>2 DEF ByOf
  <2> QED BY <2>2, <2>3, <2>4
<1> QED BY <1>1, <1>2

LEMMA CompanyCounted ==
  ASSUME NEW td, TenantsOK(td), NEW day \in Nat, NEW e, e.seconds \in Nat,
         e.account \in Accounts \cup {NoCompany}, NEW c, c = TenantCounted(td, e, day)
  PROVE  /\ TenantsOK(c) /\ c.day = day
         /\ \A t : t # e.account => ByOf(c, t, day) = ByOf(td, t, day)
         /\ Cardinality(Accounts) <= MaxTenants /\ e.account \in Accounts =>
              ByOf(c, e.account, day) = CountedIn(ByOf(td, e.account, day), e)
<1>. DEFINE m == RolledTenants(td, day)
            full == e.account \notin DOMAIN m.by /\ Cardinality(DOMAIN m.by) >= MaxTenants
            new == CountedIn(ByOf(m, e.account, day), e)
            by == [t \in DOMAIN m.by \cup {e.account} |->
                     IF t = e.account THEN CountedIn(ByOf(m, t, day), e) ELSE m.by[t]]
<1>1. TenantsOK(m) /\ m.day = day /\ \A t : ByOf(m, t, day) = ByOf(td, t, day)
  BY TenantsRolled
<1>2. c = IF e.account = NoCompany \/ full THEN m ELSE [m EXCEPT !.by = by]
  BY DEF TenantCounted
<1>3. m = [day |-> day, by |-> m.by] /\ DOMAIN m.by \subseteq Accounts
  BY <1>1 DEF TenantsOK
<1>4. /\ DOMAIN by = DOMAIN m.by \cup {e.account} /\ by[e.account] = new
      /\ \A t \in DOMAIN m.by : t # e.account => by[t] = m.by[t]
      /\ by = [t \in DOMAIN by |-> by[t]]
  OBVIOUS
<1>5. MetricOK(new) /\ new.day = day
  <2>. DEFINE b == ByOf(m, e.account, day)
  <2>1. MetricOK(b) /\ b.day = day
    BY <1>1, ByOfOK
  <2>. HIDE DEF b
  <2>2. MetricOK(CountedIn(b, e)) /\ CountedIn(b, e).day = day
    BY <2>1, CountedTypes
  <2> QED BY <2>2 DEF b
<1>6. Cardinality(Accounts) <= MaxTenants /\ e.account \in Accounts => e.account # NoCompany /\ ~full
  <2>. SUFFICES ASSUME Cardinality(Accounts) <= MaxTenants, e.account \in Accounts, e.account \notin DOMAIN m.by
                PROVE  ~(Cardinality(DOMAIN m.by) >= MaxTenants)
    BY RecordsAssumption
  <2>. DEFINE D == DOMAIN m.by
  <2>1. D \subseteq Accounts /\ D # Accounts /\ IsFiniteSet(Accounts) /\ MaxTenants \in Nat
    BY <1>3, RecordsAssumption
  <2>. HIDE DEF D
  <2>2. IsFiniteSet(D) /\ Cardinality(D) <= Cardinality(Accounts) /\ Cardinality(D) # Cardinality(Accounts)
    BY <2>1, FS_Subset
  <2>3. Cardinality(D) \in Nat /\ Cardinality(Accounts) \in Nat
    BY <2>1, <2>2, FS_CardinalityType
  <2>4. ~(Cardinality(D) >= MaxTenants)
    BY <2>1, <2>2, <2>3
  <2> QED BY <2>4 DEF D
<1>7. new = CountedIn(ByOf(td, e.account, day), e)
  BY <1>1
<1>. HIDE DEF m, full, new, by
<1>8. CASE e.account = NoCompany \/ full
  <2>1. c = m
    BY <1>2, <1>8
  <2> QED BY <1>1, <1>6, <1>8, <2>1
<1>9. CASE ~(e.account = NoCompany \/ full)
  <2>1. c = [day |-> day, by |-> by]
    BY <1>2, <1>3, <1>9
  <2>2. c.day = day /\ c.by = by
    BY <2>1
  <2>3. TenantsOK(c)
    <3>1. \A t \in DOMAIN by : MetricOK(by[t])
      BY <1>1, <1>4, <1>5 DEF TenantsOK
    <3>2. DOMAIN by \subseteq Accounts
      BY <1>3, <1>4, <1>9
    <3> QED BY <1>4, <2>1, <2>2, <3>1, <3>2 DEF TenantsOK
  <2>4. ByOf(c, e.account, day) = new
    BY <1>4, <1>5, <2>2 DEF ByOf, RolledTo
  <2>5. \A t : t # e.account => ByOf(c, t, day) = ByOf(m, t, day)
    BY <1>1, <1>4, <2>2 DEF ByOf
  <2> QED BY <1>1, <1>7, <2>2, <2>3, <2>4, <2>5
<1> QED BY <1>8, <1>9

LEMMA CompaniesCounted ==
  ASSUME NEW td, TenantsOK(td), NEW cdrs, IsWire(cdrs), NEW e, e.seconds \in Nat,
         e.account \in Accounts \cup {NoCompany}, NEW h, NEW day \in Nat, IsNews(h, e, day),
         NEW more, Adds(cdrs, h, more), Cardinality(Accounts) <= MaxTenants,
         CompaniesTally(td, cdrs, day), NEW c, c = TenantCounted(td, e, day)
  PROVE  CompaniesTally(c, more, day)
<1>. DEFINE n == Len(cdrs) + 1
<1>1. /\ \A t : t # e.account => ByOf(c, t, day) = ByOf(td, t, day)
      /\ e.account \in Accounts => ByOf(c, e.account, day) = CountedIn(ByOf(td, e.account, day), e)
  BY CompanyCounted
<1>. SUFFICES ASSUME NEW t \in Accounts
              PROVE  Tallies(ByOf(c, t, day), more, OfAccountAmong(more, OfDayAmong(more, day), t))
  BY DEF CompaniesTally
<1>. DEFINE m == ByOf(td, t, day)
            I == OfAccountAmong(cdrs, OfDayAmong(cdrs, day), t)
            J == OfAccountAmong(more, OfDayAmong(more, day), t)
<1>2. /\ I \subseteq DOMAIN cdrs
      /\ e.disposition \in Known /\ e.account = t => J = I \cup {n}
      /\ e.disposition \notin Known \/ e.account # t => J = I
  BY OfDayAdded
<1>3. MetricOK(m) /\ Tallies(m, cdrs, I)
  BY ByOfOK DEF CompaniesTally
<1>. HIDE DEF m, I, J
<1>4. /\ Tallies(m, more, I)
      /\ e.disposition \in Known => Tallies(CountedIn(m, e), more, I \cup {n})
      /\ e.disposition \notin Known => CountedIn(m, e) = m
  BY <1>2, <1>3, NewsTallied
<1>5. ByOf(c, t, day) = IF t = e.account THEN CountedIn(m, e) ELSE m
  BY <1>1 DEF m
<1>6. Tallies(ByOf(c, t, day), more, J)
  BY <1>2, <1>4, <1>5
<1> QED BY <1>6 DEF J
LEMMA TenantApplied ==
  ASSUME NEW e, NEW day, day = DayKey(now)
  PROVE  /\ e.kind = "cdr" => ApplyTenantCdr(e) = TenantCounted(tenantDaily, e, day)
         /\ e.kind # "cdr" => ApplyTenantCdr(e) = RolledTenants(tenantDaily, day)
<1>. DEFINE m == RolledTenants(tenantDaily, day)
            old == IF e.account \in DOMAIN m.by THEN m.by[e.account] ELSE FreshDay(day)
<1>1. RollTenants = m /\ m.day = day
  BY DEF RollTenants, RolledTenants
<1>2. FreshDay(day).day = day
  BY DEF FreshDay
<1>3. ByOf(m, e.account, day) = RolledTo(old, day)
  BY <1>1, <1>2 DEF ByOf, RolledTo
<1>4. ApplyCdr(old, e) = CountedIn(ByOf(m, e.account, day), e)
  BY <1>3, CdrApplied
<1>. HIDE DEF m
<1>5. ASSUME e.kind # "cdr" PROVE ApplyTenantCdr(e) = m
  BY <1>1, <1>5 DEF ApplyTenantCdr
<1>6. ASSUME e.kind = "cdr" PROVE ApplyTenantCdr(e) = TenantCounted(tenantDaily, e, day)
  <2>. DEFINE full == e.account \notin DOMAIN m.by /\ Cardinality(DOMAIN m.by) >= MaxTenants
              f == [t \in DOMAIN m.by \cup {e.account} |-> IF t = e.account THEN ApplyCdr(old, e) ELSE m.by[t]]
              g == [t \in DOMAIN m.by \cup {e.account} |->
                      IF t = e.account THEN CountedIn(ByOf(m, t, day), e) ELSE m.by[t]]
  <2>1. ApplyTenantCdr(e) = IF e.account = NoCompany \/ full THEN m ELSE [m EXCEPT !.by = f]
    BY <1>1, <1>6 DEF ApplyTenantCdr
  <2>2. TenantCounted(tenantDaily, e, day) = IF e.account = NoCompany \/ full THEN m ELSE [m EXCEPT !.by = g]
    BY DEF TenantCounted, m
  <2>3. f = g
    BY <1>4
  <2> QED BY <2>1, <2>2, <2>3
<1> QED BY <1>5, <1>6 DEF m

\* A CDR more, in the counters and in the log.
LEMMA NewsCounted ==
  ASSUME NEW m, MetricOK(m), NEW td, TenantsOK(td), NEW cdrs, CdrsOK(cdrs), NEW e, e.kind = "cdr",
         CdrToldOK(e), NEW h, NEW day \in Nat, IsNews(h, e, day), NEW more, Adds(cdrs, h, more),
         NEW c, c = CountedIn(RolledTo(m, day), e), NEW d, d = TenantCounted(td, e, day)
  PROVE  /\ MetricOK(c) /\ c.day = day /\ TenantsOK(d) /\ CdrsOK(more)
         /\ DayTallied(m, td, cdrs, day) => DayTallied(c, d, more, day)
<1>1. IsWire(cdrs) /\ e.seconds \in Nat /\ e.account \in Accounts \cup {NoCompany}
  BY DEF CdrsOK, CdrToldOK
<1>2. /\ MetricOK(c) /\ c.day = day
      /\ Tallies(RolledTo(m, day), cdrs, OfDayAmong(cdrs, day)) =>
           Tallies(RolledTo(c, day), more, OfDayAmong(more, day))
  BY <1>1, DayCounted
<1>3. TenantsOK(d) /\ d.day = day
  BY <1>1, CompanyCounted
<1>4. Cardinality(Accounts) <= MaxTenants /\ CompaniesTally(td, cdrs, day) => CompaniesTally(d, more, day)
  BY <1>1, CompaniesCounted
<1>5. /\ IsWire(more) /\ Len(cdrs) \in Nat /\ DOMAIN cdrs = 1..Len(cdrs) /\ DOMAIN more = 1..(Len(cdrs) + 1)
      /\ more[Len(cdrs) + 1] = h /\ \A i \in DOMAIN cdrs : more[i] = cdrs[i]
  BY <1>1, OneAdded
<1>6. \A i \in DOMAIN more : i \in DOMAIN cdrs \/ i = Len(cdrs) + 1
  BY <1>5
<1>7. h = [e |-> e, day |-> day] /\ h.e = e /\ h.day = day
  BY DEF IsNews
<1>8. CdrsOK(more)
  BY <1>5, <1>6, <1>7 DEF CdrsOK
<1>9. ASSUME \A i \in DOMAIN cdrs : cdrs[i].day <= day PROVE \A i \in DOMAIN more : more[i].day <= day
  BY <1>5, <1>6, <1>7, <1>9
<1>10. c.day <= day /\ d.day <= day
  BY <1>2, <1>3
<1> QED BY <1>2, <1>3, <1>4, <1>8, <1>9, <1>10 DEF DayTallied

LEMMA CdrLogGrows ==
  ASSUME NEW log, IsWire(log), NEW cdrs, IsWire(cdrs), NEW e, NEW h, h.e = e, NEW more, Adds(cdrs, h, more),
         NEW log2, Adds(log, ReportRow(e), log2)
  PROVE  IsWire(log2) /\ (LogFollows(log, cdrs) => LogFollows(log2, more))
<1>1. /\ Len(cdrs) \in Nat /\ DOMAIN cdrs = 1..Len(cdrs) /\ DOMAIN more = 1..(Len(cdrs) + 1)
      /\ more[Len(cdrs) + 1] = h /\ \A i \in DOMAIN cdrs : more[i] = cdrs[i]
  BY OneAdded
<1>2. /\ IsWire(log2) /\ Len(log) \in Nat /\ DOMAIN log = 1..Len(log) /\ DOMAIN log2 = 1..(Len(log) + 1)
      /\ log2[Len(log) + 1] = ReportRow(e) /\ \A i \in DOMAIN log : log2[i] = log[i]
  BY OneAdded
<1>3. ASSUME LogFollows(log, cdrs) PROVE LogFollows(log2, more)
  <2>1. DOMAIN log = DOMAIN cdrs /\ \A i \in DOMAIN log : log[i] = ReportRow(cdrs[i].e)
    BY <1>3 DEF LogFollows
  <2>2. Len(log) = Len(cdrs)
    <3>. DEFINE a == Len(log)
                b == Len(cdrs)
    <3>1. a \in Nat /\ b \in Nat /\ 1..a = 1..b
      BY <1>1, <1>2, <2>1
    <3>. HIDE DEF a, b
    <3>2. \A k \in Nat : k \in 1..a <=> k \in 1..b
      BY <3>1
    <3>3. a <= b /\ b <= a
      <4>1. ASSUME NEW k \in Nat, NEW l \in Nat, 1..k = 1..l PROVE k <= l
        <5>1. CASE k = 0
          BY <5>1
        <5>2. CASE k # 0
          <6>1. k \in 1..k
            BY <5>2
          <6>2. k \in 1..l
            BY <4>1, <6>1
          <6> QED BY <6>2
        <5> QED BY <5>1, <5>2
      <4> QED BY <3>1, <4>1
    <3>4. a = b
      BY <3>1, <3>3
    <3> QED BY <3>4 DEF a, b
  <2>3. DOMAIN log2 = DOMAIN more
    BY <1>1, <1>2, <2>2
  <2>4. \A i \in DOMAIN log2 : i \in DOMAIN log \/ i = Len(log) + 1
    BY <1>2
  <2>5. \A i \in DOMAIN log2 : log2[i] = ReportRow(more[i].e)
    BY <1>1, <1>2, <2>1, <2>2, <2>4
  <2> QED BY <2>3, <2>5 DEF LogFollows
<1> QED BY <1>2, <1>3
\* An event is handled: a CDR is heard of, and its line written unless the log cannot be.
CdrHeard(e) ==
  /\ heard'.cdrs = Append(heard.cdrs, [e |-> e, day |-> DayKey(now)])
  /\ callLog' = Append(callLog, ReportRow(e)) \/ (callLog' = callLog /\ "failed" \in mishaps'.kinds)
LEMMA CdrHandled ==
  ASSUME RecordsInv, NEW i \in DOMAIN wire, NEW again \in BOOLEAN, HandleAmiEvent(i, again), NEW e, e = wire[i]
  PROVE  /\ Cdrs(e) /\ heard' = [cdrs |-> heard'.cdrs, dials |-> heard'.dials]
         /\ e.kind = "cdr" => CdrHeard(e)
         /\ e.kind # "cdr" => heard'.cdrs = heard.cdrs /\ callLog' = callLog
<1>1. heard = [cdrs |-> heard.cdrs, dials |-> heard.dials]
  BY DEF RecordsInv
<1>2. /\ FirstTrackers(e)
      /\ \/ RecordsHear(e)
         \/ RestUnheard /\ (Outcome(e) \/ e.kind = "member_pause")
         \/ RecordsFail(e) /\ "failed" \in mishaps'.kinds
  BY DEF HandleAmiEvent, Mishaps, MishapsAnd
<1>3. CASE RecordsHear(e)
  <2>. DEFINE cdrs == IF e.kind = "cdr" THEN Append(heard.cdrs, [e |-> e, day |-> DayKey(now)]) ELSE heard.cdrs
              dials == IF e.kind = "dial_begin" /\ e.external
                       THEN Append(heard.dials, [speaker |-> e.speaker, at |-> now]) ELSE heard.dials
  <2>1. heard' = [heard EXCEPT !.cdrs = cdrs, !.dials = dials]
    BY <1>3 DEF RecordsHear
  <2>2. IF e.kind = "cdr" THEN callLog' = Append(callLog, ReportRow(e)) ELSE callLog' = callLog
    BY <1>3 DEF RecordsHear
  <2>3. cdrs = IF e.kind = "cdr" THEN Append(heard.cdrs, [e |-> e, day |-> DayKey(now)]) ELSE heard.cdrs
    OBVIOUS
  <2>. HIDE DEF cdrs, dials
  <2>4. heard' = [cdrs |-> cdrs, dials |-> dials]
    BY <1>1, <2>1
  <2>5. heard'.cdrs = cdrs /\ heard'.dials = dials
    BY <2>4
  <2> QED BY <1>2, <2>2, <2>3, <2>4, <2>5 DEF CdrHeard, FirstTrackers
<1>4. CASE RestUnheard /\ (Outcome(e) \/ e.kind = "member_pause")
  <2>1. e.kind # "cdr"
    BY <1>4 DEF Outcome
  <2>2. heard' = heard /\ callLog' = callLog
    BY <1>4 DEF RestUnheard
  <2> QED BY <1>1, <1>2, <2>1, <2>2 DEF FirstTrackers
<1>5. CASE RecordsFail(e) /\ "failed" \in mishaps'.kinds
  <2>. DEFINE cdrs == IF e.kind = "cdr" THEN Append(heard.cdrs, [e |-> e, day |-> DayKey(now)]) ELSE heard.cdrs
  <2>1. heard' = [heard EXCEPT !.cdrs = cdrs] /\ callLog' = callLog
    BY <1>5 DEF RecordsFail
  <2>2. cdrs = IF e.kind = "cdr" THEN Append(heard.cdrs, [e |-> e, day |-> DayKey(now)]) ELSE heard.cdrs
    OBVIOUS
  <2>. HIDE DEF cdrs
  <2>3. heard' = [cdrs |-> cdrs, dials |-> heard.dials]
    BY <1>1, <2>1
  <2>4. heard'.cdrs = cdrs /\ heard'.dials = heard.dials
    BY <2>3
  <2> QED BY <1>2, <1>5, <2>1, <2>2, <2>3, <2>4 DEF CdrHeard, FirstTrackers
<1> QED BY <1>2, <1>3, <1>4, <1>5

\* What is left as it is, and the companies of a new day.
LEMMA CompaniesRolled ==
  ASSUME NEW m, NEW td, TenantsOK(td), NEW cdrs, NEW day \in Nat, NEW r, r = RolledTenants(td, day)
  PROVE  TenantsOK(r) /\ (DayTallied(m, td, cdrs, day) => DayTallied(m, r, cdrs, day))
<1>1. TenantsOK(r) /\ r.day = day /\ \A t : ByOf(r, t, day) = ByOf(td, t, day)
  BY TenantsRolled
<1> QED BY <1>1 DEF DayTallied, CompaniesTally

LEMMA RecordsKept ==
  ASSUME RecordsInv, KindsGrow, now' = now, WireTellsCdrs', callLog' = callLog, daily' = daily,
         heard' = [cdrs |-> heard'.cdrs, dials |-> heard'.dials], heard'.cdrs = heard.cdrs,
         tenantDaily' = tenantDaily \/ tenantDaily' = RolledTenants(tenantDaily, DayKey(now))
  PROVE  RecordsInv'
<1>. DEFINE day == DayKey(now)
            td == tenantDaily
            td2 == tenantDaily'
            m == daily
            cdrs == heard.cdrs
<1>1. /\ day \in Nat /\ TenantsOK(td)
      /\ Never({"restart", "setback"}) => DayTallied(m, td, cdrs, day)
      /\ Never({"failed", "torn"}) => LogFollows(callLog, cdrs)
      /\ IsWire(callLog) /\ CdrsOK(cdrs) /\ MetricOK(m) /\ m.day \in Nat
  BY DaysPass DEF RecordsInv
<1>2. /\ Never({"restart", "setback"})' => Never({"restart", "setback"})
      /\ Never({"failed", "torn"})' => Never({"failed", "torn"})
  BY NeverBefore
<1>3. td2 = td \/ td2 = RolledTenants(td, day)
  OBVIOUS
<1>4. now' \in Nat /\ DayKey(now') = day /\ heard'.cdrs = cdrs /\ daily' = m
  BY DEF RecordsInv
<1>. HIDE DEF day, td, td2, m, cdrs
<1>5. TenantsOK(td2) /\ (DayTallied(m, td, cdrs, day) => DayTallied(m, td2, cdrs, day))
  BY <1>1, <1>3, CompaniesRolled
<1> QED BY <1>1, <1>2, <1>4, <1>5 DEF RecordsInv, td2

LEMMA RecordsTake ==
  ASSUME MirrorInv, RecordsInv, NEW i \in DOMAIN wire, NEW again \in BOOLEAN, HandleAmiEvent(i, again)
  PROVE  RecordsInv'
<1>. DEFINE e == wire[i]
            day == DayKey(now)
<1>1. Hears(i, again) /\ KindsGrow /\ now' = now
  BY Hearing DEF Hears, HandleAmiEvent
<1>2. WireTellsCdrs'
  <2>1. \A j \in DOMAIN wire' : \E k \in DOMAIN wire : wire'[j] = wire[k]
    BY <1>1, WireHeard
  <2> QED BY <2>1 DEF RecordsInv, WireTellsCdrs
<1>3. CdrToldOK(e)
  BY DEF RecordsInv, WireTellsCdrs
<1>4. /\ Cdrs(e) /\ heard' = [cdrs |-> heard'.cdrs, dials |-> heard'.dials]
      /\ e.kind = "cdr" => CdrHeard(e)
      /\ e.kind # "cdr" => heard'.cdrs = heard.cdrs /\ callLog' = callLog
  BY CdrHandled
<1>. HIDE DEF e
<1>5. /\ daily' = IF e.kind = "cdr" THEN CountedIn(RolledTo(daily, day), e) ELSE daily
      /\ tenantDaily' = IF e.kind = "cdr" THEN TenantCounted(tenantDaily, e, day)
                        ELSE RolledTenants(tenantDaily, day)
  BY <1>4, CdrApplied, TenantApplied DEF Cdrs
<1>6. CASE e.kind # "cdr"
  BY <1>1, <1>2, <1>4, <1>5, <1>6, RecordsKept
<1>7. CASE e.kind = "cdr"
  <2>. DEFINE h == [e |-> e, day |-> day]
              m == daily
              td == tenantDaily
              cdrs == heard.cdrs
              more == heard'.cdrs
              log == callLog
              log2 == callLog'
              c == daily'
              d == tenantDaily'
              row == ReportRow(e)
  <2>1. /\ day \in Nat /\ MetricOK(m) /\ TenantsOK(td) /\ CdrsOK(cdrs) /\ IsWire(cdrs) /\ IsWire(log)
        /\ Never({"restart", "setback"}) => DayTallied(m, td, cdrs, day)
        /\ Never({"failed", "torn"}) => LogFollows(log, cdrs)
    BY DaysPass DEF RecordsInv, CdrsOK
  <2>2. IsNews(h, e, day) /\ h.e = e /\ Adds(cdrs, h, more)
    BY <1>4, <1>7 DEF IsNews, Adds, CdrHeard
  <2>3. c = CountedIn(RolledTo(m, day), e) /\ d = TenantCounted(td, e, day)
    BY <1>5, <1>7
  <2>4. /\ Never({"restart", "setback"})' => Never({"restart", "setback"})
        /\ Never({"failed", "torn"})' => Never({"failed", "torn"})
    BY <1>1, NeverBefore
  <2>5. Adds(log, row, log2) \/ (log2 = log /\ ~Never({"failed", "torn"})')
    BY <1>4, <1>7 DEF CdrHeard, Adds, Never
  <2>6. now' \in Nat /\ DayKey(now') = day
    BY <1>1 DEF RecordsInv
  <2>7. row = ReportRow(e)
    OBVIOUS
  <2>. HIDE DEF day, h, m, td, cdrs, more, log, log2, c, d, row
  <2>8. /\ MetricOK(c) /\ c.day = day /\ TenantsOK(d) /\ CdrsOK(more)
        /\ DayTallied(m, td, cdrs, day) => DayTallied(c, d, more, day)
    BY <1>3, <1>7, <2>1, <2>2, <2>3, NewsCounted
  <2>9. IsWire(log2) /\ (Never({"failed", "torn"})' => LogFollows(log2, more))
    <3>1. CASE Adds(log, row, log2)
      <4>1. IsWire(log2) /\ (LogFollows(log, cdrs) => LogFollows(log2, more))
        BY <2>1, <2>2, <2>7, <3>1, CdrLogGrows
      <4> QED BY <2>1, <2>4, <4>1
    <3>2. CASE log2 = log /\ ~Never({"failed", "torn"})'
      BY <2>1, <3>2
    <3> QED BY <2>5, <3>1, <3>2
  <2>10. Never({"restart", "setback"})' => DayTallied(c, d, more, day)
    BY <2>1, <2>4, <2>8
  <2> QED BY <1>2, <1>4, <2>1, <2>6, <2>8, <2>9, <2>10 DEF RecordsInv, more, log2, c, d
<1> QED BY <1>6, <1>7
\* A new day: nothing was heard of it yet.
LEMMA NewDayTallied ==
  ASSUME NEW m, m.day \in Nat, NEW td, TenantsOK(td), NEW cdrs, CdrsOK(cdrs),
         NEW day \in Nat, DayTallied(m, td, cdrs, day), NEW next \in Nat, day <= next
  PROVE  DayTallied(m, td, cdrs, next)
<1>1. /\ m.day <= day /\ td.day <= day /\ \A i \in DOMAIN cdrs : cdrs[i].day <= day
      /\ td.day \in Nat /\ \A i \in DOMAIN cdrs : cdrs[i].day \in Nat
  BY DEF DayTallied, TenantsOK, CdrsOK
<1>2. CASE next = day
  BY <1>2
<1>3. CASE next # day
  <2>. DEFINE I == OfDayAmong(cdrs, next)
  <2>1. m.day # next /\ td.day # next /\ \A i \in DOMAIN cdrs : cdrs[i].day # next
    BY <1>1, <1>3
  <2>2. I = {}
    BY <2>1 DEF OfDayAmong
  <2>3. \A t : OfAccountAmong(cdrs, I, t) = {}
    BY <2>2 DEF OfAccountAmong
  <2>4. RolledTo(m, next) = FreshDay(next) /\ \A t : ByOf(td, t, next) = FreshDay(next)
    BY <2>1 DEF RolledTo, ByOf
  <2>. HIDE DEF I
  <2>5. Tallies(FreshDay(next), cdrs, I) /\ \A t : Tallies(FreshDay(next), cdrs, OfAccountAmong(cdrs, I, t))
    BY <2>2, <2>3, TallyBegins
  <2>6. m.day <= next /\ td.day <= next /\ \A i \in DOMAIN cdrs : cdrs[i].day <= next
    BY <1>1
  <2>7. Tallies(RolledTo(m, next), cdrs, I) /\ \A t : Tallies(ByOf(td, t, next), cdrs, OfAccountAmong(cdrs, I, t))
    BY <2>4, <2>5
  <2> QED BY <2>6, <2>7 DEF DayTallied, CompaniesTally, I
<1> QED BY <1>2, <1>3

LEMMA RecordsIdle ==
  ASSUME MirrorInv, RecordsInv, Strangers \/ wire' = wire, KindsGrow, now' = now,
         UNCHANGED <<daily, tenantDaily, callLog, heard>>
  PROVE  RecordsInv'
<1>1. WireTellsCdrs'
  <2>1. CASE wire' = wire
    BY <2>1 DEF RecordsInv, WireTellsCdrs
  <2>2. CASE Strangers
    <3>1. ASSUME NEW j \in DOMAIN wire' PROVE CdrToldOK(wire'[j])
      <4>1. CASE j \in DOMAIN wire
        BY <2>2, <4>1 DEF Strangers, Extended, RecordsInv, WireTellsCdrs
      <4>2. CASE j \notin DOMAIN wire
        BY <2>2, <4>2 DEF Strangers, New, Stranger
      <4> QED BY <4>1, <4>2
    <3> QED BY <3>1 DEF WireTellsCdrs
  <2> QED BY <2>1, <2>2
<1>2. heard' = [cdrs |-> heard'.cdrs, dials |-> heard'.dials] /\ heard'.cdrs = heard.cdrs
  BY DEF RecordsInv
<1> QED BY <1>1, <1>2, RecordsKept

LEMMA RecordsRestart ==
  ASSUME MirrorInv, RecordsInv, Restart PROVE RecordsInv'
<1>1. /\ wire' = <<>> /\ Mishap("restart") /\ UNCHANGED <<now, heard, callLog>>
      /\ daily' = FreshDay(DayKey(now)) /\ tenantDaily' = [day |-> DayKey(now), by |-> <<>>]
  BY DEF Restart
<1>2. DOMAIN wire' = {} /\ "restart" \in mishaps'.kinds
  BY <1>1, NoWire DEF Mishap, Mishaps, MishapsAnd
<1>3. ~Never({"restart", "setback"})' /\ KindsGrow
  BY <1>1, <1>2, MishapsGrow DEF Never
<1>4. DayKey(now) \in Nat
  BY DaysPass DEF RecordsInv
<1>5. MetricOK(daily') /\ daily'.day \in Nat
  BY <1>1, <1>4 DEF FreshDay, MetricOK
<1>6. TenantsOK(tenantDaily')
  <2>. DEFINE none == <<>>
              td == tenantDaily'
              day == DayKey(now)
  <2>1. td = [day |-> day, by |-> none] /\ DOMAIN none = {} /\ none = [t \in {} |-> none[t]] /\ day \in Nat
    BY <1>1, <1>4, NoWire
  <2>. HIDE DEF none, td, day
  <2>2. td.day = day /\ td.by = none
    BY <2>1
  <2>3. TenantsOK(td)
    BY <2>1, <2>2 DEF TenantsOK
  <2> QED BY <2>3 DEF td
<1>7. WireTellsCdrs'
  BY <1>2 DEF WireTellsCdrs
<1>8. Never({"failed", "torn"})' => Never({"failed", "torn"})
  BY <1>3, NeverBefore
<1> QED BY <1>1, <1>3, <1>5, <1>6, <1>7, <1>8 DEF RecordsInv

LEMMA RecordsPass ==
  ASSUME MirrorInv, RecordsInv, Clock PROVE RecordsInv'
<1>1. /\ UNCHANGED <<wire, daily, tenantDaily, callLog, heard>> /\ now' \in Clocks
      /\ IF now' > now THEN mishaps' = mishaps ELSE Mishap("setback")
  BY DEF Clock, SetClock, recordVars, NoMishap
<1>2. KindsGrow /\ now' \in Nat /\ (Never({"restart", "setback"})' => now' > now)
  <2>1. Mishap("setback") => ~Never({"restart", "setback"})'
    BY DEF Mishap, Mishaps, MishapsAnd, Never
  <2> QED BY <1>1, <2>1, MishapsGrow, StreamAssumption
<1>3. /\ Never({"restart", "setback"})' => Never({"restart", "setback"})
      /\ Never({"failed", "torn"})' => Never({"failed", "torn"})
  BY <1>2, NeverBefore
<1>4. WireTellsCdrs'
  BY <1>1 DEF RecordsInv, WireTellsCdrs
<1>5. ASSUME Never({"restart", "setback"})' PROVE DayTallied(daily, tenantDaily, heard.cdrs, DayKey(now'))
  <2>. DEFINE day == DayKey(now)
              next == DayKey(now')
  <2>1. day \in Nat /\ next \in Nat /\ day <= next
    <3>. DEFINE a == now
                b == now'
    <3>1. a \in Nat /\ b \in Nat /\ a <= b
      BY <1>2, <1>5 DEF RecordsInv
    <3>. HIDE DEF a, b
    <3>2. DayKey(a) \in Nat /\ DayKey(b) \in Nat /\ DayKey(a) <= DayKey(b)
      BY <3>1, DaysPass
    <3> QED BY <3>2 DEF a, b
  <2>2. DayTallied(daily, tenantDaily, heard.cdrs, day)
    BY <1>3, <1>5 DEF RecordsInv
  <2>3. daily.day \in Nat /\ TenantsOK(tenantDaily) /\ CdrsOK(heard.cdrs)
    BY DEF RecordsInv
  <2>. HIDE DEF day, next
  <2>4. DayTallied(daily, tenantDaily, heard.cdrs, next)
    BY <2>1, <2>2, <2>3, NewDayTallied
  <2> QED BY <2>4 DEF next
<1> QED BY <1>1, <1>2, <1>3, <1>4, <1>5 DEF RecordsInv

LEMMA RecordsBegin == DeskInit => RecordsInv
<1>. SUFFICES ASSUME DeskInit PROVE RecordsInv
  OBVIOUS
<1>. DEFINE none == <<>>
            day == DayKey(now)
            m == daily
            td == tenantDaily
<1>1. /\ now = StartClock /\ now \in Nat /\ wire = none /\ callLog = none
      /\ heard = [cdrs |-> none, dials |-> none] /\ m = FreshDay(day) /\ td = [day |-> day, by |-> none]
  BY StreamAssumption DEF DeskInit, StreamInit, RecordsInit
<1>2. IsWire(none) /\ DOMAIN none = {} /\ none = [t \in {} |-> none[t]]
  BY NoWire
<1>3. day \in Nat
  BY <1>1, DaysPass
<1>. HIDE DEF none, day, m, td
<1>4. MetricOK(m) /\ m.day = day
  BY <1>1 DEF FreshDay, MetricOK
<1>5. td.day = day /\ td.by = none
  BY <1>1
<1>6. TenantsOK(td)
  BY <1>1, <1>2, <1>3, <1>5 DEF TenantsOK
<1>7. CdrsOK(none)
  BY <1>2 DEF CdrsOK
<1>8. DayTallied(m, td, none, day)
  <2>. DEFINE I == OfDayAmong(none, day)
  <2>1. I = {} /\ \A t : OfAccountAmong(none, I, t) = {}
    BY <1>2 DEF OfDayAmong, OfAccountAmong
  <2>. HIDE DEF I
  <2>2. Tallies(FreshDay(day), none, I) /\ \A t : Tallies(FreshDay(day), none, OfAccountAmong(none, I, t))
    BY <2>1, TallyBegins
  <2>3. RolledTo(m, day) = FreshDay(day) /\ \A t : ByOf(td, t, day) = FreshDay(day)
    BY <1>1, <1>2, <1>4, <1>5 DEF RolledTo, ByOf
  <2>4. Tallies(RolledTo(m, day), none, I) /\ \A t : Tallies(ByOf(td, t, day), none, OfAccountAmong(none, I, t))
    BY <2>2, <2>3
  <2>5. m.day <= day /\ td.day <= day
    BY <1>3, <1>4, <1>5
  <2> QED BY <1>2, <2>4, <2>5 DEF DayTallied, CompaniesTally, I
<1>9. LogFollows(none, none)
  BY <1>2 DEF LogFollows
<1>10. heard.cdrs = none /\ heard = [cdrs |-> heard.cdrs, dials |-> heard.dials]
  BY <1>1
<1>11. WireTellsCdrs
  BY <1>1, <1>2 DEF WireTellsCdrs
<1>12. RecordsInv <=>
         /\ now \in Nat /\ WireTellsCdrs /\ IsWire(callLog)
         /\ heard = [cdrs |-> heard.cdrs, dials |-> heard.dials] /\ CdrsOK(heard.cdrs)
         /\ MetricOK(m) /\ m.day \in Nat /\ TenantsOK(td)
         /\ Never({"restart", "setback"}) => DayTallied(m, td, heard.cdrs, day)
         /\ Never({"failed", "torn"}) => LogFollows(callLog, heard.cdrs)
  BY DEF RecordsInv, m, td, day
<1> QED BY <1>1, <1>2, <1>3, <1>4, <1>6, <1>7, <1>8, <1>9, <1>10, <1>11, <1>12
LEMMA RecordsSteps ==
  ASSUME MirrorInv, RecordsInv, [DeskNext]_deskVars PROVE RecordsInv'
<1>1. ASSUME NEW i \in DOMAIN wire, NEW again \in BOOLEAN, HandleAmiEvent(i, again) PROVE RecordsInv'
  BY <1>1, RecordsTake
<1>2. CASE Restart \/ Clock
  BY <1>2, RecordsRestart, RecordsPass
<1>3. CASE OfMirror \/ OfSla \/ OfCdrs \/ OfCalls
  <2>1. Strangers /\ now' = now
    BY <1>3, TimeStands, MirrorStrangers, SlaStrangers, RecordsStrangers
  <2>2. UNCHANGED <<daily, tenantDaily, callLog, heard>>
    <3>1. \A e : Emit(e) => UNCHANGED <<daily, tenantDaily, callLog, heard>>
      BY DEF Emit
    <3>2. OfCdrs \/ OfCalls => \E e : Emit(e)
      BY DEF OfCdrs, OfCalls, CdrStep, CallStep, CallEnds, CallRings, QualityTold, CallLost, CallRated
    <3> QED BY <1>3, <3>1, <3>2 DEF OfMirror, OfSla, recordVars
  <2> QED BY <2>1, <2>2, RecordsIdle DEF Strangers
<1>4. CASE OfBoard
  <2>1. UNCHANGED <<daily, tenantDaily, callLog, heard, now>>
    BY <1>4 DEF OfBoard, BoardStep, MemberChange, SetPause, DeviceChange, BoardUnheard, recordVars
  <2>2. KindsGrow
    <3>1. mishaps' = mishaps \/ \E kind : Note(kind)
      BY <1>4, BoardTells DEF OfBoard
    <3> QED BY <3>1, MishapsGrow DEF Note
  <2>3. WireTellsCdrs'
    <3>1. PICK E : IsWire(E) /\ Appends(wire', wire, E) /\ \A k \in DOMAIN E : OfAgents(E[k])
      BY <1>4, BoardTells DEF OfBoard
    <3>2. /\ \A j \in DOMAIN wire : wire'[j] = wire[j]
          /\ \A j \in DOMAIN wire' \ DOMAIN wire : \E k \in DOMAIN E : wire'[j] = E[k]
      BY <3>1, WireAppend DEF MirrorInv
    <3>3. \A k \in DOMAIN E : CdrToldOK(E[k])
      BY <3>1 DEF OfAgents, CdrToldOK, MemberKinds
    <3> QED BY <3>2, <3>3 DEF RecordsInv, WireTellsCdrs
  <2>4. heard' = [cdrs |-> heard'.cdrs, dials |-> heard'.dials]
    BY <2>1 DEF RecordsInv
  <2> QED BY <2>1, <2>2, <2>3, <2>4, RecordsKept
<1>5. CASE OfPresence
  <2>1. wire' = wire /\ UNCHANGED <<daily, tenantDaily, callLog, heard, now>>
    BY <1>5 DEF OfPresence, PresenceStep, SavePresence, AskPresence, recordVars
  <2>2. KindsGrow
    <3>1. NoMishap \/ Mishap("failed") \/ Note("overlap")
      BY <1>5 DEF OfPresence, PresenceStep, SavePresence, AskPresence
    <3> QED BY <3>1, MishapsGrow DEF NoMishap, Note
  <2> QED BY <2>1, <2>2, RecordsIdle
<1>6. CASE UNCHANGED deskVars
  <2>1. wire' = wire /\ UNCHANGED <<daily, tenantDaily, callLog, heard, now, mishaps>>
    BY <1>6 DEF deskVars, streamVars, recordVars
  <2>2. KindsGrow
    BY <2>1, MishapsGrow
  <2> QED BY <2>1, <2>2, RecordsIdle
<1> QED BY <1>1, <1>2, <1>3, <1>4, <1>5, <1>6 DEF DeskNext

\* Of the CDRs heard of in a day each counter, of all and of a company, remembers the keys
\* and has counted each once, and the log has one line for each CDR.
THEOREM RecordsAreKept == DeskSpec => [](MirrorInv /\ RecordsInv)
<1>1. DeskInit => MirrorInv /\ RecordsInv
  BY MirrorBegins, RecordsBegin
<1>2. MirrorInv /\ RecordsInv /\ [DeskNext]_deskVars => (MirrorInv /\ RecordsInv)'
  BY DeskSteps, RecordsSteps
<1> QED BY <1>1, <1>2, PTL DEF DeskSpec

\* The log says of the day of those CDRs what they say of it themselves.
SaysOfDay(log, cdrs, today, calls) ==
  /\ {i \in {j \in DOMAIN log : log[j].disposition \in Known} : log[i].date = today} = calls
  /\ AnsweredOf(log, calls) = AnsweredAmong(cdrs, calls)
  /\ Talked(log, AnsweredOf(log, calls)) = Cardinality(TalkAmong(cdrs, AnsweredAmong(cdrs, calls)))
  /\ {log[i].tenant : i \in calls} = {SpeakerCompany[cdrs[i].e.speaker] : i \in calls}
  /\ \A t : {j \in DOMAIN log : log[j].disposition \in Known}
              \cap {i \in DOMAIN log : Matches(log[i], today, today, {x \in Speakers : SpeakerCompany[x] = t}, t)}
            = {i \in calls : log[i].tenant = t}

\* What the report of the day says, when each CDR is heard of on the day on which it ends.
LEMMA ReportOfDay ==
  ASSUME NEW log, NEW cdrs, CdrsOK(cdrs), LogFollows(log, cdrs), NEW today \in Nat,
         \A i \in DOMAIN cdrs : cdrs[i].e.day = cdrs[i].day, NEW calls, calls = OfDayAmong(cdrs, today)
  PROVE  SaysOfDay(log, cdrs, today, calls)
<1>1. /\ DOMAIN log = DOMAIN cdrs
      /\ \A i \in DOMAIN cdrs :
           /\ log[i].date = cdrs[i].day /\ log[i].disposition = cdrs[i].e.disposition
           /\ log[i].operator = cdrs[i].e.speaker /\ log[i].tenant = SpeakerCompany[cdrs[i].e.speaker]
           /\ cdrs[i].e.disposition = "ANSWERED" => log[i].seconds = cdrs[i].e.seconds
           /\ cdrs[i].day \in Nat /\ cdrs[i].e.speaker \in Speakers
  <2>1. \A i \in DOMAIN cdrs : cdrs[i].day \in Nat /\ cdrs[i].e.speaker \in Speakers
    BY DEF CdrsOK, CdrToldOK
  <2>2. DOMAIN log = DOMAIN cdrs /\ \A i \in DOMAIN cdrs : log[i] = ReportRow(cdrs[i].e)
    BY DEF LogFollows
  <2>3. \A e : /\ ReportRow(e).date = e.day /\ ReportRow(e).disposition = e.disposition
               /\ ReportRow(e).operator = e.speaker /\ ReportRow(e).tenant = SpeakerCompany[e.speaker]
               /\ e.disposition = "ANSWERED" => ReportRow(e).seconds = e.seconds
    BY DEF ReportRow
  <2> QED BY <2>1, <2>2, <2>3
<1>2. \A i : i \in calls <=> i \in DOMAIN cdrs /\ cdrs[i].day = today /\ cdrs[i].e.disposition \in Known
  BY DEF OfDayAmong
<1>3. {i \in {j \in DOMAIN log : log[j].disposition \in Known} : log[i].date = today} = calls
  BY <1>1, <1>2
<1>4. AnsweredOf(log, calls) = AnsweredAmong(cdrs, calls)
  BY <1>1, <1>2 DEF AnsweredOf, AnsweredAmong
<1>5. Talked(log, AnsweredOf(log, calls)) = Cardinality(TalkAmong(cdrs, AnsweredAmong(cdrs, calls)))
  <2>. DEFINE A == AnsweredAmong(cdrs, calls)
  <2>1. \A i \in A : log[i].seconds = cdrs[i].e.seconds
    BY <1>1, <1>2 DEF AnsweredAmong
  <2>. HIDE DEF A
  <2>2. \A i \in A : {i} \X (1..log[i].seconds) = Seconds(i, cdrs[i].e.seconds)
    BY <2>1 DEF Seconds
  <2>3. UNION {{i} \X (1..log[i].seconds) : i \in A} = TalkAmong(cdrs, A)
    BY <2>2 DEF TalkAmong
  <2>4. Talked(log, A) = Cardinality(TalkAmong(cdrs, A))
    BY <2>3 DEF Talked
  <2> QED BY <1>4, <2>4 DEF A
<1>6. {log[i].tenant : i \in calls} = {SpeakerCompany[cdrs[i].e.speaker] : i \in calls}
  <2>1. \A i \in calls : log[i].tenant = SpeakerCompany[cdrs[i].e.speaker]
    BY <1>1, <1>2
  <2> QED BY <2>1
<1>7. ASSUME NEW t
      PROVE  {j \in DOMAIN log : log[j].disposition \in Known}
               \cap {i \in DOMAIN log : Matches(log[i], today, today, {x \in Speakers : SpeakerCompany[x] = t}, t)}
             = {i \in calls : log[i].tenant = t}
  <2>1. ASSUME NEW i \in DOMAIN log
        PROVE  Matches(log[i], today, today, {x \in Speakers : SpeakerCompany[x] = t}, t) <=>
                 cdrs[i].day = today /\ log[i].tenant = t
    <3>1. /\ log[i].date \in Nat /\ log[i].date = cdrs[i].day /\ log[i].operator \in Speakers
          /\ log[i].tenant = SpeakerCompany[log[i].operator]
      BY <1>1
    <3>2. today <= log[i].date /\ log[i].date <= today <=> cdrs[i].day = today
      BY <3>1
    <3> QED BY <3>1, <3>2 DEF Matches
  <2>2. \A i : i \in calls /\ log[i].tenant = t <=>
           /\ i \in DOMAIN log /\ log[i].disposition \in Known
           /\ Matches(log[i], today, today, {x \in Speakers : SpeakerCompany[x] = t}, t)
    BY <1>1, <1>2, <2>1
  <2> QED BY <2>2
<1> QED BY <1>3, <1>4, <1>5, <1>6, <1>7 DEF SaysOfDay

LEMMA TruthOfRecords == RecordsInv => ReportsAgree
<1>. SUFFICES ASSUME RecordsInv, Never({"restart", "setback"}),
                     Cardinality(Keys(OfDay(DayKey(now)))) <= MaxCdrIds
              PROVE
    LET today == DayKey(now)
        calls == OfDay(today)
        rolled == RollDay(daily)
        known == {i \in DOMAIN callLog : callLog[i].disposition \in Known}
        report == {i \in known : callLog[i].date = today}
    IN  /\ rolled.answered + rolled.missed = Cardinality(Keys(calls))
        /\ Cardinality(Accounts) <= MaxTenants => \A t \in Accounts :
             LET m == MetricsOf(t)
             IN  m.answered + m.missed = Cardinality(Keys(OfAccount(calls, t)))
        /\ Cardinality(Keys(calls)) = Cardinality(calls) /\ Never({"failed", "torn"})
             /\ (\A i \in DOMAIN heard.cdrs : heard.cdrs[i].e.day = heard.cdrs[i].day) =>
             /\ Counts(rolled) = Aggregate(callLog, report)
             /\ GroupBy(callLog, report, "tenant") =
                  [t \in {SpeakerCompany[heard.cdrs[i].e.speaker] : i \in calls} |->
                     Aggregate(callLog, known \cap Query(today, today,
                       {x \in Speakers : SpeakerCompany[x] = t}, t))]
  BY DEF ReportsAgree
<1>. DEFINE today == DayKey(now)
            cdrs == heard.cdrs
            calls == OfDayAmong(cdrs, today)
            rolled == RolledTo(daily, today)
            K == KeysAmong(cdrs, calls)
            known == {j \in DOMAIN callLog : callLog[j].disposition \in Known}
            report == {i \in known : callLog[i].date = today}
<1>1. OfDay(today) = calls /\ RollDay(daily) = rolled /\ \A I : Keys(I) = KeysAmong(cdrs, I)
  BY DEF OfDay, OfDayAmong, RollDay, RolledTo, Keys, KeysAmong, KeyOf
<1>2. /\ today \in Nat /\ CdrsOK(cdrs) /\ MetricOK(rolled)
      /\ Tallies(rolled, cdrs, calls)
      /\ Cardinality(Accounts) <= MaxTenants => CompaniesTally(tenantDaily, cdrs, today)
  BY DaysPass, RolledOK DEF RecordsInv, DayTallied
<1>3. Cardinality(K) <= MaxCdrIds
  BY <1>1
<1>4. Remembers(rolled, cdrs, calls)
  BY <1>2, <1>3 DEF Tallies
<1>5. rolled.answered + rolled.missed = Cardinality(K)
  BY <1>4 DEF Remembers
<1>6. ASSUME Cardinality(Accounts) <= MaxTenants, NEW t \in Accounts
      PROVE  MetricsOf(t).answered + MetricsOf(t).missed = Cardinality(Keys(OfAccount(calls, t)))
  <2>. DEFINE m == ByOf(tenantDaily, t, today)
              I == OfAccountAmong(cdrs, calls, t)
  <2>1. MetricsOf(t) = m
    BY NoWire DEF MetricsOf, ByOf, RollTenants, RollDay, RolledTo
  <2>2. OfAccount(calls, t) = I
    BY DEF OfAccount, OfAccountAmong
  <2>3. I \subseteq calls /\ Tallies(m, cdrs, I)
    BY <1>2, <1>6 DEF CompaniesTally, OfAccountAmong
  <2>4. KeysAmong(cdrs, I) \subseteq K
    BY <2>3 DEF KeysAmong
  <2>. HIDE DEF m, I, K, calls, cdrs
  <2>5. IsFiniteSet(K) /\ Cardinality(K) \in Nat
    BY <1>2, KeysFinite DEF Tallies, K
  <2>6. Cardinality(KeysAmong(cdrs, I)) <= Cardinality(K) /\ Cardinality(KeysAmong(cdrs, I)) \in Nat
    BY <2>4, <2>5, FS_Subset, FS_CardinalityType
  <2>7. MaxCdrIds \in Nat
    BY RecordsAssumption
  <2>8. m.answered + m.missed = Cardinality(KeysAmong(cdrs, I))
    BY <1>3, <2>3, <2>5, <2>6, <2>7 DEF Tallies, Remembers
  <2> QED BY <1>1, <2>1, <2>2, <2>8
<1>7. ASSUME Cardinality(K) = Cardinality(calls), Never({"failed", "torn"}),
             \A i \in DOMAIN cdrs : cdrs[i].e.day = cdrs[i].day
      PROVE  /\ Counts(rolled) = Aggregate(callLog, report)
             /\ GroupBy(callLog, report, "tenant") =
                  [t \in {SpeakerCompany[cdrs[i].e.speaker] : i \in calls} |->
                     Aggregate(callLog, known \cap Query(today, today,
                       {x \in Speakers : SpeakerCompany[x] = t}, t))]
  <2>1. LogFollows(callLog, cdrs)
    BY <1>7 DEF RecordsInv
  <2>2. /\ report = calls
        /\ AnsweredOf(callLog, calls) = AnsweredAmong(cdrs, calls)
        /\ Talked(callLog, AnsweredOf(callLog, calls)) = Cardinality(TalkAmong(cdrs, AnsweredAmong(cdrs, calls)))
        /\ {callLog[i].tenant : i \in calls} = {SpeakerCompany[cdrs[i].e.speaker] : i \in calls}
        /\ \A t : known \cap {i \in DOMAIN callLog : Matches(callLog[i], today, today, {x \in Speakers : SpeakerCompany[x] = t}, t)}
                  = {i \in calls : callLog[i].tenant = t}
    <3>1. calls = OfDayAmong(cdrs, today)
      OBVIOUS
    <3>2. SaysOfDay(callLog, cdrs, today, calls)
      <4>. HIDE DEF calls, cdrs, today, known, report, rolled, K
      <4> QED BY <1>2, <1>7, <2>1, <3>1, ReportOfDay
    <3>. HIDE DEF calls, cdrs, today
    <3> QED BY <3>2 DEF SaysOfDay
  <2>3. \A t : known \cap Query(today, today, {x \in Speakers : SpeakerCompany[x] = t}, t)
               = {i \in calls : callLog[i].tenant = t}
    BY <2>2 DEF Query
  <2>4. Counts(rolled) = Aggregate(callLog, calls)
    <3>. DEFINE a == Cardinality(AnsweredAmong(cdrs, calls))
                n == Cardinality(calls)
    <3>1. rolled.answered = a /\ rolled.talk = Talked(callLog, AnsweredOf(callLog, calls))
      BY <1>4, <1>7, <2>2 DEF Remembers
    <3>2. a = Cardinality(AnsweredOf(callLog, calls))
      BY <2>2
    <3>3. rolled.answered \in Nat /\ rolled.missed \in Nat
      BY <1>2 DEF MetricOK
    <3>4. n = Cardinality(K)
      BY <1>7
    <3>. HIDE DEF a, n, rolled, calls, K
    <3>5. rolled.missed = n - a
      BY <1>5, <3>1, <3>3, <3>4
    <3> QED BY <3>1, <3>2, <3>5 DEF Counts, Aggregate, n
  <2>. HIDE DEF today, cdrs, calls, known, report
  <2>5. GroupBy(callLog, calls, "tenant") =
          [t \in {callLog[i].tenant : i \in calls} |-> Aggregate(callLog, {i \in calls : callLog[i].tenant = t})]
    BY DEF GroupBy
  <2> QED BY <2>2, <2>3, <2>4, <2>5
<1> QED BY <1>1, <1>5, <1>6, <1>7

\* What metrics.py counts and what reports.py writes tell of the same calls: the counters
\* of the day, and those of each company, count every CDR heard of once, however often it
\* is repeated; and with none repeated the report of the day, whole or by company, agrees
\* with them to the second; for any number of calls, companies and extensions.
THEOREM ReportsTrue == DeskSpec => []ReportsAgree
<1>1. MirrorInv /\ RecordsInv => ReportsAgree
  BY TruthOfRecords
<1> QED BY <1>1, RecordsAreKept, PTL
----------------------------------------------------------------------------
(* The cockpit, whatever the measures of its summary.                      *)

LEMMA DivIs ==
  ASSUME NEW a \in Int, NEW b \in Nat \ {0}
  PROVE  a \div b \in Int /\ b * (a \div b) <= a /\ a < b * (a \div b) + b
OBVIOUS

\* A share below 80 %, in tenths and in hundredths.
LEMMA Shares ==
  ASSUME NEW w \in Nat, NEW n \in Nat \ {0}, w <= n
  PROVE  /\ Percent(w, n) \in Nat /\ Percentage(w, n) \in Nat
         /\ Percent(w, n) < 800 => Percentage(w, n) < 8000
         /\ Percentage(w, n) < 8000 => w * 5 < n * 4
         /\ w * 5 < n * 4 => Percent(w, n) <= 800
<1>. DEFINE p == (2000 * w + n) \div (2 * n)
            r == (20000 * w + n) \div (2 * n)
<1>1. Percent(w, n) = p /\ Percentage(w, n) = r
  BY DEF Percent, Percentage, Rounded
<1>2. /\ p \in Int /\ 2 * (n * p) <= 2000 * w + n /\ 2000 * w + n < 2 * (n * p) + 2 * n
      /\ r \in Int /\ 2 * (n * r) <= 20000 * w + n /\ 20000 * w + n < 2 * (n * r) + 2 * n
  <2>1. 2 * n \in Nat \ {0} /\ 2000 * w + n \in Int /\ 20000 * w + n \in Int
    OBVIOUS
  <2>2. /\ p \in Int /\ (2 * n) * p <= 2000 * w + n /\ 2000 * w + n < (2 * n) * p + 2 * n
        /\ r \in Int /\ (2 * n) * r <= 20000 * w + n /\ 20000 * w + n < (2 * n) * r + 2 * n
    <3>. DEFINE d == 2 * n
                a == 2000 * w + n
                b == 20000 * w + n
    <3>1. d \in Nat \ {0} /\ a \in Int /\ b \in Int /\ p = a \div d /\ r = b \div d
      BY <2>1
    <3>. HIDE DEF d, a, b, p, r
    <3>2. /\ p \in Int /\ d * p <= a /\ a < d * p + d
          /\ r \in Int /\ d * r <= b /\ b < d * r + d
      BY <3>1, DivIs
    <3> QED BY <3>2 DEF a, b, d
  <2>. HIDE DEF p, r
  <2>3. (2 * n) * p = 2 * (n * p) /\ (2 * n) * r = 2 * (n * r)
    BY <2>2
  <2> QED BY <2>2, <2>3
<1>. HIDE DEF p, r
<1>3. \A k, l \in Int : k <= l => n * k <= n * l
  OBVIOUS
<1>4. p >= 0 /\ r >= 0
  <2>1. \A k \in Int : k < 0 => n * k <= n * (-1)
    BY <1>3
  <2> QED BY <1>2, <2>1
<1>5. p < 800 => r < 8000
  <2>1. p < 800 => n * p <= n * 799
    BY <1>2, <1>3
  <2>2. r >= 8000 => n * 8000 <= n * r
    BY <1>2, <1>3
  <2> QED BY <1>2, <2>1, <2>2
<1>6. r < 8000 => w * 5 < n * 4
  <2>1. r < 8000 => n * r <= n * 7999
    BY <1>2, <1>3
  <2> QED BY <1>2, <2>1
<1>7. w * 5 < n * 4 => p <= 800
  <2>1. p > 800 => n * 801 <= n * p
    BY <1>2, <1>3
  <2> QED BY <1>2, <2>1
<1> QED BY <1>1, <1>2, <1>4, <1>5, <1>6, <1>7

\* What the summary and the cockpit say of the service level of a company with ten calls
\* or more: the cockpit, which rounds less, is alarmed whenever the diagnosis OP-12 is, and
\* only when the level really is below 80 %; and then the diagnosis misses it only where it
\* rounds up to 80 %.
THEOREM AlarmsAreTrue ==
  ASSUME NEW o, None \notin Nat,
         o.within_sla_calls \in Nat, o.offered_calls \in Nat, o.offered_calls >= 10,
         o.within_sla_calls <= o.offered_calls,
         o.weighted_sla_percent = Percent(o.within_sla_calls, o.offered_calls)
  PROVE  LET attends == Diagnosis(o, RULES[12]) = "attention"
             alarmed == CockpitSla(o).sla_percentual < 8000
             below == o.within_sla_calls * 5 < o.offered_calls * 4
         IN  /\ attends => alarmed
             /\ alarmed => below
             /\ below /\ ~attends => o.weighted_sla_percent = 800
<1>1. Diagnosis(o, RULES[12]) = IF Percent(o.within_sla_calls, o.offered_calls) < 800
                                THEN "attention" ELSE "normal"
  <2>. DEFINE rule == RULES[12]
  <2>1. /\ rule.metric = "weighted_sla_percent" /\ rule.kind = "lt" /\ rule.limit = 800
        /\ rule.base = "offered_calls" /\ rule.minimum = 10
    <3>. DEFINE r == Rule("weighted_sla_percent", "lt", 800)
    <3>1. rule = Over(r, "offered_calls", 10)
      BY DEF RULES
    <3>2. /\ r.metric = "weighted_sla_percent" /\ r.kind = "lt" /\ r.limit = 800
          /\ r = [x \in {"metric", "kind", "limit", "base", "minimum"} |-> r[x]]
      BY DEF Rule
    <3>. HIDE DEF r, rule
    <3>3. /\ rule.metric = r.metric /\ rule.kind = r.kind /\ rule.limit = r.limit
          /\ rule.base = "offered_calls" /\ rule.minimum = 10
      BY <3>1, <3>2 DEF Over
    <3> QED BY <3>2, <3>3
  <2>. HIDE DEF rule
  <2>2. Percent(o.within_sla_calls, o.offered_calls) \in Nat
    BY Shares
  <2>3. Diagnosis(o, rule) = IF Percent(o.within_sla_calls, o.offered_calls) < 800
                             THEN "attention" ELSE "normal"
    BY <2>1, <2>2 DEF Diagnosis, Alarming
  <2> QED BY <2>3 DEF rule
<1>2. CockpitSla(o).sla_percentual = Percentage(o.within_sla_calls, o.offered_calls)
  BY DEF CockpitSla
<1>. DEFINE w == o.within_sla_calls
            n == o.offered_calls
<1>3. /\ Percent(w, n) < 800 => Percentage(w, n) < 8000
      /\ Percentage(w, n) < 8000 => w * 5 < n * 4
      /\ w * 5 < n * 4 => Percent(w, n) <= 800
      /\ Percent(w, n) \in Nat
  <2>1. w \in Nat /\ n \in Nat \ {0} /\ w <= n
    OBVIOUS
  <2>. HIDE DEF w, n
  <2> QED BY <2>1, Shares
<1>. HIDE DEF w, n
<1> QED BY <1>1, <1>2, <1>3 DEF w, n

\* The aims of the cockpit are the least that reach them: the agents to add so that no more
\* than three calls wait for each free one, the calls missing to 80 % of those offered, and
\* the calls in time that would win 80 % back, each of which counts as offered too.
THEOREM AimsAreLeast ==
  ASSUME NEW o, o.offered_calls \in Nat, o.within_sla_calls \in Nat, o.free_extensions \in Nat, NEW backlog \in Nat,
         o.within_sla_calls <= o.offered_calls
  PROVE  LET level == CockpitSla(o)
             team == CockpitTeam(o, backlog)
         IN  /\ Least(team.reforco_referencia, LAMBDA r : backlog <= 3 * (o.free_extensions + r))
             /\ Least(level.faltantes_ao_alvo, LAMBDA k : (o.within_sla_calls + k) * 100 >= 80 * o.offered_calls)
             /\ o.offered_calls > 0 =>
                  Least(level.perfeitas_recuperacao,
                        LAMBDA k : (o.within_sla_calls + k) * 100 >= 80 * (o.offered_calls + k))
<1>1. Least(CockpitTeam(o, backlog).reforco_referencia, LAMBDA r : backlog <= 3 * (o.free_extensions + r))
  BY DEF CockpitTeam, Least, AtLeast0, CeilDiv
<1>2. Least(CockpitSla(o).faltantes_ao_alvo, LAMBDA k : (o.within_sla_calls + k) * 100 >= 80 * o.offered_calls)
  BY DEF CockpitSla, Least, AtLeast0, CeilDiv
<1>3. ASSUME o.offered_calls > 0
      PROVE  Least(CockpitSla(o).perfeitas_recuperacao,
                        LAMBDA k : (o.within_sla_calls + k) * 100 >= 80 * (o.offered_calls + k))
  BY <1>3 DEF CockpitSla, Least, AtLeast0, CeilDiv
<1> QED BY <1>1, <1>2, <1>3
=============================================================================
