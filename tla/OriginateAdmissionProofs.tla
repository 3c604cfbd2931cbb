----------------------- MODULE OriginateAdmissionProofs -----------------------
(***************************************************************************)
(* What OriginateAdmission guarantees for any number of threads, tenants,  *)
(* extensions and keys, any limits, and any clock.                         *)
(***************************************************************************)
EXTENDS OriginateAdmission, FiniteSetTheorems, SequenceTheorems, TLAPS

-----------------------------------------------------------------------------
(* Type correctness.                                                       *)

LEMMA RequestFields ==
  ASSUME NEW q \in Request
  PROVE  /\ q.extension \in Extensions /\ q.number \in Numbers /\ q.id \in Ids \cup {None}
         /\ TenantOf[q.extension] \in Tenants
         /\ FingerprintOf(q) \in Fingerprint
         /\ KeyOf(q) \in Keys \cup {None}
  BY AdmissionAssumption DEF Request, FingerprintOf, Fingerprint, KeyOf, Keys

LEMMA ThreadFields ==
  ASSUME TypeOK, NEW t \in Threads
  PROVE  /\ thread[t].pc = "timed" => thread[t].request \in Request /\ thread[t].time \in Nat
         /\ thread[t].pc = "reserved" => thread[t].request \in Request /\ thread[t].ticket \in Nat
  BY DEF TypeOK, ThreadState, Idle

LEMMA TrimType ==
  ASSUME NEW q \in Seq(Nat), NEW at \in Nat
  PROVE  Trim(q, at) \in Seq(Nat)
<1> DEFINE gone == {i \in 1..Len(q) : \A j \in 1..i : OutOfWindow(q[j], at)}
<1>1. IsFiniteSet(1..Len(q)) /\ Len(q) \in Nat
  BY FS_Interval
<1>2. IsFiniteSet(gone)
  BY <1>1, FS_Subset
<1>3. Cardinality(gone) \in Nat
  BY <1>2, FS_CardinalityType
<1> HIDE DEF gone
<1>4. SubSeq(q, Cardinality(gone) + 1, Len(q)) \in Seq(Nat)
  BY <1>1, <1>3
<1> QED BY <1>4 DEF Trim, gone

LEMMA CleanupType ==
  ASSUME TypeOK, NEW at \in Nat
  PROVE  /\ TenantTimes(at) \in [Tenants -> Seq(Nat)]
         /\ ExtensionTimes(at) \in [Extensions -> Seq(Nat)]
         /\ OpenRows(at) \in [Keys -> Row \cup {NoRow}]
         /\ OpenTickets(at) \subseteq inflight
         /\ OpenTickets(at) \subseteq [ticket : Nat, when : Nat, key : Keys \cup {None}]
  BY TrimType DEF TypeOK, TenantTimes, ExtensionTimes, OpenRows, OpenTickets

LEMMA TypeOKInit == Init => TypeOK
  BY DEF Init, TypeOK, ThreadState, Idle

LEMMA TypeOKReserve ==
  ASSUME TypeOK, NEW t \in Threads, Reserve(t)
  PROVE  TypeOK'
<1> DEFINE q == thread[t].request
           at == thread[t].time
           ticket == sequence + 1
<1>1. t \in Threads /\ q \in Request /\ at \in Nat /\ ticket \in Nat
  BY ThreadFields DEF Reserve, TypeOK
<1>2. /\ lastTime' = at /\ sequence' = ticket /\ now' = now
      /\ tenantWindow' = [TenantTimes(at) EXCEPT ![TenantOf[q.extension]] = Append(@, at)]
      /\ extensionWindow' = [ExtensionTimes(at) EXCEPT ![q.extension] = Append(@, at)]
      /\ inflight' = OpenTickets(at) \cup {[ticket |-> ticket, when |-> at, key |-> KeyOf(q)]}
      /\ requests' = [k \in Keys |->
            IF k = KeyOf(q)
            THEN [state |-> "pending", fingerprint |-> FingerprintOf(q), when |-> at]
            ELSE OpenRows(at)[k]]
      /\ thread' = [thread EXCEPT ![t] = [pc |-> "reserved", request |-> q, ticket |-> ticket]]
      /\ originates' = originates \cup
            {[ticket |-> ticket, request |-> q, when |-> at, outcome |-> "sent"]}
  BY DEF Reserve
<1> HIDE DEF q, at, ticket
<1>3. tenantWindow' \in [Tenants -> Seq(Nat)] /\ extensionWindow' \in [Extensions -> Seq(Nat)]
  <2>1. \A s \in Seq(Nat) : Append(s, at) \in Seq(Nat)
    BY <1>1
  <2> QED BY <1>1, <1>2, <2>1, CleanupType, RequestFields
<1>4. requests' \in [Keys -> Row \cup {NoRow}]
  BY <1>1, <1>2, CleanupType, RequestFields DEF Row
<1>5. inflight' \subseteq [ticket : Nat, when : Nat, key : Keys \cup {None}]
  BY <1>1, <1>2, CleanupType, RequestFields
<1>6. thread' \in [Threads -> ThreadState]
  <2>1. [pc |-> "reserved", request |-> q, ticket |-> ticket] \in ThreadState
    BY <1>1 DEF ThreadState
  <2> QED BY <1>1, <1>2, <2>1 DEF TypeOK
<1>7. originates' \subseteq Originate
  BY <1>1, <1>2 DEF TypeOK, Originate
<1> QED BY <1>1, <1>2, <1>3, <1>4, <1>5, <1>6, <1>7 DEF TypeOK

LEMMA TypeOKStep ==
  ASSUME TypeOK, [Next]_vars
  PROVE  TypeOK'
<1>1. ASSUME NEW t \in Threads, Client(t) PROVE TypeOK'
  <2>0. t \in Threads
    OBVIOUS
  <2>1. ASSUME NEW q \in Request, Ask(t, q) PROVE TypeOK'
    BY <2>0, <2>1 DEF Ask, guard, windows, TypeOK, ThreadState
  <2>2. ASSUME NEW a \in Answers, Answer(t, a) PROVE thread' \in [Threads -> ThreadState]
    BY <2>0, <2>2 DEF Answer, TypeOK, ThreadState
  <2>3. CASE RefuseStale(t)
    BY <2>0, <2>2, <2>3 DEF RefuseStale, guard, windows, TypeOK, Answers
  <2>4. ASSUME thread[t].pc = "timed", NEW a \in Answers, Answer(t, a),
               Cleanup(thread[t].time), lastTime' = thread[t].time,
               UNCHANGED <<now, sequence, originates>>
        PROVE  TypeOK'
    <3>1. thread[t].time \in Nat
      BY <2>0, <2>4, ThreadFields
    <3> QED BY <2>2, <2>4, <3>1, CleanupType DEF Cleanup, TypeOK
  <2>5. CASE RefuseRepeat(t)
    <3>1. \A row, q : RowAnswer(row, q) \in Answers
      BY DEF RowAnswer, Answers
    <3> QED BY <2>4, <2>5, <3>1 DEF RefuseRepeat
  <2>6. CASE RefuseLimit(t)
    BY <2>4, <2>6 DEF RefuseLimit, Answers
  <2>7. CASE Reserve(t)
    BY <2>7, TypeOKReserve
  <2>8. ASSUME NEW o \in Outcomes, Finish(t, o) PROVE TypeOK'
    <3>1. /\ FinishTicket(thread[t].ticket, o) /\ Answer(t, "finished")
          /\ UNCHANGED <<now, lastTime, windows, sequence>>
      BY <2>8 DEF Finish
    <3>2. inflight' \subseteq [ticket : Nat, when : Nat, key : Keys \cup {None}]
      BY <3>1 DEF FinishTicket, TypeOK
    <3>3. requests' \in [Keys -> Row \cup {NoRow}]
      <4>1. ASSUME NEW k \in Keys, requests[k] # NoRow, o # "rejected"
            PROVE  [requests[k] EXCEPT !.state = o] \in Row
        BY <4>1 DEF TypeOK, Row, Outcomes
      <4> QED BY <3>1, <4>1 DEF FinishTicket, TypeOK
    <3>4. originates' \subseteq Originate
      <4>1. \A x \in Originate : [x EXCEPT !.outcome = o] \in Originate
        BY DEF Originate
      <4> QED BY <2>8, <4>1 DEF Finish, TypeOK
    <3>5. thread' \in [Threads -> ThreadState]
      BY <2>2, <3>1 DEF Answers
    <3> QED BY <3>1, <3>2, <3>3, <3>4, <3>5 DEF TypeOK, windows
  <2> QED BY <1>1, <2>1, <2>3, <2>5, <2>6, <2>7, <2>8 DEF Client
<1>4. CASE Tick
  BY <1>4 DEF Tick, guard, windows, TypeOK
<1>5. CASE UNCHANGED vars
  BY <1>5 DEF vars, windows, TypeOK
<1> QED BY <1>1, <1>4, <1>5 DEF Next

(* The state of the admission always has its type.                         *)
THEOREM TypeCorrect == Spec => []TypeOK
  BY TypeOKInit, TypeOKStep, PTL DEF Spec

-----------------------------------------------------------------------------
(* The inductive invariant.                                                *)

(* A ticket belongs to one Originate, and while it is in flight, or a      *)
(* thread waits for its answer, that Originate has no outcome.             *)
TicketsOK ==
  /\ \A o \in originates : o.ticket \in 1..sequence
  /\ \A o, p \in originates : o.ticket = p.ticket => o = p
  /\ \A t \in Threads : thread[t].pc = "reserved" =>
       \E o \in originates : o.ticket = thread[t].ticket /\ o.outcome = "sent"
  /\ \A t, u \in Threads :
       thread[t].pc = "reserved" /\ thread[u].pc = "reserved"
         /\ thread[t].ticket = thread[u].ticket => t = u
  /\ \A i \in inflight :
       \E o \in originates : /\ o.ticket = i.ticket /\ o.outcome = "sent"
                             /\ o.when = i.when /\ KeyOf(o.request) = i.key

(* The last Originate of a key.                                            *)
Latest(o, k) ==
  /\ KeyOf(o.request) = k
  /\ \A p \in originates : KeyOf(p.request) = k => p.ticket <= o.ticket

(* A row is that of the last Originate of its key, and has a ticket in     *)
(* flight as long as that Originate has no outcome.                        *)
RowOf(o, row) ==
  /\ row.when = o.when /\ row.fingerprint = FingerprintOf(o.request)
  /\ row.state = IF o.outcome = "sent" THEN "pending" ELSE o.outcome
  /\ o.outcome = "sent" => \E i \in inflight : i.ticket = o.ticket

RowsOK ==
  \A k \in Keys :
    /\ requests[k] # NoRow =>
         \E o \in originates : Latest(o, k) /\ RowOf(o, requests[k])
    /\ \A i \in inflight : i.key = k =>
         /\ requests[k] # NoRow
         /\ \E o \in originates : Latest(o, k) /\ o.ticket = i.ticket

(* An Originate that bars its key: not rejected, younger than the TTL.     *)
Live(o) == KeyOf(o.request) # None /\ o.outcome # "rejected" /\ lastTime - o.when < Ttl

(* What bars a key has a row that says so.                                 *)
KeysOK ==
  /\ \A o \in originates : o.when <= lastTime
  /\ \A o \in originates : Live(o) =>
       Latest(o, KeyOf(o.request)) /\ requests[KeyOf(o.request)] # NoRow

-----------------------------------------------------------------------------
(* Steps that change no ticket, no row and no Originate.                   *)

(* A thread that does not wait for an answer does something else.          *)
LEMMA TicketsOKThread ==
  ASSUME TypeOK, TicketsOK, NEW t \in Threads, NEW s, s.pc # "reserved",
         thread' = [thread EXCEPT ![t] = s], inflight' \subseteq inflight,
         UNCHANGED <<sequence, originates>>
  PROVE  TicketsOK'
<1>1. thread'[t] = s /\ \A u \in Threads \ {t} : thread'[u] = thread[u]
  BY DEF TypeOK
<1> QED BY <1>1 DEF TicketsOK

(* _cleanup forgets a row and its ticket together, whatever the time.      *)
LEMMA RowsOKCleanup ==
  ASSUME TypeOK, TicketsOK, RowsOK, NEW at,
         requests' = OpenRows(at), inflight' = OpenTickets(at), originates' = originates
  PROVE  RowsOK'
<1> SUFFICES ASSUME NEW k \in Keys
             PROVE  /\ requests'[k] # NoRow =>
                         \E o \in originates : Latest(o, k) /\ RowOf(o, requests[k])'
                    /\ \A i \in inflight' : i.key = k =>
                         /\ requests'[k] # NoRow
                         /\ \E o \in originates : Latest(o, k) /\ o.ticket = i.ticket
  BY DEF RowsOK, Latest
<1>1. ASSUME requests'[k] # NoRow
      PROVE  \E o \in originates : Latest(o, k) /\ RowOf(o, requests[k])'
  <2>1. requests'[k] = requests[k] /\ ~ Expired(requests[k].when, at)
    BY <1>1 DEF OpenRows
  <2>2. PICK o \in originates : Latest(o, k) /\ RowOf(o, requests[k])
    BY <1>1, <2>1 DEF RowsOK
  <2>3. o.outcome = "sent" => \E i \in inflight' : i.ticket = o.ticket
    <3> SUFFICES ASSUME o.outcome = "sent" PROVE \E i \in inflight' : i.ticket = o.ticket
      OBVIOUS
    <3>1. PICK i \in inflight : i.ticket = o.ticket
      BY <2>2 DEF RowOf
    <3>2. i.when = o.when
      BY <3>1 DEF TicketsOK
    <3> QED BY <2>1, <2>2, <3>1, <3>2 DEF RowOf, OpenTickets
  <2> QED BY <2>1, <2>2, <2>3 DEF RowOf
<1>2. ASSUME NEW i \in inflight', i.key = k
      PROVE  /\ requests'[k] # NoRow
             /\ \E o \in originates : Latest(o, k) /\ o.ticket = i.ticket
  <2>1. i \in inflight /\ ~ Expired(i.when, at)
    BY <1>2 DEF OpenTickets
  <2>2. PICK o \in originates : Latest(o, k) /\ o.ticket = i.ticket
    BY <1>2, <2>1 DEF RowsOK
  <2>3. requests[k] # NoRow
    BY <1>2, <2>1 DEF RowsOK
  <2>4. PICK p \in originates : Latest(p, k) /\ RowOf(p, requests[k])
    BY <2>3 DEF RowsOK
  <2>5. o = p /\ o.when = i.when
    BY <2>1, <2>2, <2>4 DEF Latest, TicketsOK, TypeOK, Originate
  <2> QED BY <2>1, <2>2, <2>3, <2>4, <2>5 DEF RowOf, OpenRows
<1> QED BY <1>1, <1>2

(* The row of the last Originate of a key, with its time.                  *)
LEMMA LiveHasRow ==
  ASSUME TypeOK, TicketsOK, RowsOK, KeysOK, NEW o \in originates, Live(o)
  PROVE  /\ KeyOf(o.request) \in Keys
         /\ requests[KeyOf(o.request)] # NoRow
         /\ requests[KeyOf(o.request)].when = o.when
<1> DEFINE k == KeyOf(o.request)
<1>1. k \in Keys
  BY RequestFields DEF Live, TypeOK, Originate
<1>2. Latest(o, k) /\ requests[k] # NoRow
  BY DEF KeysOK
<1>3. PICK p \in originates : Latest(p, k) /\ RowOf(p, requests[k])
  BY <1>1, <1>2 DEF RowsOK
<1>4. o = p
  BY <1>2, <1>3 DEF Latest, TicketsOK, TypeOK, Originate
<1> QED BY <1>1, <1>2, <1>3, <1>4 DEF RowOf

(* A later _cleanup keeps the rows of the Originates that bar their key.   *)
LEMMA KeptRows ==
  ASSUME TypeOK, TicketsOK, RowsOK, KeysOK, NEW at \in Nat, at >= lastTime,
         NEW o \in originates, KeyOf(o.request) # None, o.outcome # "rejected",
         at - o.when < Ttl
  PROVE  /\ Live(o) /\ Latest(o, KeyOf(o.request))
         /\ OpenRows(at)[KeyOf(o.request)] # NoRow
<1>1. o.when \in Nat /\ lastTime \in Nat /\ o.when <= lastTime
  BY DEF TypeOK, Originate, KeysOK
<1>2. Live(o)
  BY <1>1, AdmissionAssumption DEF Live
<1>3. ~ Expired(o.when, at)
  BY <1>1, AdmissionAssumption DEF Expired
<1> QED BY <1>2, <1>3, LiveHasRow DEF OpenRows, KeysOK

LEMMA KeysOKCleanup ==
  ASSUME TypeOK, TicketsOK, RowsOK, KeysOK, NEW at \in Nat, at >= lastTime,
         lastTime' = at, requests' = OpenRows(at), originates' = originates
  PROVE  KeysOK'
<1>1. \A o \in originates : o.when <= at
  BY DEF KeysOK, TypeOK, Originate
<1>2. ASSUME NEW o \in originates, Live(o)'
      PROVE  (Latest(o, KeyOf(o.request)) /\ requests[KeyOf(o.request)] # NoRow)'
  BY <1>2, KeptRows DEF Live, Latest
<1> QED BY <1>1, <1>2 DEF KeysOK

-----------------------------------------------------------------------------
(* Reserve.                                                                *)

LEMMA ReserveOK ==
  ASSUME TypeOK, TicketsOK, RowsOK, NEW t \in Threads, Reserve(t)
  PROVE  TicketsOK' /\ RowsOK' /\ (KeysOK => KeysOK')
<1>1. PICK q \in Request, at \in Nat, ticket \in Nat :
         q = thread[t].request /\ at = thread[t].time /\ ticket = sequence + 1
  BY ThreadFields DEF Reserve, TypeOK
<1>0a. PICK new \in Originate, slip \in [ticket : Nat, when : Nat, key : Keys \cup {None}] :
         /\ new = [ticket |-> ticket, request |-> q, when |-> at, outcome |-> "sent"]
         /\ slip = [ticket |-> ticket, when |-> at, key |-> KeyOf(q)]
  BY RequestFields DEF Originate
<1>0b. t \in Threads /\ at >= lastTime /\ sequence \in Nat
  BY <1>1 DEF Reserve, TypeOK, Stale
<1>2. /\ lastTime' = at /\ sequence' = ticket /\ ~ HasRow(q, at)
      /\ inflight' = OpenTickets(at) \cup {slip}
      /\ requests' = [k \in Keys |->
            IF k = KeyOf(q)
            THEN [state |-> "pending", fingerprint |-> FingerprintOf(q), when |-> at]
            ELSE OpenRows(at)[k]]
      /\ thread' = [thread EXCEPT ![t] = [pc |-> "reserved", request |-> q, ticket |-> ticket]]
      /\ originates' = originates \cup {new}
  BY <1>1, <1>0a DEF Reserve
<1>3. \A o \in originates : o.ticket \in Nat /\ o.ticket < ticket
  BY <1>1, <1>0b DEF TicketsOK
<1>4. /\ new.ticket = ticket /\ new.request = q /\ new.when = at /\ new.outcome = "sent"
      /\ slip.ticket = ticket /\ slip.when = at /\ slip.key = KeyOf(q)
  BY <1>0a
<1>5. \A i \in OpenTickets(at) : i \in inflight /\ ~ Expired(i.when, at)
  BY DEF OpenTickets
<1>6. \A i \in inflight : i.ticket < ticket
  BY <1>3 DEF TicketsOK
<1>7. TicketsOK'
  <2>1. thread'[t] = [pc |-> "reserved", request |-> q, ticket |-> ticket]
        /\ \A u \in Threads \ {t} : thread'[u] = thread[u]
    BY <1>0b, <1>2 DEF TypeOK
  <2>2. \A o \in originates' : o.ticket \in 1..sequence'
    BY <1>1, <1>0b, <1>2, <1>3, <1>4 DEF TicketsOK
  <2>3. \A o, p \in originates' : o.ticket = p.ticket => o = p
    <3>1. \A o \in originates : o.ticket # new.ticket
      BY <1>1, <1>3, <1>4
    <3> QED BY <1>2, <3>1 DEF TicketsOK
  <2>4. \A u \in Threads : thread'[u].pc = "reserved" =>
          \E o \in originates' : o.ticket = thread'[u].ticket /\ o.outcome = "sent"
    BY <1>2, <1>4, <2>1 DEF TicketsOK
  <2>5. \A u \in Threads \ {t} : thread[u].pc = "reserved" => thread[u].ticket # ticket
    BY <1>3 DEF TicketsOK
  <2>6. \A u, w \in Threads :
          thread'[u].pc = "reserved" /\ thread'[w].pc = "reserved"
            /\ thread'[u].ticket = thread'[w].ticket => u = w
    BY <2>1, <2>5 DEF TicketsOK
  <2>7. \A i \in inflight' :
          \E o \in originates' : /\ o.ticket = i.ticket /\ o.outcome = "sent"
                                 /\ o.when = i.when /\ KeyOf(o.request) = i.key
    BY <1>2, <1>4, <1>5 DEF TicketsOK
  <2> QED BY <2>2, <2>3, <2>4, <2>6, <2>7 DEF TicketsOK
<1>8. ASSUME NEW k, k # KeyOf(q), NEW o \in originates, Latest(o, k) PROVE Latest(o, k)'
  BY <1>2, <1>4, <1>8 DEF Latest
<1>9. Latest(new, KeyOf(q))'
  BY <1>1, <1>2, <1>3, <1>4 DEF Latest
<1>10. RowsOK'
  <2> SUFFICES ASSUME NEW k \in Keys
               PROVE  /\ requests'[k] # NoRow =>
                           \E o \in originates' : (Latest(o, k) /\ RowOf(o, requests[k]))'
                      /\ \A i \in inflight' : i.key = k =>
                           /\ requests'[k] # NoRow
                           /\ \E o \in originates' : Latest(o, k)' /\ o.ticket = i.ticket
    BY DEF RowsOK
  <2>1. CASE k = KeyOf(q)
    <3>1. /\ requests'[k].when = at /\ requests'[k].fingerprint = FingerprintOf(q)
          /\ requests'[k].state = "pending" /\ requests'[k] # NoRow
      BY <1>2, <2>1 DEF NoRow
    <3>2. new \in originates' /\ slip \in inflight'
      BY <1>2
    <3>3. RowOf(new, requests[k])'
      BY <1>4, <3>1, <3>2 DEF RowOf
    <3>4. \A i \in OpenTickets(at) : i.key # k
      <4> SUFFICES ASSUME NEW i \in OpenTickets(at), i.key = k PROVE FALSE
        OBVIOUS
      <4>1. PICK o \in originates : Latest(o, k) /\ o.ticket = i.ticket
        BY <1>5 DEF RowsOK
      <4>2. requests[k] # NoRow
        BY <1>5 DEF RowsOK
      <4>3. PICK p \in originates : Latest(p, k) /\ RowOf(p, requests[k])
        BY <4>2 DEF RowsOK
      <4>4. o = p /\ o.when = i.when
        BY <1>5, <4>1, <4>3 DEF Latest, TicketsOK, TypeOK, Originate
      <4>5. OpenRows(at)[k] # NoRow
        BY <1>5, <4>2, <4>3, <4>4 DEF RowOf, OpenRows
      <4>6. KeyOf(q) # None
        BY <2>1, AdmissionAssumption DEF Keys
      <4> QED BY <1>2, <2>1, <4>5, <4>6 DEF HasRow
    <3> QED BY <1>2, <1>4, <1>9, <2>1, <3>1, <3>2, <3>3, <3>4
  <2>2. CASE k # KeyOf(q)
    <3>1. requests'[k] = OpenRows(at)[k]
      BY <1>2, <2>2
    <3>2. ASSUME requests'[k] # NoRow
          PROVE  \E o \in originates' : (Latest(o, k) /\ RowOf(o, requests[k]))'
      <4>1. requests[k] # NoRow /\ requests'[k] = requests[k] /\ ~ Expired(requests[k].when, at)
        BY <3>1, <3>2 DEF OpenRows
      <4>2. PICK o \in originates : Latest(o, k) /\ RowOf(o, requests[k])
        BY <4>1 DEF RowsOK
      <4>3. o.outcome = "sent" => \E i \in inflight' : i.ticket = o.ticket
        <5> SUFFICES ASSUME o.outcome = "sent" PROVE \E i \in inflight' : i.ticket = o.ticket
          OBVIOUS
        <5>1. PICK i \in inflight : i.ticket = o.ticket
          BY <4>2 DEF RowOf
        <5>2. i.when = o.when
          BY <5>1 DEF TicketsOK
        <5> QED BY <1>2, <4>1, <4>2, <5>1, <5>2 DEF RowOf, OpenTickets
      <4>4. RowOf(o, requests[k])'
        BY <4>1, <4>2, <4>3 DEF RowOf
      <4> QED BY <1>2, <1>8, <2>2, <4>2, <4>4
    <3>3. ASSUME NEW i \in inflight', i.key = k
          PROVE  /\ requests'[k] # NoRow
                 /\ \E o \in originates' : Latest(o, k)' /\ o.ticket = i.ticket
      <4>1. i \in inflight /\ ~ Expired(i.when, at)
        BY <1>2, <1>4, <1>5, <2>2, <3>3
      <4>2. PICK o \in originates : Latest(o, k) /\ o.ticket = i.ticket
        BY <3>3, <4>1 DEF RowsOK
      <4>3. requests[k] # NoRow
        BY <3>3, <4>1 DEF RowsOK
      <4>4. PICK p \in originates : Latest(p, k) /\ RowOf(p, requests[k])
        BY <4>3 DEF RowsOK
      <4>5. o = p /\ o.when = i.when
        BY <4>1, <4>2, <4>4 DEF Latest, TicketsOK, TypeOK, Originate
      <4> QED BY <1>2, <1>8, <2>2, <3>1, <4>1, <4>2, <4>3, <4>4, <4>5 DEF RowOf, OpenRows
    <3> QED BY <3>2, <3>3
  <2> QED BY <2>1, <2>2
<1>11. ASSUME KeysOK PROVE KeysOK'
  <2>1. \A o \in originates' : o.when <= lastTime'
    BY <1>1, <1>0b, <1>2, <1>4, <1>11 DEF KeysOK, TypeOK, Originate
  <2>2. ASSUME NEW o \in originates', Live(o)'
        PROVE  (Latest(o, KeyOf(o.request)) /\ requests[KeyOf(o.request)] # NoRow)'
    <3>1. CASE o = new
      <4>1. KeyOf(q) \in Keys
        BY <1>1, <1>4, <2>2, <3>1, RequestFields DEF Live
      <4>2. requests'[KeyOf(q)] # NoRow
        BY <1>2, <4>1 DEF NoRow
      <4> QED BY <1>4, <1>9, <3>1, <4>2
    <3>2. CASE o \in originates
      <4>1. KeyOf(o.request) # None /\ o.outcome # "rejected" /\ at - o.when < Ttl
        BY <1>2, <2>2 DEF Live
      <4>2. /\ Live(o) /\ Latest(o, KeyOf(o.request))
            /\ OpenRows(at)[KeyOf(o.request)] # NoRow
        BY <1>1, <1>0b, <1>11, <3>2, <4>1, KeptRows
      <4>3. KeyOf(o.request) # KeyOf(q)
        BY <1>2, <4>1, <4>2 DEF HasRow
      <4>4. KeyOf(o.request) \in Keys
        BY <3>2, <4>1, RequestFields DEF TypeOK, Originate
      <4> QED BY <1>2, <1>8, <3>2, <4>2, <4>3, <4>4
    <3> QED BY <1>2, <2>2, <3>1, <3>2
  <2> QED BY <2>1, <2>2 DEF KeysOK
<1> QED BY <1>7, <1>10, <1>11

-----------------------------------------------------------------------------
(* Finish.                                                                 *)

LEMMA FinishOK ==
  ASSUME TypeOK, TicketsOK, RowsOK, NEW t \in Threads, NEW outcome \in Outcomes,
         Finish(t, outcome)
  PROVE  TicketsOK' /\ RowsOK' /\ (KeysOK => KeysOK')
<1>1. PICK ticket \in Nat : thread[t].pc = "reserved" /\ ticket = thread[t].ticket /\ t \in Threads
  BY ThreadFields DEF Finish
<1>2. PICK o0 \in originates : o0.ticket = ticket /\ o0.outcome = "sent"
  BY <1>1 DEF TicketsOK
<1>3. PICK o1 \in Originate : o1 = [o0 EXCEPT !.outcome = outcome]
  BY <1>2 DEF TypeOK, Originate, Outcomes
<1>4. /\ o1.ticket = ticket /\ o1.request = o0.request /\ o1.when = o0.when
      /\ o1.outcome = outcome
  BY <1>2, <1>3 DEF TypeOK, Originate
<1>5. /\ inflight' = {i \in inflight : i.ticket # ticket}
      /\ requests' = [k \in Keys |->
            IF requests[k] # NoRow /\ \E i \in inflight : i.ticket = ticket /\ i.key = k
            THEN IF outcome = "rejected" THEN NoRow ELSE [requests[k] EXCEPT !.state = outcome]
            ELSE requests[k]]
      /\ thread' = [thread EXCEPT ![t] = [pc |-> "answered", answer |-> "finished"]]
      /\ UNCHANGED <<lastTime, sequence>>
  BY <1>1 DEF Finish, FinishTicket, Answer
<1>6. originates' = (originates \ {o0}) \cup {o1}
  <2>1. \A o \in originates : o.ticket = ticket <=> o = o0
    BY <1>2 DEF TicketsOK
  <2>2. originates' = {IF o.ticket = ticket THEN [o EXCEPT !.outcome = outcome] ELSE o
                         : o \in originates}
    BY <1>1 DEF Finish
  <2> QED BY <1>2, <1>3, <2>1, <2>2
<1>7. \A o \in originates \ {o0} : o.ticket # ticket
  BY <1>2 DEF TicketsOK
<1>8. outcome # "sent"
  BY DEF Outcomes
<1>9. TicketsOK'
  <2>1. thread'[t].pc = "answered" /\ \A u \in Threads \ {t} : thread'[u] = thread[u]
    BY <1>1, <1>5 DEF TypeOK
  <2>2. \A o \in originates' : o.ticket \in 1..sequence'
    BY <1>2, <1>4, <1>5, <1>6 DEF TicketsOK
  <2>3. \A o, p \in originates' : o.ticket = p.ticket => o = p
    BY <1>4, <1>6, <1>7 DEF TicketsOK
  <2>4. \A u \in Threads : thread'[u].pc = "reserved" =>
          \E o \in originates' : o.ticket = thread'[u].ticket /\ o.outcome = "sent"
    <3> SUFFICES ASSUME NEW u \in Threads, thread'[u].pc = "reserved"
                 PROVE  \E o \in originates' : o.ticket = thread'[u].ticket /\ o.outcome = "sent"
      OBVIOUS
    <3>1. u # t /\ thread'[u] = thread[u]
      BY <2>1
    <3>2. thread[u].ticket # ticket
      BY <1>1, <3>1 DEF TicketsOK
    <3>3. PICK o \in originates : o.ticket = thread[u].ticket /\ o.outcome = "sent"
      BY <3>1 DEF TicketsOK
    <3> QED BY <1>2, <1>6, <3>1, <3>2, <3>3
  <2>5. \A u, w \in Threads :
          thread'[u].pc = "reserved" /\ thread'[w].pc = "reserved"
            /\ thread'[u].ticket = thread'[w].ticket => u = w
    BY <2>1 DEF TicketsOK
  <2>6. \A i \in inflight' :
          \E o \in originates' : /\ o.ticket = i.ticket /\ o.outcome = "sent"
                                 /\ o.when = i.when /\ KeyOf(o.request) = i.key
    BY <1>2, <1>5, <1>6 DEF TicketsOK
  <2> QED BY <2>2, <2>3, <2>4, <2>5, <2>6 DEF TicketsOK
<1>10. ASSUME NEW k, NEW o \in originates \ {o0}, Latest(o, k) PROVE Latest(o, k)'
  BY <1>2, <1>4, <1>6, <1>10 DEF Latest
<1>11. ASSUME NEW k, Latest(o0, k) PROVE Latest(o1, k)'
  BY <1>2, <1>4, <1>6, <1>11 DEF Latest
<1>12. \A i \in inflight : i.ticket = ticket => i.key = KeyOf(o0.request)
  BY <1>2, <1>7 DEF TicketsOK
<1>13. RowsOK'
  <2> SUFFICES ASSUME NEW k \in Keys
               PROVE  /\ requests'[k] # NoRow =>
                           \E o \in originates' : (Latest(o, k) /\ RowOf(o, requests[k]))'
                      /\ \A i \in inflight' : i.key = k =>
                           /\ requests'[k] # NoRow
                           /\ \E o \in originates' : Latest(o, k)' /\ o.ticket = i.ticket
    BY DEF RowsOK
  <2>1. CASE \E i \in inflight : i.ticket = ticket /\ i.key = k
    <3>1. requests[k] # NoRow /\ Latest(o0, k)
      <4>1. PICK i \in inflight : i.ticket = ticket /\ i.key = k
        BY <2>1
      <4>2. PICK o \in originates : Latest(o, k) /\ o.ticket = i.ticket
        BY <4>1 DEF RowsOK
      <4> QED BY <1>7, <4>1, <4>2 DEF RowsOK
    <3>2. RowOf(o0, requests[k])
      <4>1. PICK o \in originates : Latest(o, k) /\ RowOf(o, requests[k])
        BY <3>1 DEF RowsOK
      <4>2. o = o0
        BY <1>2, <3>1, <4>1 DEF Latest, TicketsOK, TypeOK, Originate
      <4> QED BY <4>1, <4>2
    <3>3. requests'[k] # NoRow =>
            requests'[k] = [requests[k] EXCEPT !.state = outcome] /\ requests[k] \in Row
      BY <1>5, <2>1, <3>1 DEF TypeOK
    <3>4. requests'[k] # NoRow => RowOf(o1, requests[k])'
      BY <1>4, <1>8, <3>2, <3>3 DEF RowOf, Row
    <3>5. \A i \in inflight' : i.key # k
      <4> SUFFICES ASSUME NEW i \in inflight', i.key = k PROVE FALSE
        OBVIOUS
      <4>1. i \in inflight /\ i.ticket # ticket
        BY <1>5
      <4>2. PICK o \in originates : Latest(o, k) /\ o.ticket = i.ticket
        BY <4>1 DEF RowsOK
      <4>3. o = o0
        BY <1>2, <3>1, <4>2 DEF Latest, TicketsOK, TypeOK, Originate
      <4> QED BY <1>2, <4>1, <4>2, <4>3
    <3> QED BY <1>6, <1>11, <3>1, <3>4, <3>5
  <2>2. CASE ~ \E i \in inflight : i.ticket = ticket /\ i.key = k
    <3>1. requests'[k] = requests[k]
      BY <1>5, <2>2
    <3>2. ASSUME NEW o \in originates, Latest(o, k), requests[k] # NoRow, RowOf(o, requests[k])
          PROVE  o # o0
      <4> SUFFICES ASSUME o = o0 PROVE FALSE
        OBVIOUS
      <4>1. PICK i \in inflight : i.ticket = ticket
        BY <1>2, <3>2 DEF RowOf
      <4>2. i.key = k
        BY <1>12, <3>2, <4>1 DEF Latest
      <4> QED BY <2>2, <4>1, <4>2
    <3>3. ASSUME requests'[k] # NoRow
          PROVE  \E o \in originates' : (Latest(o, k) /\ RowOf(o, requests[k]))'
      <4>1. PICK o \in originates : Latest(o, k) /\ RowOf(o, requests[k])
        BY <3>1, <3>3 DEF RowsOK
      <4>2. o # o0
        BY <3>1, <3>2, <3>3, <4>1
      <4>3. RowOf(o, requests[k])'
        BY <1>5, <1>7, <3>1, <4>1, <4>2 DEF RowOf
      <4> QED BY <1>6, <1>10, <4>1, <4>2, <4>3
    <3>4. ASSUME NEW i \in inflight', i.key = k
          PROVE  /\ requests'[k] # NoRow
                 /\ \E o \in originates' : Latest(o, k)' /\ o.ticket = i.ticket
      <4>1. i \in inflight /\ i.ticket # ticket
        BY <1>5, <3>4
      <4>2. PICK o \in originates : Latest(o, k) /\ o.ticket = i.ticket
        BY <3>4, <4>1 DEF RowsOK
      <4> QED BY <1>2, <1>6, <1>10, <3>1, <3>4, <4>1, <4>2 DEF RowsOK
    <3> QED BY <3>3, <3>4
  <2> QED BY <2>1, <2>2
<1>14. ASSUME KeysOK PROVE KeysOK'
  <2>1. \A o \in originates' : o.when <= lastTime'
    BY <1>2, <1>4, <1>5, <1>6, <1>14 DEF KeysOK
  <2>2. ASSUME NEW o \in originates', Live(o)'
        PROVE  (Latest(o, KeyOf(o.request)) /\ requests[KeyOf(o.request)] # NoRow)'
    <3>1. PICK p \in originates : /\ p.request = o.request /\ p.ticket = o.ticket
                                  /\ p = IF o = o1 THEN o0 ELSE o
                                  /\ Live(p) /\ (o = o1 <=> p = o0)
      BY <1>2, <1>4, <1>5, <1>6, <1>7, <2>2 DEF Live
    <3>2. Latest(p, KeyOf(o.request)) /\ requests[KeyOf(o.request)] # NoRow
      BY <1>14, <3>1 DEF KeysOK
    <3>3. Latest(o, KeyOf(o.request))'
      BY <1>10, <1>11, <3>1, <3>2
    <3>4. KeyOf(o.request) \in Keys
      BY <3>1, RequestFields DEF Live, TypeOK, Originate
    <3>5. CASE \E i \in inflight : i.ticket = ticket /\ i.key = KeyOf(o.request)
      <4>1. PICK o2 \in originates : Latest(o2, KeyOf(o.request)) /\ o2.ticket = ticket
        BY <3>4, <3>5 DEF RowsOK
      <4>2. p = o0
        BY <1>2, <3>2, <4>1 DEF Latest, TicketsOK, TypeOK, Originate
      <4>3. outcome # "rejected"
        BY <1>4, <2>2, <3>1, <4>2 DEF Live
      <4> QED BY <1>5, <3>2, <3>3, <3>4, <4>3 DEF NoRow, TypeOK, Row
    <3>6. CASE ~ \E i \in inflight : i.ticket = ticket /\ i.key = KeyOf(o.request)
      BY <1>5, <3>2, <3>3, <3>4, <3>6
    <3> QED BY <3>5, <3>6
  <2> QED BY <2>1, <2>2 DEF KeysOK
<1> QED BY <1>9, <1>13, <1>14

-----------------------------------------------------------------------------
(* All the steps together.                                                 *)

(* What a refusal does: it cleans up and answers.                          *)
LEMMA RefusalOK ==
  ASSUME TypeOK, TicketsOK, RowsOK, NEW t \in Threads, NEW a, Answer(t, a),
         thread[t].pc = "timed", ~ Stale(thread[t].time),
         Cleanup(thread[t].time), lastTime' = thread[t].time,
         UNCHANGED <<sequence, originates>>
  PROVE  TicketsOK' /\ RowsOK' /\ (KeysOK => KeysOK')
<1>1. t \in Threads /\ thread[t].time \in Nat /\ thread[t].time >= lastTime
  BY ThreadFields DEF Stale, TypeOK
<1>2. OpenTickets(thread[t].time) \subseteq inflight
  BY DEF OpenTickets
<1> QED
  BY <1>1, <1>2, TicketsOKThread, RowsOKCleanup, KeysOKCleanup DEF Answer, Cleanup

TicketsAndRowsOK == TypeOK /\ TicketsOK /\ RowsOK

(* A step that leaves rows, tickets in flight and Originates alone.        *)
LEMMA QuietOK ==
  ASSUME TicketsAndRowsOK, UNCHANGED <<guard, originates>>,
         \/ UNCHANGED thread
         \/ \E t \in Threads : \E s : s.pc # "reserved" /\ thread' = [thread EXCEPT ![t] = s]
  PROVE  TicketsOK' /\ RowsOK' /\ (KeysOK => KeysOK')
<1>1. TicketsOK'
  <2>1. CASE UNCHANGED thread
    BY <2>1 DEF TicketsAndRowsOK, TicketsOK, guard
  <2>2. CASE \E t \in Threads : \E s : s.pc # "reserved" /\ thread' = [thread EXCEPT ![t] = s]
    BY <2>2, TicketsOKThread DEF TicketsAndRowsOK, guard
  <2> QED BY <2>1, <2>2
<1>2. RowsOK'
  BY DEF TicketsAndRowsOK, RowsOK, RowOf, Latest, guard
<1>3. KeysOK => KeysOK'
  BY DEF KeysOK, Live, Latest, guard
<1> QED BY <1>1, <1>2, <1>3

LEMMA ClientOK ==
  ASSUME TicketsAndRowsOK, NEW t \in Threads, Client(t)
  PROVE  TicketsOK' /\ RowsOK' /\ (KeysOK => KeysOK')
<1>1. t \in Threads
  OBVIOUS
<1>2. ASSUME NEW q \in Request, Ask(t, q)
      PROVE  TicketsOK' /\ RowsOK' /\ (KeysOK => KeysOK')
  BY <1>1, <1>2, QuietOK DEF Ask
<1>3. CASE RefuseStale(t)
  BY <1>1, <1>3, QuietOK DEF RefuseStale, Answer
<1>4. CASE RefuseRepeat(t)
  BY <1>4, RefusalOK DEF RefuseRepeat, TicketsAndRowsOK
<1>5. CASE RefuseLimit(t)
  BY <1>5, RefusalOK DEF RefuseLimit, TicketsAndRowsOK
<1> QED
  BY <1>2, <1>3, <1>4, <1>5, ReserveOK, FinishOK DEF Client, TicketsAndRowsOK

LEMMA TicketsAndRowsStep == TicketsAndRowsOK /\ [Next]_vars => TicketsAndRowsOK'
<1> SUFFICES ASSUME TicketsAndRowsOK, [Next]_vars PROVE TicketsOK' /\ RowsOK'
  BY TypeOKStep DEF TicketsAndRowsOK
<1>1. CASE \E t \in Threads : Client(t)
  BY <1>1, ClientOK
<1>4. CASE Tick \/ UNCHANGED vars
  BY <1>4, QuietOK DEF Tick, vars, guard, windows
<1> QED BY <1>1, <1>4 DEF Next

LEMMA TicketsAndRowsInit == Init => TicketsAndRowsOK
  BY TypeOKInit DEF Init, TicketsAndRowsOK, TicketsOK, RowsOK, Idle

(* Rows, tickets and Originates agree, whatever is answered late.          *)
THEOREM TicketsAndRows == Spec => []TicketsAndRowsOK
  BY TicketsAndRowsInit, TicketsAndRowsStep, PTL DEF Spec

(* A row tells what became of the last Originate of its key, also when     *)
(* answers to older Originates of the key arrive late.                     *)
THEOREM RowsTrue == Spec => []RowsAreTrue
<1>1. TicketsAndRowsOK => RowsAreTrue
  BY DEF TicketsAndRowsOK, RowsOK, RowOf, Latest, RowsAreTrue
<1> QED BY <1>1, TicketsAndRows, PTL

(* A key is originated again only after a rejection or the TTL: what must  *)
(* hold before a reservation, and what makes it inductive.                 *)
OnceOK == TicketsAndRowsOK /\ KeysOK /\ OncePerKey

LEMMA OnceStep ==
  ASSUME OnceOK, [Next]_vars
  PROVE  OnceOK'
<1>1. TicketsAndRowsOK'
  BY TicketsAndRowsStep DEF OnceOK
<1>2. KeysOK'
  <2>1. CASE \E t \in Threads : Client(t)
    BY <2>1, ClientOK DEF OnceOK
  <2>2. CASE Tick \/ UNCHANGED vars
    BY <2>2, QuietOK DEF OnceOK, Tick, vars, guard, windows
  <2> QED BY <2>1, <2>2 DEF Next
<1>3. OncePerKey'
  <2>1. CASE originates' = originates
    BY <2>1 DEF OnceOK, OncePerKey
  <2>2. ASSUME NEW t \in Threads, Reserve(t) PROVE OncePerKey'
    <3>1. PICK q \in Request, at \in Nat, ticket \in Nat, new \in Originate :
            /\ q = thread[t].request /\ at = thread[t].time /\ ticket = sequence + 1
            /\ new = [ticket |-> ticket, request |-> q, when |-> at, outcome |-> "sent"]
      <4>1. t \in Threads /\ thread[t].pc = "timed" /\ TypeOK
        BY <2>2 DEF Reserve, OnceOK, TicketsAndRowsOK
      <4>2. thread[t].request \in Request /\ thread[t].time \in Nat /\ sequence + 1 \in Nat
        BY <4>1, ThreadFields DEF TypeOK
      <4>3. [ticket |-> sequence + 1, request |-> thread[t].request,
             when |-> thread[t].time, outcome |-> "sent"] \in Originate
        BY <4>2 DEF Originate
      <4> QED BY <4>2, <4>3
    <3>2. /\ originates' = originates \cup {new} /\ ~ HasRow(q, at) /\ at >= lastTime
          /\ new.ticket = ticket /\ new.request = q /\ new.when = at
      BY <2>2, <3>1 DEF Reserve, Stale, OnceOK, TicketsAndRowsOK, TypeOK
    <3>3. \A o \in originates : o.ticket \in Nat /\ o.ticket < ticket
      BY <3>1 DEF OnceOK, TicketsAndRowsOK, TicketsOK, TypeOK
    <3>4. ASSUME NEW o \in originates, KeyOf(o.request) # None,
                 KeyOf(o.request) = KeyOf(q), at - o.when < Ttl
          PROVE  o.outcome = "rejected"
      BY <3>1, <3>2, <3>4, KeptRows DEF HasRow, OnceOK, TicketsAndRowsOK
    <3> QED BY <3>1, <3>2, <3>3, <3>4 DEF OnceOK, OncePerKey
  <2>3. ASSUME NEW t \in Threads, NEW outcome \in Outcomes, Finish(t, outcome)
        PROVE  OncePerKey'
    <3>1. PICK o0 \in originates : o0.ticket = thread[t].ticket /\ o0.outcome = "sent"
      BY <2>3 DEF Finish, OnceOK, TicketsAndRowsOK, TicketsOK
    <3>2. \A o \in originates : o.ticket = thread[t].ticket => o.outcome # "rejected"
      BY <3>1 DEF OnceOK, TicketsAndRowsOK, TicketsOK
    <3>3. \A o \in originates' : \E p \in originates :
            /\ o.ticket = p.ticket /\ o.request = p.request /\ o.when = p.when
            /\ p.outcome = "rejected" => o.outcome = "rejected"
      <4>1. \A p \in originates :
              LET o == [p EXCEPT !.outcome = outcome]
              IN  o.ticket = p.ticket /\ o.request = p.request /\ o.when = p.when
        BY DEF OnceOK, TicketsAndRowsOK, TypeOK, Originate
      <4>2. ASSUME NEW o \in originates'
            PROVE  \E p \in originates :
                     /\ o.ticket = p.ticket /\ o.request = p.request /\ o.when = p.when
                     /\ p.outcome = "rejected" => o.outcome = "rejected"
        <5>1. PICK p \in originates : o = IF p.ticket = thread[t].ticket
                                         THEN [p EXCEPT !.outcome = outcome] ELSE p
          BY <2>3, <4>2 DEF Finish
        <5>2. p.ticket = thread[t].ticket => p.outcome # "rejected"
          BY <3>2
        <5>3. o.ticket = p.ticket /\ o.request = p.request /\ o.when = p.when
          BY <4>1, <5>1
        <5> QED BY <5>1, <5>2, <5>3
      <4> QED BY <4>2
    <3> QED BY <3>3 DEF OnceOK, OncePerKey
  <2> QED
    BY <2>1, <2>2, <2>3
       DEF Next, Client, Ask, RefuseStale, RefuseRepeat, RefuseLimit, Tick, vars
<1> QED BY <1>1, <1>2, <1>3 DEF OnceOK

(* A keyed request is originated once in a TTL unless the AMI rejected it, *)
(* for any number of threads.                                              *)
THEOREM KeyOriginatedOnce == Spec => []OncePerKey
<1>1. Init => OnceOK
  BY TicketsAndRowsInit DEF Init, OnceOK, KeysOK, OncePerKey
<1>2. OnceOK /\ [Next]_vars => OnceOK'
  BY OnceStep
<1>3. OnceOK => OncePerKey
  BY DEF OnceOK
<1> QED BY <1>1, <1>2, <1>3, PTL DEF Spec

-----------------------------------------------------------------------------
(* The bounds on load and on memory.                                       *)

(* The keys that have a row.                                               *)
Rows(r) == {k \in Keys : r[k] # NoRow}

(* Each count stays within its limit; that the counted sets are finite is  *)
(* part of it.                                                             *)
Within(S, n) == IsFiniteSet(S) /\ Cardinality(S) <= n

BoundsOK ==
  /\ Within(inflight, MaxInflight)
  /\ Within(Rows(requests), MaxRequests)
  /\ Within(Used(tenantWindow), MaxTenants)
  /\ Within(Used(extensionWindow), MaxExtensions)

(* An Originate without an answer has its ticket in flight as long as it   *)
(* is not older than the TTL.                                              *)
SentOK ==
  /\ \A o \in originates : o.when <= lastTime
  /\ \A o \in originates : o.outcome = "sent" /\ ~ Expired(o.when, lastTime) =>
       \E i \in inflight : i.ticket = o.ticket

LEMMA WithinSubset ==
  ASSUME NEW S, NEW T, NEW n \in Nat, Within(S, n), T \subseteq S
  PROVE  Within(T, n)
<1>1. IsFiniteSet(T) /\ Cardinality(T) <= Cardinality(S)
  BY FS_Subset DEF Within
<1>2. Cardinality(T) \in Nat /\ Cardinality(S) \in Nat
  BY <1>1, FS_CardinalityType DEF Within
<1> QED BY <1>1, <1>2 DEF Within

(* What a test of the number of elements before one more is added allows.  *)
LEMMA WithinAdd ==
  ASSUME NEW S, NEW x, NEW n \in Nat, Within(S, n), x \in S \/ ~ (Cardinality(S) >= n)
  PROVE  Within(S \cup {x}, n)
<1>1. Cardinality(S) \in Nat
  BY FS_CardinalityType DEF Within
<1> QED BY <1>1, FS_AddElement DEF Within

(* _cleanup only shortens the windows: an empty one stays empty.           *)
LEMMA TrimmedUsed ==
  ASSUME NEW D, NEW w \in [D -> Seq(Nat)], NEW at \in Nat
  PROVE  Used([d \in D |-> Trim(w[d], at)]) \subseteq Used(w)
<1>1. Trim(<<>>, at) = <<>>
  <2>1. {i \in 1..Len(<<>>) : \A j \in 1..i : OutOfWindow(<<>>[j], at)} = {}
    OBVIOUS
  <2> QED BY <2>1, FS_EmptySet DEF Trim
<1> QED BY <1>1 DEF Used

(* A window in which one entry is written, counted against the bound.      *)
LEMMA UsedAppend ==
  ASSUME NEW D, NEW w \in [D -> Seq(Nat)], NEW d \in D, NEW at \in Nat, NEW n \in Nat,
         Within(Used(w), n), ~ (Cardinality(Used(w)) >= n /\ w[d] = <<>>)
  PROVE  Within(Used([w EXCEPT ![d] = Append(@, at)]), n)
<1>1. Used([w EXCEPT ![d] = Append(@, at)]) \subseteq Used(w) \cup {d}
  BY DEF Used
<1>2. d \in Used(w) \/ ~ (Cardinality(Used(w)) >= n)
  BY DEF Used
<1>3. Within(Used(w) \cup {d}, n)
  BY <1>2, WithinAdd
<1> QED BY <1>1, <1>3, WithinSubset

LEMMA LimitsAreNaturals ==
  /\ MaxInflight \in Nat /\ MaxRequests \in Nat /\ MaxTenants \in Nat /\ MaxExtensions \in Nat
  /\ PerTenant \in Nat /\ PerExtension \in Nat /\ PerExtension <= PerTenant
  /\ Ttl \in Nat /\ Ttl > 0 /\ Window \in Nat /\ Window > 0
  BY AdmissionAssumption

(* What _cleanup leaves is within the bounds, with any time.               *)
LEMMA CleanupWithin ==
  ASSUME TypeOK, BoundsOK, NEW at \in Nat
  PROVE  /\ Within(OpenTickets(at), MaxInflight)
         /\ Within(Rows(OpenRows(at)), MaxRequests)
         /\ Within(Used(TenantTimes(at)), MaxTenants)
         /\ Within(Used(ExtensionTimes(at)), MaxExtensions)
<1>1. OpenTickets(at) \subseteq inflight /\ Rows(OpenRows(at)) \subseteq Rows(requests)
  BY DEF OpenTickets, OpenRows, Rows
<1>2. /\ Used(TenantTimes(at)) \subseteq Used(tenantWindow)
      /\ Used(ExtensionTimes(at)) \subseteq Used(extensionWindow)
  BY TrimmedUsed DEF TypeOK, TenantTimes, ExtensionTimes
<1> QED BY <1>1, <1>2, WithinSubset, LimitsAreNaturals DEF BoundsOK

LEMMA ReserveWithin ==
  ASSUME TypeOK, BoundsOK, NEW t \in Threads, Reserve(t)
  PROVE  BoundsOK'
<1>1. PICK q \in Request, at \in Nat : q = thread[t].request /\ at = thread[t].time
  BY ThreadFields DEF Reserve
<1>2. PICK slip :
        /\ ~ OverLimit(q, at)
        /\ inflight' = OpenTickets(at) \cup {slip}
        /\ tenantWindow' = [TenantTimes(at) EXCEPT ![TenantOf[q.extension]] = Append(@, at)]
        /\ extensionWindow' = [ExtensionTimes(at) EXCEPT ![q.extension] = Append(@, at)]
  BY <1>1 DEF Reserve
<1>3. \A k \in Keys \ {KeyOf(q)} : requests'[k] = OpenRows(at)[k]
  BY <1>1 DEF Reserve
<1>4. q.extension \in Extensions /\ TenantOf[q.extension] \in Tenants
  BY RequestFields
<1>5. Within(inflight', MaxInflight)
  BY <1>2, WithinAdd, CleanupWithin, LimitsAreNaturals DEF OverLimit
<1>6. Within(Rows(requests'), MaxRequests)
  <2>1. Rows(requests') \subseteq Rows(OpenRows(at)) \cup {KeyOf(q)}
    BY <1>3 DEF Rows
  <2>2. CASE KeyOf(q) = None
    <3>1. Rows(requests') \subseteq Rows(OpenRows(at))
      BY <2>1, <2>2, AdmissionAssumption DEF Rows, Keys
    <3> QED BY <3>1, CleanupWithin, WithinSubset, LimitsAreNaturals
  <2>3. CASE KeyOf(q) # None
    <3>1. ~ (Cardinality(Rows(OpenRows(at))) >= MaxRequests)
      BY <1>2, <2>3 DEF OverLimit, Rows
    <3>2. Within(Rows(OpenRows(at)) \cup {KeyOf(q)}, MaxRequests)
      BY <3>1, WithinAdd, CleanupWithin, LimitsAreNaturals
    <3> QED BY <2>1, <3>2, WithinSubset, LimitsAreNaturals
  <2> QED BY <2>2, <2>3
<1>7. Within(Used(tenantWindow'), MaxTenants)
  BY <1>2, <1>4, UsedAppend, CleanupWithin, CleanupType, LimitsAreNaturals DEF OverLimit
<1>8. Within(Used(extensionWindow'), MaxExtensions)
  BY <1>2, <1>4, UsedAppend, CleanupWithin, CleanupType, LimitsAreNaturals DEF OverLimit
<1> QED BY <1>5, <1>6, <1>7, <1>8 DEF BoundsOK

LEMMA BoundsStep ==
  ASSUME TypeOK, BoundsOK, [Next]_vars
  PROVE  BoundsOK'
<1>1. ASSUME NEW at \in Nat, Cleanup(at) PROVE BoundsOK'
  BY <1>1, CleanupWithin DEF Cleanup, BoundsOK
<1>2. ASSUME UNCHANGED guard PROVE BoundsOK'
  BY <1>2 DEF guard, windows, BoundsOK
<1>3. ASSUME NEW t \in Threads, Client(t) PROVE BoundsOK'
  <2>1. RefuseRepeat(t) \/ RefuseLimit(t) => thread[t].time \in Nat /\ Cleanup(thread[t].time)
    BY ThreadFields DEF RefuseRepeat, RefuseLimit
  <2>2. ASSUME NEW o \in Outcomes, Finish(t, o) PROVE BoundsOK'
    <3>1. inflight' \subseteq inflight /\ UNCHANGED windows
      BY <2>2 DEF Finish, FinishTicket
    <3>2. Rows(requests') \subseteq Rows(requests)
      BY <2>2 DEF Finish, FinishTicket, Rows
    <3> QED BY <3>1, <3>2, WithinSubset, LimitsAreNaturals DEF windows, BoundsOK
  <2> QED BY <1>1, <1>2, <1>3, <2>1, <2>2, ReserveWithin DEF Client, Ask, RefuseStale
<1> QED BY <1>2, <1>3 DEF Next, Tick, vars, guard, windows

LEMMA BoundsInit == Init => BoundsOK
<1> SUFFICES ASSUME Init PROVE BoundsOK
  OBVIOUS
<1>1. inflight = {} /\ Rows(requests) = {} /\ Used(tenantWindow) = {} /\ Used(extensionWindow) = {}
  BY DEF Init, Rows, Used
<1> QED BY <1>1, FS_EmptySet, LimitsAreNaturals DEF BoundsOK, Within

(* The tickets in flight, the idempotency rows and the rate windows in use *)
(* never exceed max_inflight and the bounds on memory.                     *)
THEOREM MemoryBounded == Spec => []BoundsOK
<1>1. Init => TypeOK /\ BoundsOK
  BY TypeOKInit, BoundsInit
<1>2. (TypeOK /\ BoundsOK) /\ [Next]_vars => (TypeOK /\ BoundsOK)'
  BY TypeOKStep, BoundsStep
<1> QED BY <1>1, <1>2, PTL DEF Spec

-----------------------------------------------------------------------------
(* The clock of the guard is monotonic.                                    *)

(* A thread that entered the lock: its time, and what it changes.          *)
LEMMA SentAfterCleanup ==
  ASSUME TypeOK, TicketsOK, SentOK, NEW at \in Nat, at >= lastTime
  PROVE  /\ \A o \in originates : o.when <= at
         /\ \A o \in originates : o.outcome = "sent" /\ ~ Expired(o.when, at) =>
              \E i \in OpenTickets(at) : i.ticket = o.ticket
<1>1. \A o \in originates : o.when \in Nat /\ o.when <= lastTime /\ lastTime \in Nat
  BY DEF SentOK, TypeOK, Originate
<1>2. ASSUME NEW o \in originates, o.outcome = "sent", ~ Expired(o.when, at)
      PROVE  \E i \in OpenTickets(at) : i.ticket = o.ticket
  <2>1. ~ Expired(o.when, lastTime)
    BY <1>1, <1>2, LimitsAreNaturals DEF Expired
  <2>2. PICK i \in inflight : i.ticket = o.ticket
    BY <1>2, <2>1 DEF SentOK
  <2>3. i.when = o.when
    BY <2>2 DEF TicketsOK
  <2> QED BY <1>2, <2>2, <2>3 DEF OpenTickets
<1> QED BY <1>1, <1>2

(* finish writes an outcome; nothing else of an Originate ever changes.    *)
LEMMA FinishKeeps ==
  ASSUME TypeOK, NEW t \in Threads, NEW outcome \in Outcomes, Finish(t, outcome)
  PROVE  \A o \in originates' : \E p \in originates :
           /\ o.ticket = p.ticket /\ o.request = p.request /\ o.when = p.when
           /\ o.outcome = IF p.ticket = thread[t].ticket THEN outcome ELSE p.outcome
<1>1. \A p \in originates :
        LET o == [p EXCEPT !.outcome = outcome]
        IN  o.ticket = p.ticket /\ o.request = p.request /\ o.when = p.when /\ o.outcome = outcome
  BY DEF TypeOK, Originate
<1> SUFFICES ASSUME NEW o \in originates'
             PROVE  \E p \in originates :
                      /\ o.ticket = p.ticket /\ o.request = p.request /\ o.when = p.when
                      /\ o.outcome = IF p.ticket = thread[t].ticket THEN outcome ELSE p.outcome
  OBVIOUS
<1>2. PICK p \in originates : o = IF p.ticket = thread[t].ticket
                                  THEN [p EXCEPT !.outcome = outcome] ELSE p
  BY DEF Finish
<1>3. CASE p.ticket = thread[t].ticket
  BY <1>1, <1>2, <1>3
<1>4. CASE p.ticket # thread[t].ticket
  BY <1>2, <1>4
<1> QED BY <1>3, <1>4

(* What a reservation reads and writes.                                    *)
LEMMA ReserveWrites ==
  ASSUME TypeOK, NEW t \in Threads, Reserve(t)
  PROVE  \E q \in Request, at \in Nat, new \in Originate :
           /\ at >= lastTime /\ ~ OverLimit(q, at) /\ lastTime' = at /\ sequence' = sequence + 1
           /\ originates' = originates \cup {new}
           /\ new.ticket = sequence + 1 /\ new.request = q /\ new.when = at /\ new.outcome = "sent"
           /\ OpenTickets(at) \subseteq inflight'
           /\ \E i \in inflight' : i.ticket = new.ticket
           /\ tenantWindow' = [TenantTimes(at) EXCEPT ![TenantOf[q.extension]] = Append(@, at)]
           /\ extensionWindow' = [ExtensionTimes(at) EXCEPT ![q.extension] = Append(@, at)]
<1> DEFINE q == thread[t].request
           at == thread[t].time
           new == [ticket |-> sequence + 1, request |-> q, when |-> at, outcome |-> "sent"]
<1>1. q \in Request /\ at \in Nat /\ at >= lastTime
  BY ThreadFields DEF Reserve, Stale, TypeOK
<1>2. new \in Originate
  BY <1>1 DEF Originate, TypeOK
<1>3. /\ ~ OverLimit(q, at) /\ lastTime' = at /\ sequence' = sequence + 1
      /\ originates' = originates \cup {new}
      /\ OpenTickets(at) \subseteq inflight'
      /\ [ticket |-> sequence + 1, when |-> at, key |-> KeyOf(q)] \in inflight'
      /\ tenantWindow' = [TenantTimes(at) EXCEPT ![TenantOf[q.extension]] = Append(@, at)]
      /\ extensionWindow' = [ExtensionTimes(at) EXCEPT ![q.extension] = Append(@, at)]
  BY DEF Reserve
<1>4. \E i \in inflight' : i.ticket = sequence + 1
  BY <1>3
<1>5. new.ticket = sequence + 1 /\ new.request = q /\ new.when = at /\ new.outcome = "sent"
  OBVIOUS
<1> HIDE DEF q, at, new
<1> QED BY <1>1, <1>2, <1>3, <1>4, <1>5

LEMMA SentStep ==
  ASSUME TypeOK, TicketsOK, SentOK, [Next]_vars
  PROVE  SentOK'
<1>1. ASSUME NEW at \in Nat, at >= lastTime, Cleanup(at), lastTime' = at, UNCHANGED originates
      PROVE  SentOK'
  BY <1>1, SentAfterCleanup DEF Cleanup, SentOK
<1>2. ASSUME UNCHANGED <<guard, originates>> PROVE SentOK'
  BY <1>2 DEF guard, SentOK
<1>3. ASSUME NEW t \in Threads, RefuseRepeat(t) \/ RefuseLimit(t) PROVE SentOK'
  <2>1. thread[t].time \in Nat /\ thread[t].time >= lastTime
    BY <1>3, ThreadFields DEF RefuseRepeat, RefuseLimit, Stale, TypeOK
  <2> QED BY <1>1, <1>3, <2>1 DEF RefuseRepeat, RefuseLimit
<1>4. ASSUME NEW t \in Threads, Reserve(t) PROVE SentOK'
  <2>1. PICK q \in Request, at \in Nat, new \in Originate :
          /\ at >= lastTime /\ lastTime' = at /\ originates' = originates \cup {new}
          /\ new.when = at /\ OpenTickets(at) \subseteq inflight'
          /\ \E i \in inflight' : i.ticket = new.ticket
    BY <1>4, ReserveWrites
  <2> QED BY <2>1, SentAfterCleanup DEF SentOK
<1>5. ASSUME NEW t \in Threads, NEW outcome \in Outcomes, Finish(t, outcome) PROVE SentOK'
  <2>1. inflight' = {i \in inflight : i.ticket # thread[t].ticket} /\ lastTime' = lastTime
    BY <1>5 DEF Finish, FinishTicket
  <2>2. outcome # "sent"
    BY DEF Outcomes
  <2>3. ASSUME NEW o \in originates'
        PROVE  /\ o.when <= lastTime
               /\ o.outcome = "sent" /\ ~ Expired(o.when, lastTime) =>
                    \E i \in inflight' : i.ticket = o.ticket
    <3>1. PICK p \in originates :
            /\ o.ticket = p.ticket /\ o.when = p.when
            /\ o.outcome = IF p.ticket = thread[t].ticket THEN outcome ELSE p.outcome
      BY <1>5, <2>3, FinishKeeps
    <3>2. /\ p.when <= lastTime
          /\ p.outcome = "sent" /\ ~ Expired(p.when, lastTime) =>
               \E i \in inflight : i.ticket = p.ticket
      BY <3>1 DEF SentOK
    <3> QED BY <2>1, <2>2, <3>1, <3>2
  <2> QED BY <2>1, <2>3 DEF SentOK
<1> QED
  BY <1>2, <1>3, <1>4, <1>5
     DEF Next, Client, Ask, RefuseStale, Tick, vars, guard, windows

(* Elements with distinct numbers in 1..n are at most n.                   *)
LEMMA NumberedWithin ==
  ASSUME NEW S, NEW n \in Nat, NEW g \in [S -> 1..n],
         \A x, y \in S : g[x] = g[y] => x = y
  PROVE  Within(S, n)
<1>1. g \in Injection(S, 1..n)
  BY DEF Injection, IsInjective
<1>2. IsFiniteSet(1..n) /\ Cardinality(1..n) = n
  BY FS_Interval
<1> QED BY <1>1, <1>2, FS_Injection DEF Within

(* Originates that wait for their answer are no more than the tickets.     *)
LEMMA SentWithin ==
  ASSUME TypeOK, TicketsOK, SentOK, BoundsOK
  PROVE  Within({o \in originates : o.outcome = "sent" /\ ~ Expired(o.when, lastTime)},
                MaxInflight)
<1> DEFINE S == {o \in originates : o.outcome = "sent" /\ ~ Expired(o.when, lastTime)}
           f == [o \in S |-> CHOOSE i \in inflight : i.ticket = o.ticket]
<1>1. \A o \in S : f[o] \in inflight /\ f[o].ticket = o.ticket
  <2>1. \A o \in S : \E i \in inflight : i.ticket = o.ticket
    BY DEF SentOK
  <2> QED BY <2>1
<1>2. f \in [S -> inflight]
  BY <1>1
<1>3. \A o, p \in S : f[o] = f[p] => o = p
  <2>1. \A o, p \in S : o.ticket = p.ticket => o = p
    BY DEF TicketsOK
  <2> HIDE DEF f, S
  <2> QED BY <1>1, <2>1
<1> HIDE DEF S, f
<1>4. f \in Injection(S, inflight)
  BY <1>2, <1>3 DEF Injection, IsInjective
<1>5. IsFiniteSet(S) /\ Cardinality(S) <= Cardinality(inflight)
  BY <1>4, FS_Injection DEF BoundsOK, Within
<1>6. Cardinality(S) \in Nat /\ Cardinality(inflight) \in Nat
  BY <1>5, FS_CardinalityType DEF BoundsOK, Within
<1>7. Within(S, MaxInflight)
  BY <1>5, <1>6, LimitsAreNaturals DEF BoundsOK, Within
<1> QED BY <1>7 DEF S

LoadOK == TicketsAndRowsOK /\ SentOK /\ BoundsOK

(* The Originates without an answer that are younger than the TTL never    *)
(* exceed max_inflight, whenever their threads read the clock.             *)
THEOREM LoadBounded == Spec => []LoadIsBounded
<1>1. Init => LoadOK
  BY TicketsAndRowsInit, BoundsInit DEF Init, LoadOK, SentOK
<1>2. LoadOK /\ [Next]_vars => LoadOK'
  BY TicketsAndRowsStep, SentStep, BoundsStep DEF LoadOK, TicketsAndRowsOK
<1>3. LoadOK => LoadIsBounded
  BY SentWithin DEF LoadOK, TicketsAndRowsOK, BoundsOK, Within, Rows, LoadIsBounded
<1> QED BY <1>1, <1>2, <1>3, PTL DEF Spec

-----------------------------------------------------------------------------
(* The rate windows.                                                       *)

(* The tickets of the Originates of A have distinct numbers in 1..limit.   *)
Numbering(g, A, limit) ==
  /\ \A o \in A : g[o.ticket] \in 1..limit
  /\ \A o, p \in A : g[o.ticket] = g[p.ticket] => o.ticket = p.ticket

(* So there are at most limit of them.                                     *)
Fits(A, limit, n) == \E g \in [1..n -> 0..limit] : Numbering(g, A, limit)

(* Each of them has an entry of its own, with its time, in a window.       *)
Counted(A, w, n) ==
  \E g \in [1..n -> 0..Len(w)] :
    Numbering(g, A, Len(w)) /\ \A o \in A : w[g[o.ticket]] = o.when

(* The Originates of the extensions S in the window that ends at a time.   *)
Young(os, S, at) == {o \in os : o.request.extension \in S /\ at - o.when < Window}

Peers(c) == {y \in Extensions : TenantOf[y] = c}

(* A window never grows beyond its limit, and counts every young Originate.*)
WindowOK(S, w, limit) ==
  Len(w) <= limit /\ Counted(Young(originates, S, lastTime), w, sequence)

WindowsOK ==
  /\ \A x \in Extensions : WindowOK({x}, extensionWindow[x], PerExtension)
  /\ \A c \in Tenants : WindowOK(Peers(c), tenantWindow[c], PerTenant)

(* The rate up to an Originate.                                            *)
RateOK(S, o, limit) == Fits(Admitted(S, o), limit, sequence)

RatesOK ==
  \A o \in originates :
    /\ RateOK({o.request.extension}, o, PerExtension)
    /\ RateOK(Peers(TenantOf[o.request.extension]), o, PerTenant)

(* The tickets of A are among the first n.                                 *)
Issued(A, n) == A \subseteq Originate /\ \A o \in A : o.ticket \in 1..n

(* _cleanup drops the entries before the first one it keeps: all of them   *)
(* are out of the window.                                                  *)
LEMMA TrimDrops ==
  ASSUME NEW w \in Seq(Nat), NEW at \in Nat
  PROVE  \E n \in 0..Len(w) :
           /\ Len(Trim(w, at)) = Len(w) - n
           /\ \A i \in 1..n : OutOfWindow(w[i], at)
           /\ \A i \in 1..(Len(w) - n) : Trim(w, at)[i] = w[i + n]
<1> DEFINE gone == {i \in 1..Len(w) : \A j \in 1..i : OutOfWindow(w[j], at)}
           n == Cardinality(gone)
<1>0. Len(w) \in Nat
  OBVIOUS
<1>1. IsFiniteSet(1..Len(w)) /\ Len(w) \in Nat /\ Cardinality(1..Len(w)) = Len(w)
  <2>1. \A m \in Nat : IsFiniteSet(1..m) /\ Cardinality(1..m) = m
    BY FS_Interval
  <2> QED BY <1>0, <2>1
<1>2. IsFiniteSet(gone) /\ Cardinality(gone) <= Len(w)
  BY <1>1, FS_Subset
<1>3. n \in 0..Len(w)
  BY <1>1, <1>2, FS_CardinalityType
<1>4. gone = 1..n
  <2>1. ASSUME NEW i \in gone PROVE i <= n
    <3>1. 1..i \subseteq gone /\ i \in Nat
      OBVIOUS
    <3>2. Cardinality(1..i) = i
      BY <3>1, FS_Interval
    <3> HIDE DEF gone
    <3> QED BY <1>2, <3>1, <3>2, FS_Subset
  <2>2. gone \subseteq 1..n
    BY <1>3, <2>1
  <2>3. IsFiniteSet(1..n) /\ Cardinality(1..n) = n
    BY <1>3, FS_Interval
  <2> HIDE DEF gone
  <2> QED BY <2>2, <2>3, FS_Subset
<1>5. \A i \in gone : OutOfWindow(w[i], at)
  OBVIOUS
<1>6. Trim(w, at) = SubSeq(w, n + 1, Len(w))
  BY DEF Trim
<1> HIDE DEF gone, n
<1>7. /\ Len(SubSeq(w, n + 1, Len(w))) = Len(w) - n
      /\ \A i \in 1..(Len(w) - n) : SubSeq(w, n + 1, Len(w))[i] = w[i + n]
  <2>1. n + 1 \in 1..(Len(w) + 1) /\ (n + 1)..Len(w) \subseteq 1..Len(w) /\ n \in Nat
    BY <1>1, <1>3
  <2>2. \A i \in 1..(Len(w) - n) : (n + 1) + i - 1 = i + n
    BY <1>1, <2>1
  <2> QED BY <1>1, <1>3, <2>1, <2>2, SubSeqProperties
<1> QED BY <1>3, <1>4, <1>5, <1>6, <1>7

LEMMA CountedTrim ==
  ASSUME NEW os, NEW S, NEW w \in Seq(Nat), NEW last \in Nat, NEW at \in Nat, NEW n \in Nat,
         Issued(os, n), last <= at, \A o \in os : o.when <= last,
         Counted(Young(os, S, last), w, n)
  PROVE  Counted(Young(os, S, at), Trim(w, at), n)
<1>1. PICK g \in [1..n -> 0..Len(w)] :
        /\ Numbering(g, Young(os, S, last), Len(w))
        /\ \A o \in Young(os, S, last) : w[g[o.ticket]] = o.when
  BY DEF Counted
<1>2. PICK d \in 0..Len(w) :
        /\ Len(Trim(w, at)) = Len(w) - d
        /\ \A i \in 1..d : OutOfWindow(w[i], at)
        /\ \A i \in 1..(Len(w) - d) : Trim(w, at)[i] = w[i + d]
  BY TrimDrops
<1>3. \A o \in os : o.ticket \in 1..n /\ o.when \in Nat
  BY DEF Issued, Originate
<1>4. Young(os, S, at) \subseteq Young(os, S, last)
  BY <1>3, LimitsAreNaturals DEF Young
<1>5. Len(w) \in Nat
  OBVIOUS
<1>6. \A o \in Young(os, S, at) : g[o.ticket] \in (d + 1)..Len(w)
  <2> SUFFICES ASSUME NEW o \in Young(os, S, at) PROVE g[o.ticket] \in (d + 1)..Len(w)
    OBVIOUS
  <2>1. /\ o.when \in Nat /\ o.when <= last /\ at - o.when < Window
        /\ g[o.ticket] \in 1..Len(w) /\ w[g[o.ticket]] = o.when
    BY <1>1, <1>3, <1>4 DEF Young, Numbering
  <2>2. ~ OutOfWindow(o.when, at)
    BY <2>1, LimitsAreNaturals DEF OutOfWindow
  <2>3. ~ (g[o.ticket] \in 1..d)
    BY <1>2, <2>1, <2>2
  <2> QED BY <1>5, <2>1, <2>3
<1> DEFINE h == [i \in 1..n |-> IF g[i] > d THEN g[i] - d ELSE 0]
<1>7. h \in [1..n -> 0..Len(Trim(w, at))]
  BY <1>2, <1>5
<1>8. \A o \in Young(os, S, at) : h[o.ticket] = g[o.ticket] - d /\ o.ticket \in 1..n
  BY <1>3, <1>5, <1>6 DEF Young
<1> HIDE DEF h
<1>9. Numbering(h, Young(os, S, at), Len(Trim(w, at)))
  <2>1. \A o \in Young(os, S, at) : h[o.ticket] \in 1..Len(Trim(w, at))
    <3>1. \A a \in (d + 1)..Len(w) : a - d \in 1..(Len(w) - d)
      BY <1>5
    <3>2. \A o \in Young(os, S, at) : h[o.ticket] \in 1..(Len(w) - d)
      BY <1>6, <1>8, <3>1
    <3> QED BY <1>2, <3>2
  <2>2. ASSUME NEW o \in Young(os, S, at), NEW p \in Young(os, S, at), h[o.ticket] = h[p.ticket]
        PROVE  g[o.ticket] = g[p.ticket]
    <3>1. g[o.ticket] \in Nat /\ g[p.ticket] \in Nat /\ d \in Nat
      BY <1>5, <1>6
    <3>2. \A a, b \in Nat : a - d = b - d => a = b
      BY <3>1
    <3> QED BY <1>8, <2>2, <3>1, <3>2
  <2> QED BY <1>1, <1>4, <2>1, <2>2 DEF Numbering
<1>10. ASSUME NEW o \in Young(os, S, at) PROVE Trim(w, at)[h[o.ticket]] = o.when
  <2>1. h[o.ticket] \in 1..(Len(w) - d) /\ h[o.ticket] + d = g[o.ticket]
    <3>1. g[o.ticket] \in (d + 1)..Len(w) /\ h[o.ticket] = g[o.ticket] - d /\ d \in Nat
      BY <1>5, <1>6, <1>8
    <3>2. \A a \in (d + 1)..Len(w) : a - d \in 1..(Len(w) - d) /\ (a - d) + d = a
      BY <1>5, <3>1
    <3> QED BY <3>1, <3>2
  <2> QED BY <1>1, <1>2, <1>4, <2>1
<1> QED BY <1>7, <1>9, <1>10 DEF Counted

(* One more Originate, and its time at the end of the window.              *)
LEMMA CountedAppend ==
  ASSUME NEW A, NEW w \in Seq(Nat), NEW at \in Nat, NEW n \in Nat, Issued(A, n),
         Counted(A, w, n), NEW new, new.ticket = n + 1, new.when = at
  PROVE  Counted(A \cup {new}, Append(w, at), n + 1)
<1>1. PICK g \in [1..n -> 0..Len(w)] :
        Numbering(g, A, Len(w)) /\ \A o \in A : w[g[o.ticket]] = o.when
  BY DEF Counted
<1> DEFINE h == [i \in 1..(n + 1) |-> IF i = n + 1 THEN Len(w) + 1 ELSE g[i]]
<1>2. /\ Len(w) \in Nat /\ Len(Append(w, at)) = Len(w) + 1
      /\ Append(w, at)[Len(w) + 1] = at
      /\ \A i \in 1..Len(w) : Append(w, at)[i] = w[i]
  OBVIOUS
<1>3. h \in [1..(n + 1) -> 0..(Len(w) + 1)]
  <2>1. \A i \in 1..(n + 1) : i # n + 1 => g[i] \in 0..Len(w)
    OBVIOUS
  <2> QED BY <1>2, <2>1
<1>4. \A o \in A : h[o.ticket] = g[o.ticket] /\ o.ticket \in 1..n
  BY DEF Issued
<1>5. h[new.ticket] = Len(w) + 1
  OBVIOUS
<1> HIDE DEF h
<1>6. \A o \in A : h[o.ticket] \in 1..Len(w) /\ w[h[o.ticket]] = o.when
  BY <1>1, <1>4 DEF Numbering
<1>7. Numbering(h, A \cup {new}, Len(w) + 1)
  <2>1. \A o \in A \cup {new} : h[o.ticket] \in 1..(Len(w) + 1)
    BY <1>2, <1>5, <1>6
  <2>2. ASSUME NEW o \in A \cup {new}, NEW p \in A \cup {new}, h[o.ticket] = h[p.ticket]
        PROVE  o.ticket = p.ticket
    <3>1. \A r \in A : h[r.ticket] # Len(w) + 1
      BY <1>2, <1>6
    <3>2. CASE o \in A /\ p \in A
      BY <1>1, <1>4, <2>2, <3>2 DEF Numbering
    <3> QED BY <1>5, <2>2, <3>1, <3>2
  <2> QED BY <2>1, <2>2 DEF Numbering
<1>8. \A o \in A \cup {new} : Append(w, at)[h[o.ticket]] = o.when
  BY <1>2, <1>5, <1>6
<1> QED BY <1>2, <1>3, <1>7, <1>8 DEF Counted

LEMMA CountedLater ==
  ASSUME NEW A, NEW w \in Seq(Nat), NEW n \in Nat, Issued(A, n), Counted(A, w, n)
  PROVE  Counted(A, w, n + 1)
<1>1. PICK g \in [1..n -> 0..Len(w)] :
        Numbering(g, A, Len(w)) /\ \A o \in A : w[g[o.ticket]] = o.when
  BY DEF Counted
<1> DEFINE h == [i \in 1..(n + 1) |-> IF i = n + 1 THEN 0 ELSE g[i]]
<1>2. Len(w) \in Nat /\ \A i \in 1..(n + 1) : i # n + 1 => g[i] \in 0..Len(w)
  OBVIOUS
<1>3. h \in [1..(n + 1) -> 0..Len(w)]
  BY <1>2
<1>4. \A o \in A : h[o.ticket] = g[o.ticket]
  BY DEF Issued
<1> HIDE DEF h
<1>5. Numbering(h, A, Len(w)) /\ \A o \in A : w[h[o.ticket]] = o.when
  BY <1>1, <1>4 DEF Numbering
<1> QED BY <1>3, <1>5 DEF Counted

(* Other records with the same tickets and times.                          *)
LEMMA CountedSame ==
  ASSUME NEW A, NEW B, NEW w, NEW n, Counted(A, w, n),
         \A o \in B : \E p \in A : p.ticket = o.ticket /\ p.when = o.when
  PROVE  Counted(B, w, n)
<1>1. PICK g \in [1..n -> 0..Len(w)] :
        Numbering(g, A, Len(w)) /\ \A o \in A : w[g[o.ticket]] = o.when
  BY DEF Counted
<1>2. \A o \in B : g[o.ticket] \in 1..Len(w) /\ w[g[o.ticket]] = o.when
  BY <1>1 DEF Numbering
<1>3. ASSUME NEW o \in B, NEW p \in B, g[o.ticket] = g[p.ticket] PROVE o.ticket = p.ticket
  <2>1. PICK a \in A, b \in A : a.ticket = o.ticket /\ b.ticket = p.ticket
    OBVIOUS
  <2> QED BY <1>1, <1>3, <2>1 DEF Numbering
<1>4. Numbering(g, B, Len(w))
  BY <1>2, <1>3 DEF Numbering
<1> QED BY <1>2, <1>4 DEF Counted

LEMMA CountedSubset ==
  ASSUME NEW A, NEW B, NEW w, NEW n, Counted(A, w, n), B \subseteq A
  PROVE  Counted(B, w, n)
<1>1. \A o \in B : \E p \in A : p.ticket = o.ticket /\ p.when = o.when
  OBVIOUS
<1> QED BY <1>1, CountedSame

LEMMA FitsSame ==
  ASSUME NEW A, NEW B, NEW limit, NEW n, Fits(A, limit, n),
         \A o \in B : \E p \in A : p.ticket = o.ticket
  PROVE  Fits(B, limit, n)
<1>1. PICK g \in [1..n -> 0..limit] : Numbering(g, A, limit)
  BY DEF Fits
<1>2. \A o \in B : g[o.ticket] \in 1..limit
  BY <1>1 DEF Numbering
<1>3. ASSUME NEW o \in B, NEW p \in B, g[o.ticket] = g[p.ticket] PROVE o.ticket = p.ticket
  <2>1. PICK a \in A, b \in A : a.ticket = o.ticket /\ b.ticket = p.ticket
    OBVIOUS
  <2> QED BY <1>1, <1>3, <2>1 DEF Numbering
<1>4. Numbering(g, B, limit)
  BY <1>2, <1>3 DEF Numbering
<1> QED BY <1>4 DEF Fits

LEMMA FitsLater ==
  ASSUME NEW A, NEW limit \in Nat, NEW n \in Nat, Issued(A, n), Fits(A, limit, n)
  PROVE  Fits(A, limit, n + 1)
<1>1. PICK g \in [1..n -> 0..limit] : Numbering(g, A, limit)
  BY DEF Fits
<1> DEFINE h == [i \in 1..(n + 1) |-> IF i = n + 1 THEN 0 ELSE g[i]]
<1>2. h \in [1..(n + 1) -> 0..limit]
  <2>1. \A i \in 1..(n + 1) : i # n + 1 => g[i] \in 0..limit
    OBVIOUS
  <2> QED BY <2>1
<1>3. \A o \in A : h[o.ticket] = g[o.ticket]
  BY DEF Issued
<1> HIDE DEF h
<1>4. Numbering(h, A, limit)
  BY <1>1, <1>3 DEF Numbering
<1> QED BY <1>2, <1>4 DEF Fits

LEMMA FitsCounted ==
  ASSUME NEW A, NEW w \in Seq(Nat), NEW limit \in Nat, NEW n \in Nat,
         Counted(A, w, n), Len(w) <= limit
  PROVE  Fits(A, limit, n)
<1>1. PICK g \in [1..n -> 0..Len(w)] : Numbering(g, A, Len(w))
  BY DEF Counted
<1>2. Len(w) \in Nat /\ 0..Len(w) \subseteq 0..limit /\ 1..Len(w) \subseteq 1..limit
  OBVIOUS
<1>3. g \in [1..n -> 0..limit]
  BY <1>2
<1> QED BY <1>1, <1>2, <1>3 DEF Fits, Numbering

LEMMA FitsWithin ==
  ASSUME NEW A, NEW limit \in Nat, NEW n \in Nat, Issued(A, n), Fits(A, limit, n),
         \A o, p \in A : o.ticket = p.ticket => o = p
  PROVE  Within(A, limit)
<1>1. PICK g \in [1..n -> 0..limit] : Numbering(g, A, limit)
  BY DEF Fits
<1> DEFINE h == [o \in A |-> g[o.ticket]]
<1>2. h \in [A -> 1..limit] /\ \A o, p \in A : h[o] = h[p] => o = p
  BY <1>1 DEF Numbering
<1> HIDE DEF h
<1> QED BY <1>2, NumberedWithin

(* No Originate is from the future of the guard or lacks a ticket.         *)
TimesOK ==
  /\ \A o \in originates : o.when <= lastTime
  /\ Issued(originates, sequence)

LEMMA TimesFollow ==
  ASSUME TypeOK, TicketsOK, SentOK
  PROVE  TimesOK
  BY DEF TypeOK, TicketsOK, SentOK, TimesOK, Issued

LEMMA WindowTypes ==
  ASSUME TypeOK
  PROVE  /\ \A x \in Extensions : extensionWindow[x] \in Seq(Nat)
         /\ \A c \in Tenants : tenantWindow[c] \in Seq(Nat)
         /\ \A o \in originates : o.request \in Request /\ o.request.extension \in Extensions
         /\ sequence \in Nat /\ lastTime \in Nat
  BY RequestFields DEF TypeOK, Originate

(* A window after _cleanup with a later time.                              *)
LEMMA WindowTrim ==
  ASSUME TypeOK, TimesOK, NEW at \in Nat, at >= lastTime,
         NEW S, NEW w \in Seq(Nat), NEW limit \in Nat, WindowOK(S, w, limit)
  PROVE  /\ Len(Trim(w, at)) <= limit
         /\ Counted(Young(originates, S, at), Trim(w, at), sequence)
<1>1. Len(Trim(w, at)) <= Len(w) /\ Len(w) \in Nat /\ Len(Trim(w, at)) \in Nat
  <2>1. PICK n \in 0..Len(w) : Len(Trim(w, at)) = Len(w) - n
    BY TrimDrops
  <2>2. Len(w) \in Nat
    OBVIOUS
  <2> QED BY <2>1, <2>2
<1>2. Counted(Young(originates, S, at), Trim(w, at), sequence)
  BY CountedTrim, WindowTypes DEF TimesOK, WindowOK
<1> QED BY <1>1, <1>2 DEF WindowOK

LEMMA WindowsCleanup ==
  ASSUME TypeOK, TimesOK, WindowsOK, NEW at \in Nat, at >= lastTime, Cleanup(at),
         lastTime' = at, UNCHANGED <<sequence, originates>>
  PROVE  WindowsOK'
<1>1. ASSUME NEW x \in Extensions PROVE WindowOK({x}, extensionWindow[x], PerExtension)'
  <2>1. extensionWindow'[x] = Trim(extensionWindow[x], at)
    BY DEF Cleanup, ExtensionTimes
  <2> QED BY <2>1, WindowTrim, WindowTypes, LimitsAreNaturals DEF WindowsOK, WindowOK
<1>2. ASSUME NEW c \in Tenants PROVE WindowOK(Peers(c), tenantWindow[c], PerTenant)'
  <2>1. tenantWindow'[c] = Trim(tenantWindow[c], at)
    BY DEF Cleanup, TenantTimes
  <2> QED BY <2>1, WindowTrim, WindowTypes, LimitsAreNaturals DEF WindowsOK, WindowOK
<1> QED BY <1>1, <1>2 DEF WindowsOK

(* A reservation and one window: the one it writes, or another.            *)
LEMMA WindowReserve ==
  ASSUME TypeOK, TimesOK, NEW at \in Nat, at >= lastTime, NEW new \in Originate,
         new.ticket = sequence + 1, new.when = at,
         NEW S, NEW w \in Seq(Nat), NEW limit \in Nat, WindowOK(S, w, limit),
         NEW v, v = IF new.request.extension \in S THEN Append(Trim(w, at), at) ELSE Trim(w, at),
         new.request.extension \in S => Len(Trim(w, at)) < limit
  PROVE  /\ Len(v) <= limit /\ v \in Seq(Nat)
         /\ Counted(Young(originates \cup {new}, S, at), v, sequence + 1)
<1>0. sequence \in Nat /\ Trim(w, at) \in Seq(Nat)
  BY WindowTypes, TrimType
<1>1. /\ Len(Trim(w, at)) <= limit /\ Counted(Young(originates, S, at), Trim(w, at), sequence)
      /\ Issued(Young(originates, S, at), sequence)
  BY WindowTrim DEF TimesOK, Issued, Young
<1>2. CASE new.request.extension \in S
  <2>1. /\ Counted(Young(originates, S, at) \cup {new}, Append(Trim(w, at), at), sequence + 1)
        /\ v = Append(Trim(w, at), at)
    BY <1>0, <1>1, <1>2, CountedAppend
  <2>2. Young(originates \cup {new}, S, at) \subseteq Young(originates, S, at) \cup {new}
    BY DEF Young
  <2>3. Len(v) = Len(Trim(w, at)) + 1 /\ Len(Trim(w, at)) \in Nat /\ v \in Seq(Nat)
    BY <1>0, <2>1
  <2>4. Counted(Young(originates \cup {new}, S, at), v, sequence + 1)
    <3>1. Counted(Young(originates, S, at) \cup {new}, v, sequence + 1)
      BY <2>1
    <3> QED BY ONLY <2>2, <3>1, CountedSubset
  <2> QED BY <1>2, <2>3, <2>4
<1>3. CASE new.request.extension \notin S
  <2>1. Young(originates \cup {new}, S, at) = Young(originates, S, at) /\ v = Trim(w, at)
    BY <1>3 DEF Young
  <2> QED BY <1>0, <1>1, <2>1, CountedLater
<1> QED BY <1>2, <1>3

(* ... and the rate up to any Originate.                                   *)
LEMMA RateReserve ==
  ASSUME TypeOK, TimesOK, NEW at \in Nat, at >= lastTime, NEW new \in Originate,
         new.ticket = sequence + 1, new.when = at, originates' = originates \cup {new},
         sequence' = sequence + 1,
         NEW S, NEW v \in Seq(Nat), NEW limit \in Nat, Len(v) <= limit,
         Counted(Young(originates', S, at), v, sequence + 1),
         NEW o \in originates', o \in originates => RateOK(S, o, limit)
  PROVE  RateOK(S, o, limit)'
<1>1. /\ sequence \in Nat /\ lastTime \in Nat
      /\ \A p \in originates : p.when \in Nat /\ p.when <= lastTime
      /\ Issued(originates, sequence)
  BY WindowTypes DEF TimesOK, TypeOK, Originate
<1>2. Admitted(S, o)' = {p \in originates' : /\ p.request.extension \in S
                                             /\ p.when <= o.when /\ o.when - p.when < Window}
  BY DEF Admitted
<1>3. CASE o.when = at
  <2>1. Admitted(S, o)' \subseteq Young(originates', S, at)
    BY <1>2, <1>3 DEF Young
  <2>2. Fits(Young(originates', S, at), limit, sequence + 1)
    BY <1>1, FitsCounted
  <2> QED BY <2>1, <2>2, FitsSame DEF RateOK
<1>4. CASE o.when # at
  <2>1. o \in originates /\ ~ (at <= o.when)
    BY <1>1, <1>4
  <2>2. Admitted(S, o)' = Admitted(S, o)
    BY <1>2, <2>1 DEF Admitted
  <2>3. Fits(Admitted(S, o), limit, sequence) /\ Issued(Admitted(S, o), sequence)
    BY <1>1, <2>1 DEF RateOK, Issued, Admitted
  <2> QED BY <1>1, <2>2, <2>3, FitsLater DEF RateOK
<1> QED BY <1>3, <1>4

LEMMA RatesReserve ==
  ASSUME TypeOK, TimesOK, WindowsOK, RatesOK, NEW t \in Threads, Reserve(t)
  PROVE  WindowsOK' /\ RatesOK'
<1>1. PICK q \in Request, at \in Nat, new \in Originate :
        /\ at >= lastTime /\ ~ OverLimit(q, at) /\ lastTime' = at /\ sequence' = sequence + 1
        /\ originates' = originates \cup {new}
        /\ new.ticket = sequence + 1 /\ new.request = q /\ new.when = at
        /\ tenantWindow' = [TenantTimes(at) EXCEPT ![TenantOf[q.extension]] = Append(@, at)]
        /\ extensionWindow' = [ExtensionTimes(at) EXCEPT ![q.extension] = Append(@, at)]
  BY ReserveWrites
<1>2. /\ new.request.extension \in Extensions
      /\ TenantOf[new.request.extension] \in Tenants
      /\ new.request.extension = q.extension
  BY <1>1, RequestFields
<1>3. ASSUME NEW x \in Extensions, NEW S, S = {x}
      PROVE  LET w == extensionWindow[x]
             IN  /\ w \in Seq(Nat) /\ WindowOK(S, w, PerExtension)
                 /\ extensionWindow'[x] = IF new.request.extension \in S
                                          THEN Append(Trim(w, at), at) ELSE Trim(w, at)
                 /\ new.request.extension \in S => Len(Trim(w, at)) < PerExtension
  <2>1. ExtensionTimes(at)[x] = Trim(extensionWindow[x], at)
    BY DEF ExtensionTimes
  <2>2. Len(Trim(extensionWindow[x], at)) \in Nat /\ extensionWindow[x] \in Seq(Nat)
    BY WindowTypes, TrimType
  <2>3. q.extension = x => ~ (Len(Trim(extensionWindow[x], at)) >= PerExtension)
    BY <1>1, <2>1 DEF OverLimit
  <2>4. extensionWindow'[x] = IF q.extension = x THEN Append(Trim(extensionWindow[x], at), at)
                              ELSE Trim(extensionWindow[x], at)
    BY <1>1, <1>2, <2>1 DEF ExtensionTimes
  <2>5. new.request.extension \in S <=> q.extension = x
    BY <1>2, <1>3
  <2>6. WindowOK(S, extensionWindow[x], PerExtension)
    BY <1>3 DEF WindowsOK
  <2> QED BY <2>2, <2>3, <2>4, <2>5, <2>6, LimitsAreNaturals
<1>4. ASSUME NEW c \in Tenants
      PROVE  LET w == tenantWindow[c]
             IN  /\ w \in Seq(Nat) /\ WindowOK(Peers(c), w, PerTenant)
                 /\ tenantWindow'[c] = IF new.request.extension \in Peers(c)
                                       THEN Append(Trim(w, at), at) ELSE Trim(w, at)
                 /\ new.request.extension \in Peers(c) => Len(Trim(w, at)) < PerTenant
  <2>1. TenantTimes(at)[c] = Trim(tenantWindow[c], at)
    BY DEF TenantTimes
  <2>2. Len(Trim(tenantWindow[c], at)) \in Nat /\ tenantWindow[c] \in Seq(Nat)
    BY WindowTypes, TrimType
  <2>3. TenantOf[q.extension] = c => ~ (Len(Trim(tenantWindow[c], at)) >= PerTenant)
    BY <1>1, <2>1 DEF OverLimit
  <2>4. tenantWindow'[c] = IF TenantOf[q.extension] = c
                           THEN Append(Trim(tenantWindow[c], at), at)
                           ELSE Trim(tenantWindow[c], at)
    BY <1>1, <1>2, <2>1 DEF TenantTimes
  <2>5. new.request.extension \in Peers(c) <=> TenantOf[q.extension] = c
    BY <1>2 DEF Peers
  <2> QED BY <2>2, <2>3, <2>4, <2>5, LimitsAreNaturals DEF WindowsOK
<1>5. ASSUME NEW x \in Extensions
      PROVE  /\ Len(extensionWindow'[x]) <= PerExtension /\ extensionWindow'[x] \in Seq(Nat)
             /\ Counted(Young(originates', {x}, at), extensionWindow'[x], sequence + 1)
  <2>1. ASSUME NEW S, S = {x}
        PROVE  /\ Len(extensionWindow'[x]) <= PerExtension /\ extensionWindow'[x] \in Seq(Nat)
               /\ Counted(Young(originates', S, at), extensionWindow'[x], sequence + 1)
    <3>1. PICK w \in Seq(Nat) :
            /\ WindowOK(S, w, PerExtension)
            /\ extensionWindow'[x] = IF new.request.extension \in S
                                     THEN Append(Trim(w, at), at) ELSE Trim(w, at)
            /\ new.request.extension \in S => Len(Trim(w, at)) < PerExtension
      BY <1>3, <2>1
    <3> QED BY <1>1, <3>1, WindowReserve, LimitsAreNaturals
  <2> QED BY <2>1
<1>6. ASSUME NEW c \in Tenants
      PROVE  /\ Len(tenantWindow'[c]) <= PerTenant /\ tenantWindow'[c] \in Seq(Nat)
             /\ Counted(Young(originates', Peers(c), at), tenantWindow'[c], sequence + 1)
  BY <1>1, <1>4, WindowReserve, LimitsAreNaturals
<1>7. WindowsOK'
  BY <1>1, <1>5, <1>6 DEF WindowsOK, WindowOK, Peers
<1>8. ASSUME NEW o \in originates'
      PROVE  /\ RateOK({o.request.extension}, o, PerExtension)'
             /\ RateOK(Peers(TenantOf[o.request.extension]), o, PerTenant)'
  <2>1. o.request.extension \in Extensions /\ TenantOf[o.request.extension] \in Tenants
    BY <1>1, <1>2, WindowTypes, RequestFields
  <2>2. RateOK({o.request.extension}, o, PerExtension)'
    BY <1>1, <1>5, <1>8, <2>1, RateReserve, LimitsAreNaturals DEF RatesOK
  <2>3. RateOK(Peers(TenantOf[o.request.extension]), o, PerTenant)'
    BY <1>1, <1>6, <1>8, <2>1, RateReserve, LimitsAreNaturals DEF RatesOK
  <2> QED BY <2>2, <2>3
<1> QED BY <1>7, <1>8 DEF RatesOK, Peers

LEMMA RatesFinish ==
  ASSUME TypeOK, WindowsOK, RatesOK, NEW t \in Threads, NEW outcome \in Outcomes,
         Finish(t, outcome)
  PROVE  WindowsOK' /\ RatesOK'
<1>1. \A o \in originates' : \E p \in originates :
        o.ticket = p.ticket /\ o.request = p.request /\ o.when = p.when
  BY FinishKeeps
<1>2. UNCHANGED <<lastTime, tenantWindow, extensionWindow, sequence>>
  BY DEF Finish, windows
<1>3. ASSUME NEW S, NEW w, NEW limit, WindowOK(S, w, limit)
      PROVE  Len(w) <= limit /\ Counted(Young(originates', S, lastTime), w, sequence)
  <2>1. \A o \in Young(originates', S, lastTime) :
          \E p \in Young(originates, S, lastTime) : p.ticket = o.ticket /\ p.when = o.when
    BY <1>1 DEF Young
  <2> QED BY <1>3, <2>1, CountedSame DEF WindowOK
<1>4. WindowsOK'
  BY <1>2, <1>3 DEF WindowsOK, WindowOK, Peers
<1>5. ASSUME NEW o \in originates', NEW p \in originates,
             o.ticket = p.ticket, o.request = p.request, o.when = p.when,
             NEW S, NEW limit, RateOK(S, p, limit)
      PROVE  RateOK(S, o, limit)'
  <2>1. \A a \in Admitted(S, o)' : \E b \in Admitted(S, p) : b.ticket = a.ticket
    BY <1>1, <1>5 DEF Admitted
  <2> QED BY <1>2, <1>5, <2>1, FitsSame DEF RateOK
<1>6. RatesOK'
  <2> SUFFICES ASSUME NEW o \in originates'
               PROVE  /\ RateOK({o.request.extension}, o, PerExtension)'
                      /\ RateOK(Peers(TenantOf[o.request.extension]), o, PerTenant)'
    BY DEF RatesOK, Peers
  <2>1. PICK p \in originates : o.ticket = p.ticket /\ o.request = p.request /\ o.when = p.when
    BY <1>1
  <2> QED BY <1>5, <2>1 DEF RatesOK
<1> QED BY <1>4, <1>6

LEMMA RatesStep ==
  ASSUME TypeOK, TimesOK, WindowsOK, RatesOK, [Next]_vars
  PROVE  WindowsOK' /\ RatesOK'
<1>1. ASSUME UNCHANGED <<lastTime, windows, sequence, originates>> PROVE WindowsOK' /\ RatesOK'
  BY <1>1 DEF windows, WindowsOK, WindowOK, RatesOK, RateOK, Admitted, Peers
<1>2. ASSUME NEW t \in Threads, RefuseRepeat(t) \/ RefuseLimit(t) PROVE WindowsOK' /\ RatesOK'
  <2>1. thread[t].time \in Nat /\ thread[t].time >= lastTime
    BY <1>2, ThreadFields DEF RefuseRepeat, RefuseLimit, Stale, TypeOK
  <2>2. /\ Cleanup(thread[t].time) /\ lastTime' = thread[t].time
        /\ UNCHANGED <<sequence, originates>>
    BY <1>2 DEF RefuseRepeat, RefuseLimit
  <2>3. WindowsOK'
    BY <2>1, <2>2, WindowsCleanup
  <2>4. RatesOK'
    BY <2>2 DEF RatesOK, RateOK, Admitted, Peers
  <2> QED BY <2>3, <2>4
<1>3. ASSUME NEW t \in Threads, Client(t) PROVE WindowsOK' /\ RatesOK'
  <2>1. ASSUME NEW q \in Request, Ask(t, q) PROVE WindowsOK' /\ RatesOK'
    BY <1>1, <2>1 DEF Ask, guard
  <2>2. CASE RefuseStale(t)
    BY <1>1, <2>2 DEF RefuseStale, guard
  <2> QED BY <1>2, <1>3, <2>1, <2>2, RatesReserve, RatesFinish DEF Client
<1> QED
  BY <1>1, <1>3 DEF Next, Tick, vars, guard, windows

LEMMA RatesInit == Init => WindowsOK /\ RatesOK
<1> SUFFICES ASSUME Init PROVE WindowsOK /\ RatesOK
  OBVIOUS
<1>1. Counted({}, <<>>, 0)
  <2>1. [i \in 1..0 |-> 0] \in [1..0 -> 0..Len(<<>>)]
    OBVIOUS
  <2>2. Numbering([i \in 1..0 |-> 0], {}, Len(<<>>))
    BY DEF Numbering
  <2> QED BY <2>1, <2>2 DEF Counted
<1>2. \A S : Young(originates, S, lastTime) = {} /\ Len(<<>>) = 0
  BY DEF Init, Young
<1>3. \A S : WindowOK(S, <<>>, PerExtension) /\ WindowOK(S, <<>>, PerTenant)
  <2>1. sequence = 0 /\ Len(<<>>) <= PerExtension /\ Len(<<>>) <= PerTenant
    BY LimitsAreNaturals DEF Init
  <2> QED BY <1>1, <1>2, <2>1 DEF WindowOK
<1> QED BY <1>3 DEF Init, WindowsOK, RatesOK

RateInv == LoadOK /\ WindowsOK /\ RatesOK

(* No 60 seconds hold more Originates of an extension or of a tenant than  *)
(* its limit, whenever their threads read the clock.                       *)
THEOREM RateBounded == Spec => []RateIsBounded
<1>1. Init => RateInv
  BY TicketsAndRowsInit, BoundsInit, RatesInit DEF Init, RateInv, LoadOK, SentOK
<1>2. RateInv /\ [Next]_vars => RateInv'
  BY TicketsAndRowsStep, SentStep, BoundsStep, TimesFollow, RatesStep
     DEF RateInv, LoadOK, TicketsAndRowsOK
<1>3. RateInv => RateIsBounded
  <2> SUFFICES ASSUME RateInv, NEW o \in originates
               PROVE  LET x == o.request.extension
                      IN  /\ Cardinality(Admitted({x}, o)) <= PerExtension
                          /\ Cardinality(Admitted(Peers(TenantOf[x]), o)) <= PerTenant
    BY DEF RateIsBounded, Peers
  <2>1. Issued(originates, sequence) /\ sequence \in Nat
    BY TimesFollow, WindowTypes DEF RateInv, LoadOK, TicketsAndRowsOK, TimesOK
  <2>2. ASSUME NEW S, NEW limit \in Nat, RateOK(S, o, limit)
        PROVE  Cardinality(Admitted(S, o)) <= limit
    <3>1. Issued(Admitted(S, o), sequence)
      BY <2>1 DEF Issued, Admitted
    <3>2. \A a, b \in Admitted(S, o) : a.ticket = b.ticket => a = b
      BY DEF RateInv, LoadOK, TicketsAndRowsOK, TicketsOK, Admitted
    <3> QED BY <2>1, <2>2, <3>1, <3>2, FitsWithin DEF RateOK, Within
  <2> QED BY <2>2, LimitsAreNaturals DEF RateInv, RatesOK
<1> QED BY <1>1, <1>2, <1>3, PTL DEF Spec

===============================================================================
