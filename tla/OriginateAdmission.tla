-------------------------- MODULE OriginateAdmission --------------------------
(***************************************************************************)
(* outbound_admission.py: the admission of click-to-call requests in one   *)
(* queue-api process, as the HTTP threads of server.py use it.             *)
(*                                                                         *)
(* A request reserves a ticket before its Originate is sent, and finishes  *)
(* it with what the AMI answered. The reservation holds three limits (per  *)
(* tenant and per extension in a window of 60 s, and in flight) and makes  *)
(* a request that carries an idempotency key originate once per TTL.       *)
(*                                                                         *)
(* The clock is read before the lock is taken, so a thread may enter with  *)
(* a time older than the one its predecessor left. The other method of the *)
(* class, snapshot, has no caller in the program.                          *)
(***************************************************************************)
EXTENDS Naturals, Sequences, FiniteSets

CONSTANTS
  Threads,        (* HTTP threads that serve click-to-call                 *)
  Tenants, Extensions,
  TenantOf,       (* [Extensions -> Tenants]                               *)
  Ids,            (* X-Idempotency-Key values                              *)
  Numbers,
  PerTenant, PerExtension, MaxInflight, Ttl,   (* the constructor's        *)
  Window,         (* the 60 seconds of the rate windows                    *)
  MaxTenants, MaxExtensions, MaxRequests,      (* 1000, 5000, 10000        *)
  MaxTime,        (* bound: the clock stops here                           *)
  MaxTickets,     (* bound: reservations in a behaviour                    *)
  None

ASSUME AdmissionAssumption ==
  /\ TenantOf \in [Extensions -> Tenants]
  /\ {PerTenant, PerExtension, MaxInflight, Ttl, Window} \subseteq Nat \ {0}
  /\ PerExtension <= PerTenant
  /\ {MaxTenants, MaxExtensions, MaxRequests, MaxTime, MaxTickets} \subseteq Nat
  /\ None \notin Ids /\ None \notin Tenants \X Ids

VARIABLES
  now,               (* time.monotonic                                     *)
  lastTime,          (* _last_time; 0 stands for its initial None          *)
  tenantWindow,      (* _tenant_window: admission times per tenant         *)
  extensionWindow,   (* _extension_window                                  *)
  requests,          (* _requests: idempotency rows by tenant and id       *)
  inflight,          (* _inflight: tickets with their time and key         *)
  sequence,          (* _sequence                                          *)
  thread,            (* what each thread is doing                          *)
  originates         (* history: the Originates sent, with their outcome   *)

vars == <<now, lastTime, tenantWindow, extensionWindow, requests, inflight,
          sequence, thread, originates>>

windows == <<tenantWindow, extensionWindow>>
guard   == <<lastTime, windows, requests, inflight, sequence>>

-----------------------------------------------------------------------------

Keys == Tenants \X Ids
NoRow == [state |-> "none"]

(* The fingerprint of a request: extension (hence tenant) and number.      *)
Fingerprint == Extensions \X Numbers

Row == [state : {"pending", "accepted", "uncertain"}, fingerprint : Fingerprint, when : Nat]

Request == [extension : Extensions, number : Numbers, id : Ids \cup {None}]

(* The key of a request; None when the header is absent.                   *)
KeyOf(q) == IF q.id = None THEN None ELSE <<TenantOf[q.extension], q.id>>
FingerprintOf(q) == <<q.extension, q.number>>

Idle == [pc |-> "idle"]

Answers == {"duplicate", "pending", "conflict", "limited", "unavailable", "finished"}

Outcomes == {"accepted", "rejected", "uncertain"}

ThreadState ==
  {Idle} \cup
  [pc : {"timed"}, request : Request, time : Nat] \cup
  [pc : {"reserved"}, request : Request, ticket : Nat] \cup
  [pc : {"answered"}, answer : Answers]

Originate == [ticket : Nat, request : Request, when : Nat,
              outcome : Outcomes \cup {"sent"}]

TypeOK ==
  /\ now \in Nat /\ lastTime \in Nat /\ sequence \in Nat
  /\ tenantWindow \in [Tenants -> Seq(Nat)]
  /\ extensionWindow \in [Extensions -> Seq(Nat)]
  /\ requests \in [Keys -> Row \cup {NoRow}]
  /\ inflight \subseteq [ticket : Nat, when : Nat, key : Keys \cup {None}]
  /\ thread \in [Threads -> ThreadState]
  /\ originates \subseteq Originate

Init ==
  /\ now = 0 /\ lastTime = 0 /\ sequence = 0
  /\ tenantWindow = [c \in Tenants |-> <<>>]
  /\ extensionWindow = [x \in Extensions |-> <<>>]
  /\ requests = [k \in Keys |-> NoRow]
  /\ inflight = {}
  /\ thread = [t \in Threads |-> Idle]
  /\ originates = {}

-----------------------------------------------------------------------------
(* _cleanup(at).                                                           *)

(* Mutant: the window is one unit of time short.                           *)
OutOfShorterWindow(s, at) == s > at \/ at - s + 1 >= Window

(* A time is out of the window, or from the future of a stale clock.       *)
OutOfWindow(s, at) == s > at \/ at - s >= Window

Expired(when, at) == at < when \/ at - when >= Ttl

(* The popleft loop stops at the first time it keeps.                      *)
Trim(q, at) ==
  LET gone == {i \in 1..Len(q) : \A j \in 1..i : OutOfWindow(q[j], at)}
  IN  SubSeq(q, Cardinality(gone) + 1, Len(q))

TenantTimes(at)    == [c \in Tenants |-> Trim(tenantWindow[c], at)]
ExtensionTimes(at) == [x \in Extensions |-> Trim(extensionWindow[x], at)]

OpenRows(at) ==
  [k \in Keys |-> IF requests[k] # NoRow /\ Expired(requests[k].when, at)
                  THEN NoRow ELSE requests[k]]

OpenTickets(at) == {i \in inflight : ~ Expired(i.when, at)}

Cleanup(at) ==
  /\ tenantWindow' = TenantTimes(at)
  /\ extensionWindow' = ExtensionTimes(at)
  /\ requests' = OpenRows(at)
  /\ inflight' = OpenTickets(at)

-----------------------------------------------------------------------------
(* reserve.                                                                *)

Answer(t, a) == thread' = [thread EXCEPT ![t] = [pc |-> "answered", answer |-> a]]

(* The request is valid; the clock is read, outside the lock.              *)
Ask(t, q) ==
  /\ thread[t].pc \in {"idle", "answered"}
  /\ thread' = [thread EXCEPT ![t] = [pc |-> "timed", request |-> q, time |-> now]]
  /\ UNCHANGED <<now, guard, originates>>

(* Mutant: the time is not compared with the one last used.                *)
NeverStale(at) == FALSE

(* The clock seems to have gone back.                                      *)
Stale(at) == at < lastTime

RefuseStale(t) ==
  /\ thread[t].pc = "timed"
  /\ Stale(thread[t].time)
  /\ Answer(t, "unavailable")
  /\ UNCHANGED <<now, guard, originates>>

(* What an existing row answers.                                           *)
RowAnswer(row, q) ==
  IF row.fingerprint # FingerprintOf(q) THEN "conflict"
  ELSE IF row.state = "accepted" THEN "duplicate"
  ELSE "pending"

HasRow(q, at) == KeyOf(q) # None /\ OpenRows(at)[KeyOf(q)] # NoRow

RefuseRepeat(t) ==
  /\ thread[t].pc = "timed"
  /\ LET q == thread[t].request  at == thread[t].time IN
       /\ ~ Stale(at)
       /\ HasRow(q, at)
       /\ Answer(t, RowAnswer(OpenRows(at)[KeyOf(q)], q))
       /\ Cleanup(at)
       /\ lastTime' = at
  /\ UNCHANGED <<now, sequence, originates>>

(* The windows in use, for the bounds on memory.                           *)
Used(w) == {d \in DOMAIN w : w[d] # <<>>}

(* Mutant: the limit in flight is tested after it has been exceeded.       *)
OverLimitLate(q, at) ==
  LET x == q.extension  c == TenantOf[q.extension] IN
  \/ Cardinality(OpenTickets(at)) > MaxInflight
  \/ Len(TenantTimes(at)[c]) >= PerTenant
  \/ Len(ExtensionTimes(at)[x]) >= PerExtension

OverLimit(q, at) ==
  LET x == q.extension  c == TenantOf[q.extension] IN
  \/ Cardinality(OpenTickets(at)) >= MaxInflight
  \/ Len(TenantTimes(at)[c]) >= PerTenant
  \/ Len(ExtensionTimes(at)[x]) >= PerExtension
  \/ Cardinality(Used(TenantTimes(at))) >= MaxTenants /\ TenantTimes(at)[c] = <<>>
  \/ Cardinality(Used(ExtensionTimes(at))) >= MaxExtensions /\ ExtensionTimes(at)[x] = <<>>
  \/ /\ KeyOf(q) # None
     /\ Cardinality({k \in Keys : OpenRows(at)[k] # NoRow}) >= MaxRequests

RefuseLimit(t) ==
  /\ thread[t].pc = "timed"
  /\ LET q == thread[t].request  at == thread[t].time IN
       /\ ~ Stale(at)
       /\ ~ HasRow(q, at)
       /\ OverLimit(q, at)
       /\ Answer(t, "limited")
       /\ Cleanup(at)
       /\ lastTime' = at
  /\ UNCHANGED <<now, sequence, originates>>

(* The request is admitted and its Originate goes to the AMI.              *)
Reserve(t) ==
  /\ thread[t].pc = "timed"
  /\ sequence < MaxTickets
  /\ LET q == thread[t].request  at == thread[t].time  ticket == sequence + 1 IN
       /\ ~ Stale(at)
       /\ ~ HasRow(q, at)
       /\ ~ OverLimit(q, at)
       /\ lastTime' = at
       /\ sequence' = ticket
       /\ tenantWindow' = [TenantTimes(at) EXCEPT ![TenantOf[q.extension]] = Append(@, at)]
       /\ extensionWindow' = [ExtensionTimes(at) EXCEPT ![q.extension] = Append(@, at)]
       /\ inflight' = OpenTickets(at) \cup
                        {[ticket |-> ticket, when |-> at, key |-> KeyOf(q)]}
       /\ requests' = [k \in Keys |->
                         IF k = KeyOf(q)
                         THEN [state |-> "pending", fingerprint |-> FingerprintOf(q), when |-> at]
                         ELSE OpenRows(at)[k]]
       /\ thread' = [thread EXCEPT ![t] =
                         [pc |-> "reserved", request |-> q, ticket |-> ticket]]
       /\ originates' = originates \cup
            {[ticket |-> ticket, request |-> q, when |-> at, outcome |-> "sent"]}
  /\ UNCHANGED now

-----------------------------------------------------------------------------
(* The AMI answers, or the wait ends without an answer; then finish.       *)

(* Mutant: the caller's key is used, whatever became of its ticket.        *)
FinishKey(ticket, outcome) ==
  /\ inflight' = {i \in inflight : i.ticket # ticket}
  /\ requests' =
       [k \in Keys |->
          IF requests[k] # NoRow /\ \E o \in originates : o.ticket = ticket /\ KeyOf(o.request) = k
          THEN IF outcome = "rejected" THEN NoRow ELSE [requests[k] EXCEPT !.state = outcome]
          ELSE requests[k]]

(* finish(ticket, outcome). An expired ticket is unknown and does nothing. *)
FinishTicket(ticket, outcome) ==
  /\ inflight' = {i \in inflight : i.ticket # ticket}
  /\ requests' =
       [k \in Keys |->
          IF requests[k] # NoRow /\ \E i \in inflight : i.ticket = ticket /\ i.key = k
          THEN IF outcome = "rejected" THEN NoRow ELSE [requests[k] EXCEPT !.state = outcome]
          ELSE requests[k]]

Finish(t, outcome) ==
  /\ thread[t].pc = "reserved"
  /\ FinishTicket(thread[t].ticket, outcome)
  /\ originates' = {IF o.ticket = thread[t].ticket THEN [o EXCEPT !.outcome = outcome] ELSE o
                      : o \in originates}
  /\ Answer(t, "finished")
  /\ UNCHANGED <<now, lastTime, windows, sequence>>

-----------------------------------------------------------------------------
(* Time.                                                                   *)

Tick ==
  /\ now < MaxTime
  /\ now' = now + 1
  /\ UNCHANGED <<guard, thread, originates>>

Client(t) ==
  \/ \E q \in Request : Ask(t, q)
  \/ RefuseStale(t) \/ RefuseRepeat(t) \/ RefuseLimit(t) \/ Reserve(t)
  \/ \E o \in Outcomes : Finish(t, o)

Next ==
  \/ \E t \in Threads : Client(t)
  \/ Tick

Spec == Init /\ [][Next]_vars

-----------------------------------------------------------------------------
(* A request that carries an idempotency key is originated once in a TTL;  *)
(* again only if the AMI had refused it by then. Two threads that repeat   *)
(* the request at the same moment included. About reserve and finish.      *)
OncePerKey ==
  \A o, p \in originates :
    /\ o.ticket < p.ticket
    /\ KeyOf(o.request) # None /\ KeyOf(o.request) = KeyOf(p.request)
    /\ p.when - o.when < Ttl
    => o.outcome = "rejected"

Admitted(S, o) == {p \in originates : p.request.extension \in S
                                      /\ p.when <= o.when /\ o.when - p.when < Window}

(* In no 60 seconds more Originates than the limit leave for one extension *)
(* or one tenant, although threads enter with clock readings of different  *)
(* ages. About _cleanup and the windows.                                   *)
RateIsBounded ==
  \A o \in originates :
    LET x == o.request.extension
        peers == {y \in Extensions : TenantOf[y] = TenantOf[x]}
    IN  /\ Cardinality(Admitted({x}, o)) <= PerExtension
        /\ Cardinality(Admitted(peers, o)) <= PerTenant

(* The Originates that are neither answered nor older than the TTL never   *)
(* exceed max_inflight, and no key is kept beyond the bounds on memory.    *)
LoadIsBounded ==
  /\ Cardinality({o \in originates : /\ o.outcome = "sent"
                                     /\ ~ Expired(o.when, lastTime)}) <= MaxInflight
  /\ Cardinality(inflight) <= MaxInflight
  /\ Cardinality({k \in Keys : requests[k] # NoRow}) <= MaxRequests
  /\ Cardinality(Used(tenantWindow)) <= MaxTenants
  /\ Cardinality(Used(extensionWindow)) <= MaxExtensions

(* A row tells what became of the last Originate of its key: "duplicate"   *)
(* is only answered when the AMI accepted that very request, whatever late *)
(* answers to older Originates of the key did. About finish on expired     *)
(* tickets.                                                                *)
RowsAreTrue ==
  \A k \in Keys : requests[k] # NoRow =>
    \E o \in originates :
      /\ KeyOf(o.request) = k /\ FingerprintOf(o.request) = requests[k].fingerprint
      /\ \A p \in originates : KeyOf(p.request) = k => p.ticket <= o.ticket
      /\ requests[k].state = IF o.outcome = "sent" THEN "pending" ELSE o.outcome

(* What test_parallel_identical_idempotency_only_reserves_once asserts: a  *)
(* request identical to one in progress is told that it is pending.        *)
RepeatsArePending ==
  [][\A t \in Threads :
       /\ thread[t].pc = "timed" /\ thread'[t].pc = "answered"
       /\ \E o \in originates : /\ o.request = thread[t].request /\ o.request.id # None
                               /\ o.outcome = "sent" /\ ~ Expired(o.when, now)
       => thread'[t].answer = "pending"]_vars
===============================================================================
