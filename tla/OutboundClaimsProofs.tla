------------------------- MODULE OutboundClaimsProofs -------------------------
(***************************************************************************)
(* What OutboundClaims guarantees for any number of callbacks, contacts,   *)
(* threads, attempt tokens and events, and any MAX_ATTEMPTS: its types,    *)
(* the inductive invariant IInv, the safety properties that follow from    *)
(* it, and the refinement of CustomerOutreach.                             *)
(*                                                                         *)
(* One lemma per action, with one step per conjunct of IInv.               *)
(***************************************************************************)
EXTENDS OutboundClaims, SequenceTheorems, TLAPS

-----------------------------------------------------------------------------
(* Type correctness.                                                       *)

LEMMA EntryUpdates ==
  ASSUME NEW r \in Records, catalog \in [Records -> Entry]
  PROVE  /\ \A s \in Statuses : [catalog EXCEPT ![r].status = s] \in [Records -> Entry]
         /\ \A s \in Responses \cup {None} :
              [catalog EXCEPT ![r].response = s] \in [Records -> Entry]
         /\ [catalog EXCEPT ![r].old = TRUE] \in [Records -> Entry]
  BY DEF Entry

LEMMA EventFields ==
  ASSUME NEW e \in Event
  PROVE  /\ e.type = "OriginateResponse" => e.attempt \in Attempts /\ e.response \in Responses
         /\ e.type = "DialEnd" => e.attempt \in Attempts /\ e.end \in LegEnds
         /\ e.type = "CallbackRequest" => e.tenant \in Tenants /\ e.source \in Sources \cup {None}
  BY DEF Event

LEMMA HttpFields ==
  ASSUME NEW h \in HttpState
  PROVE  /\ h.pc \in {"idle", "checked", "claimed", "sent"}
         /\ h.pc = "idle" => h = IdleHttp
         /\ h.pc # "idle" => h.group \in Groups
         /\ h.pc \in {"claimed", "sent"} => h.attempt \in Attempts
  BY DEF HttpState, IdleHttp

LEMMA CliFields ==
  ASSUME cli \in CliState
  PROVE  /\ cli.pc \in {"idle", "requested", "written"}
         /\ cli.pc # "idle" => cli.record \in Records
  BY DEF CliState, IdleCli

LEMMA TypeOKInit == Init => TypeOK
  BY ConstantsAssumption
     DEF Init, TypeOK, Absent, Entry, Statuses, IdleHttp, HttpState, IdleCli, CliState,
         CallStates

LEMMA TypeOKDial ==
  ASSUME TypeOK, NEW t \in Threads, Dialler(t)
  PROVE  TypeOK'
<1> USE DEF TypeOK
<1>1. ASSUME NEW g \in Groups, DialCheck(t, g) PROVE TypeOK'
  BY <1>1 DEF DialCheck, HttpState, channel, asterisk
<1>2. CASE DialClaim(t)
  <2>1. PICK r \in Records, a \in Attempts :
          /\ MarkCalling(r, a)
          /\ owner' = [owner EXCEPT ![a] = r]
          /\ http' = [http EXCEPT ![t] = [pc |-> "claimed", group |-> @.group, attempt |-> a]]
          /\ flock' = [flock EXCEPT ![Path(r)] = t]
    BY <1>2 DEF DialClaim
  <2>2. catalog' \in [Records -> Entry]
    BY <2>1 DEF MarkCalling, Entry, Statuses
  <2>3. http' \in [Threads -> HttpState]
    <3>1. http[t].group \in Groups
      BY <1>2, HttpFields DEF DialClaim
    <3> QED BY <2>1, <3>1 DEF HttpState
  <2>4. flock' \in [Paths -> Threads \cup {"free", "cli"}]
    BY <2>1 DEF Paths, Path
  <2> QED
    BY <1>2, <2>1, <2>2, <2>3, <2>4 DEF DialClaim, channel, asterisk
<1>3. CASE DialGiveUp(t)
  BY <1>3 DEF DialGiveUp, IdleHttp, HttpState, channel, asterisk
<1>4. CASE DialSend(t)
  <2>1. http[t].group \in Groups /\ http[t].attempt \in Attempts
    BY <1>4, HttpFields DEF DialSend
  <2>2. http' \in [Threads -> HttpState]
    BY <1>4, <2>1 DEF DialSend, HttpState
  <2> QED BY <1>4, <2>2 DEF DialSend, CallStates, channel
<1>5. CASE DialReply(t)
  BY <1>5 DEF DialReply, Release, IdleHttp, HttpState, channel, asterisk
<1> QED
  BY <1>1, <1>2, <1>3, <1>4, <1>5 DEF Dialler

LEMMA TypeOKHandleEvent ==
  ASSUME TypeOK, HandleEvent
  PROVE  TypeOK'
<1> DEFINE e == Head(wire)
<1> USE DEF TypeOK
<1>1. e \in Event /\ wire' \in Seq(Event)
  <2>1. wire \in Seq(Event) /\ wire # <<>> /\ wire' = Tail(wire)
    BY DEF HandleEvent
  <2> QED BY <2>1
<1>2. /\ UNCHANGED <<audit, flock, http, cli, amiUp, call, rings, owner, emitted, restarts>>
      /\ \/ e.type = "OriginateResponse" /\ ApplyOriginateResponse(e)
         \/ e.type = "DialEnd" /\ ApplyDialResult(e)
         \/ e.type = "CallbackRequest" /\ AddCallbackRequest(e)
  BY DEF HandleEvent, process, asterisk
<1> HIDE DEF e
<1>3. catalog' \in [Records -> Entry] /\ heard' \in [Attempts -> Responses \cup {None}]
  <2>1. CASE e.type = "OriginateResponse" /\ ApplyOriginateResponse(e)
    <3>1. e.response \in Responses /\ e.attempt \in Attempts
      BY <2>1, <1>1, EventFields
    <3>2. heard' \in [Attempts -> Responses \cup {None}]
      BY <2>1, <3>1 DEF ApplyOriginateResponse
    <3>3. catalog' \in [Records -> Entry]
      <4>1. CASE catalog' = catalog
        BY <4>1
      <4>2. ASSUME NEW r \in Records,
                   catalog' = [catalog EXCEPT ![r].response =
                                 IF @ = None THEN e.response ELSE @]
            PROVE  catalog' \in [Records -> Entry]
        <5> DEFINE s == IF catalog[r].response = None THEN e.response
                                                      ELSE catalog[r].response
        <5>1. s \in Responses \cup {None}
          BY <3>1 DEF Entry
        <5>2. catalog' = [catalog EXCEPT ![r].response = s]
          BY <4>2
        <5> QED BY <5>1, <5>2, EntryUpdates
      <4> QED BY <2>1, <4>1, <4>2 DEF ApplyOriginateResponse
    <3> QED BY <3>2, <3>3
  <2>2. CASE e.type = "DialEnd" /\ ApplyDialResult(e)
    <3>1. CASE catalog' = catalog
      BY <2>2, <3>1 DEF ApplyDialResult
    <3>2. ASSUME NEW r \in Records, MarkResult(r, e.end)
          PROVE  catalog' \in [Records -> Entry]
      <4>1. ResultStatus(r, e.end) \in Statuses
        BY DEF ResultStatus, Statuses
      <4> QED BY <3>2, <4>1, EntryUpdates DEF MarkResult
    <3> QED BY <2>2, <3>1, <3>2 DEF ApplyDialResult
  <2>3. CASE e.type = "CallbackRequest" /\ AddCallbackRequest(e)
    <3>1. e.tenant \in Groups /\ e.source \in Sources \cup {None}
      BY <2>3, <1>1, EventFields DEF Groups
    <3>2. heard' = heard
      BY <2>3 DEF AddCallbackRequest
    <3>3. catalog' \in [Records -> Entry]
      <4>1. CASE catalog' = catalog
        BY <4>1
      <4>2. ASSUME NEW r \in Callbacks,
                   catalog' = [catalog EXCEPT ![r] = NewEntry(e.tenant, e.source)]
            PROVE  catalog' \in [Records -> Entry]
        BY <4>2, <3>1 DEF NewEntry, Entry, Statuses
      <4> QED BY <2>3, <4>1, <4>2 DEF AddCallbackRequest
    <3> QED BY <3>2, <3>3
  <2> QED BY <1>2, <2>1, <2>2, <2>3
<1> QED
  BY <1>1, <1>2, <1>3

LEMMA TypeOKStep == TypeOK /\ [Next]_vars => TypeOK'
<1> SUFFICES ASSUME TypeOK, [Next]_vars PROVE TypeOK'
  OBVIOUS
<1> USE DEF TypeOK
<1>1. ASSUME NEW t \in Threads, Dialler(t) PROVE TypeOK'
  BY <1>1, TypeOKDial
<1>2. ASSUME NEW r \in Callbacks, CancelCallback(r) PROVE TypeOK'
  BY <1>2, EntryUpdates
     DEF CancelCallback, Records, Statuses, process, channel, asterisk
<1>3. ASSUME NEW c \in Campaigns, CreateCampaign(c) PROVE TypeOK'
  <2>1. catalog' \in [Records -> Entry]
    BY <1>3 DEF CreateCampaign, NewEntry, Entry, Statuses, Groups
  <2> QED BY <1>3, <2>1 DEF CreateCampaign, process, channel, asterisk
<1>4. CASE HandleEvent
  BY <1>4, TypeOKHandleEvent
<1>5. CASE LoseEvent
  BY <1>5 DEF LoseEvent, process, asterisk
<1>6. ASSUME NEW a \in Attempts, AsteriskTakes(a) PROVE TypeOK'
  BY <1>6 DEF AsteriskTakes, CallStates, process, channel
<1>7. ASSUME NEW a \in Attempts, CallEnds(a) PROVE TypeOK'
  BY <1>7 DEF CallEnds, CallStates, process, channel
<1>8. ASSUME NEW e \in Event, Report(e) PROVE TypeOK'
  <2>1. wire' \in Seq(Event)
    <3>1. wire' = wire \/ wire' = Append(wire, e)
      BY <1>8 DEF Report
    <3>2. wire \in Seq(Event) /\ e \in Event
      OBVIOUS
    <3>3. Append(wire, e) \in Seq(Event)
      BY <3>2, AppendProperties, Zenon
    <3> QED BY <3>1, <3>2, <3>3, Zenon
  <2>2. emitted' \in Nat
    BY <1>8 DEF Report
  <2>3. amiUp' \in BOOLEAN
    BY <1>8, Zenon DEF Report
  <2> QED BY <1>8, <2>1, <2>2, <2>3 DEF Report, process, asterisk
<1>9. CASE ConnectionLost
  BY <1>9 DEF ConnectionLost, process, asterisk
<1>10. CASE Restart
  BY <1>10 DEF Restart, IdleHttp, HttpState, asterisk
<1>11. ASSUME NEW r \in Records, TimePasses(r) PROVE TypeOK'
  BY <1>11, EntryUpdates DEF TimePasses, process, channel, asterisk
<1>12. ASSUME NEW r \in Records, QuarantineRequest(r) PROVE TypeOK'
  <2>1. Note("requested", r) \in [phase : {"requested", "committed"}, record : Records,
                                  attempt : Attempts \cup {None}]
    BY DEF Note, Entry
  <2> QED
    BY <1>12, <2>1 DEF QuarantineRequest, CliState, Path, Paths, channel, asterisk
<1>13. CASE QuarantineWrite
  <2>1. cli.pc = "requested" /\ cli.record \in Records
    BY <1>13, CliFields DEF QuarantineWrite
  <2>2. cli' \in CliState
    BY <1>13, <2>1 DEF QuarantineWrite, CliState, IdleCli
  <2> QED
    BY <1>13, <2>1, <2>2, EntryUpdates
       DEF QuarantineWrite, Statuses, channel, asterisk
<1>14. CASE QuarantineCommit
  <2>1. cli.record \in Records
    BY <1>14, CliFields DEF QuarantineCommit
  <2>2. Note("committed", cli.record)
          \in [phase : {"requested", "committed"}, record : Records,
              attempt : Attempts \cup {None}]
    BY <2>1 DEF Note, Entry
  <2> QED
    BY <1>14, <2>1, <2>2
       DEF QuarantineCommit, IdleCli, CliState, Path, Paths, channel, asterisk
<1>15. CASE QuarantineDies
  BY <1>15 DEF QuarantineDies, IdleCli, CliState, Path, Paths, channel, asterisk
<1>16. CASE UNCHANGED vars
  BY <1>16 DEF vars
<1> QED
  BY <1>1, <1>2, <1>3, <1>4, <1>5, <1>6, <1>7, <1>8, <1>9, <1>10, <1>11, <1>12,
     <1>13, <1>14, <1>15, <1>16 DEF Next, Quarantine

(* Every variable keeps its type in every behaviour: statuses, counters    *)
(* and correlation fields of the catalogs, lock holders, threads, queue.   *)
THEOREM TypeCorrect == Spec => []TypeOK
<1> QED BY TypeOKInit, TypeOKStep, PTL DEF Spec

-----------------------------------------------------------------------------
(* Facts used in several places.                                           *)

LEMMA NoneIsNobody ==
  /\ None \notin Attempts /\ None \notin Records /\ None \notin Groups
  /\ "free" \notin Threads /\ "cli" \notin Threads
  BY ConstantsAssumption

LEMMA PathsOfRecords ==
  ASSUME NEW r \in Records
  PROVE  Path(r) \in Paths
  BY DEF Path, Paths

LEMMA MaxAttemptsType ==
  ASSUME NEW r \in Records
  PROVE  MaxAttempts[r] \in Nat /\ MaxAttempts[r] > 0
  BY ConstantsAssumption DEF MaxAttempts

(* What an entry of the catalog consists of.                               *)
LEMMA EntryFields ==
  ASSUME TypeOK, NEW r \in Records
  PROVE  /\ catalog[r] \in Entry
         /\ catalog[r].status \in Statuses
         /\ catalog[r].attempts \in Nat
         /\ catalog[r].attempt \in Attempts \cup {None}
         /\ rings[r] \in Nat
  BY DEF TypeOK, Entry

(* While no thread of queue-api holds a lock, no thread is in its critical *)
(* section.                                                                *)
LEMMA NobodyInside ==
  ASSUME IInv, LocalFree, NEW t \in Threads
  PROVE  http[t].pc \notin {"claimed", "sent"}
<1> SUFFICES ASSUME http[t].pc \in {"claimed", "sent"} PROVE FALSE
  OBVIOUS
<1>1. http[t].attempt \in Attempts
  BY HttpFields DEF IInv, TypeOK
<1>2. owner[http[t].attempt] \in Records /\ flock[Path(owner[http[t].attempt])] = t
  BY <1>1 DEF IInv, ThreadOK, TypeOK
<1> QED
  BY <1>2, PathsOfRecords DEF LocalFree

-----------------------------------------------------------------------------
(* The conjuncts that hold because the variables they mention are left     *)
(* alone.                                                                  *)

LEMMA RecordsFrame ==
  ASSUME IInv, UNCHANGED <<catalog, call, rings, owner>>
  PROVE  /\ (\A r \in Records : RecordOK(r))'
         /\ AttemptsAreFenced'
         /\ TokensAreFresh'
  BY DEF IInv, RecordOK, AttemptsAreFenced, TokensAreFresh

LEMMA ThreadsFrame ==
  ASSUME IInv, UNCHANGED <<catalog, call, owner, flock, http>>
  PROVE  (\A t \in Threads : ThreadOK(t))'
  BY DEF IInv, ThreadOK

LEMMA WireFrame ==
  ASSUME IInv, UNCHANGED call, wire' = wire \/ (wire # <<>> /\ wire' = Tail(wire))
  PROVE  WireOK'
<1>1. CASE wire' = wire
  BY <1>1 DEF IInv, WireOK, EventOK
<1>2. CASE wire # <<>> /\ wire' = Tail(wire)
  <2>1. wire \in Seq(Event)
    BY DEF IInv, TypeOK
  <2>2. /\ Len(wire') = Len(wire) - 1
        /\ \A i \in 1..Len(wire') : wire'[i] = wire[i + 1]
    BY <1>2, <2>1, HeadTailProperties
  <2>3. Len(wire) \in Nat
    BY <2>1, LenProperties
  <2>4. ASSUME NEW i \in 1..Len(wire') PROVE EventOK(wire[i])'
    <3>1. i + 1 \in 1..Len(wire) /\ wire'[i] = wire[i + 1]
      BY <2>2, <2>3
    <3> QED BY <3>1 DEF IInv, WireOK, EventOK
  <2> QED BY <2>4 DEF WireOK
<1> QED BY <1>1, <1>2

LEMMA CliFrame ==
  ASSUME IInv, UNCHANGED <<catalog, audit, flock, cli>>
  PROVE  CliOK'
  BY DEF IInv, CliOK, Note

LEMMA ReviewFrame ==
  ASSUME IInv, UNCHANGED <<catalog, audit>>
  PROVE  ReviewIsAudited'
  BY DEF IInv, ReviewIsAudited, Note

(* The invariant after a step, but for its type part, which TypeOKStep     *)
(* gives.                                                                  *)
Rest ==
  /\ \A r \in Records : RecordOK(r)
  /\ AttemptsAreFenced
  /\ TokensAreFresh
  /\ WireOK
  /\ \A t \in Threads : ThreadOK(t)
  /\ CliOK
  /\ ReviewIsAudited

-----------------------------------------------------------------------------
(* The dialling threads.                                                   *)

LEMMA SafeDialCheck ==
  ASSUME IInv, NEW t \in Threads, NEW g \in Groups, DialCheck(t, g)
  PROVE  Rest'
<1>1. UNCHANGED <<catalog, audit, flock, cli, wire, call, rings, owner>>
  BY DEF DialCheck, channel, asterisk
<1>2. (\A u \in Threads : ThreadOK(u))'
  BY <1>1 DEF DialCheck, IInv, TypeOK, ThreadOK
<1> QED
  BY <1>1, <1>2, RecordsFrame, WireFrame, CliFrame, ReviewFrame DEF Rest

LEMMA SafeDialGiveUp ==
  ASSUME IInv, NEW t \in Threads, DialGiveUp(t)
  PROVE  Rest'
<1>1. UNCHANGED <<catalog, audit, flock, cli, wire, call, rings, owner>>
  BY DEF DialGiveUp, channel, asterisk
<1>2. (\A u \in Threads : ThreadOK(u))'
  BY <1>1 DEF DialGiveUp, IdleHttp, IInv, TypeOK, ThreadOK
<1> QED
  BY <1>1, <1>2, RecordsFrame, WireFrame, CliFrame, ReviewFrame DEF Rest

LEMMA SafeDialReply ==
  ASSUME IInv, NEW t \in Threads, DialReply(t)
  PROVE  Rest'
<1>1. UNCHANGED <<catalog, audit, cli, wire, call, rings, owner>>
  BY DEF DialReply, channel, asterisk
<1>2. /\ http' = [http EXCEPT ![t] = IdleHttp]
      /\ flock' = [p \in Paths |-> IF flock[p] = t THEN "free" ELSE flock[p]]
  BY DEF DialReply, Release
<1>3. ASSUME NEW u \in Threads PROVE ThreadOK(u)'
  <2>1. CASE u = t
    BY <1>2, <2>1 DEF ThreadOK, IdleHttp, IInv, TypeOK
  <2>2. CASE u # t
    <3>1. http'[u] = http[u]
      BY <1>2, <2>2 DEF IInv, TypeOK
    <3>2. ASSUME http[u].pc \in {"claimed", "sent"}
          PROVE  Path(owner[http[u].attempt]) \in Paths
      <4>1. http[u].attempt \in Attempts
        BY <3>2, HttpFields DEF IInv, TypeOK
      <4>2. owner[http[u].attempt] \in Records
        BY <3>2, <4>1 DEF IInv, ThreadOK, TypeOK
      <4> QED BY <4>2, PathsOfRecords
    <3> QED
      BY <1>1, <1>2, <2>2, <3>1, <3>2 DEF IInv, ThreadOK
  <2> QED BY <2>1, <2>2
<1>4. CliOK'
  <2>1. cli.pc # "idle" => cli.record \in Records
    BY CliFields DEF IInv, TypeOK
  <2>2. cli.pc # "idle" => Path(cli.record) \in Paths
    BY <2>1, PathsOfRecords
  <2> QED
    BY <1>1, <1>2, <2>2, NoneIsNobody DEF IInv, CliOK, Note
<1> QED
  BY <1>1, <1>3, <1>4, RecordsFrame, WireFrame, ReviewFrame DEF Rest

LEMMA SafeDialSend ==
  ASSUME IInv, NEW t \in Threads, DialSend(t)
  PROVE  Rest'
<1> DEFINE a == http[t].attempt
           r == owner[a]
<1>1. /\ a \in Attempts /\ r \in Records
      /\ flock[Path(r)] = t
      /\ catalog[r].status = "discando" /\ catalog[r].attempt = a
      /\ call[a] = "none"
  <2>1. a \in Attempts
    BY HttpFields DEF DialSend, IInv, TypeOK
  <2> QED BY <2>1 DEF DialSend, IInv, ThreadOK, TypeOK
<1>2. /\ UNCHANGED <<catalog, audit, flock, cli, wire, rings, owner>>
      /\ call' = [call EXCEPT ![a] = "sent"]
      /\ http' = [http EXCEPT ![t] = [pc |-> "sent", group |-> @.group, attempt |-> a]]
  BY DEF DialSend, channel
<1> HIDE DEF a, r
<1>3. call' \in [Attempts -> CallStates] /\ call \in [Attempts -> CallStates]
      /\ call'[a] = "sent" /\ \A b \in Attempts : b # a => call'[b] = call[b]
  BY <1>1, <1>2 DEF IInv, TypeOK, CallStates
<1>4. ASSUME NEW q \in Records PROVE RecordOK(q)'
  <2>1. RecordOK(q) /\ catalog[q].attempt \in Attempts \cup {None}
    BY EntryFields DEF IInv
  <2>2. CASE catalog[q].attempt = a
    <3>1. q = r
      BY <2>1, <2>2, <1>1, NoneIsNobody DEF RecordOK, r
    <3> QED
      BY <3>1, <2>1, <1>1, <1>2, <1>3 DEF RecordOK
  <2>3. CASE catalog[q].attempt # a
    BY <2>1, <2>3, <1>2, <1>3 DEF RecordOK
  <2> QED BY <2>2, <2>3
<1>5. AttemptsAreFenced'
  BY <1>1, <1>2, <1>3 DEF IInv, AttemptsAreFenced, r
<1>6. TokensAreFresh'
  BY <1>1, <1>2, <1>3, NoneIsNobody DEF IInv, TokensAreFresh, r
<1>7. WireOK'
  <2>1. ASSUME NEW i \in 1..Len(wire) PROVE EventOK(wire[i])'
    <3>1. wire[i] \in Event /\ EventOK(wire[i])
      BY DEF IInv, TypeOK, WireOK
    <3> QED
      BY <3>1, <1>1, <1>2, <1>3, EventFields DEF EventOK, LegEnds
  <2> QED BY <2>1, <1>2 DEF WireOK
<1>8. ASSUME NEW u \in Threads PROVE ThreadOK(u)'
  <2>1. ThreadOK(u)
    BY DEF IInv
  <2>2. CASE u = t
    BY <2>2, <1>1, <1>2, NoneIsNobody DEF ThreadOK, r, IInv, TypeOK
  <2>3. CASE u # t
    <3>1. http'[u] = http[u]
      BY <2>3, <1>2 DEF IInv, TypeOK
    <3>2. http[u].pc = "claimed" => http[u].attempt \in Attempts /\ http[u].attempt # a
      <4>1. http[u].pc = "claimed" => http[u].attempt \in Attempts
        BY HttpFields DEF IInv, TypeOK
      <4> QED BY <4>1, <2>1, <2>3, <1>1 DEF ThreadOK, r
    <3> QED
      BY <2>1, <3>1, <3>2, <1>2, <1>3 DEF ThreadOK
  <2> QED BY <2>2, <2>3
<1> QED
  BY <1>2, <1>4, <1>5, <1>6, <1>7, <1>8, CliFrame, ReviewFrame DEF Rest

(* The claim: a pending entry becomes the claim of a token nobody had, and *)
(* its catalog, unlocked by everybody until now, is locked by t.           *)
LEMMA SafeDialClaim ==
  ASSUME IInv, NEW t \in Threads, DialClaim(t)
  PROVE  Rest'
<1>1. PICK r \in Records, a \in Attempts :
        /\ NextPending(r, http[t].group)
        /\ owner[a] = None
        /\ MarkCalling(r, a)
        /\ owner' = [owner EXCEPT ![a] = r]
        /\ http' = [http EXCEPT ![t] = [pc |-> "claimed", group |-> @.group, attempt |-> a]]
        /\ flock' = [flock EXCEPT ![Path(r)] = t]
  BY DEF DialClaim
<1>2. /\ UNCHANGED <<audit, cli, wire, call, rings>>
      /\ LocalFree /\ flock[PathOf(http[t].group)] = "free"
  BY DEF DialClaim, CanLock, channel, asterisk
<1>3. /\ catalog[r].status = "pendente" /\ catalog[r].group = http[t].group
      /\ catalog[r].attempts < MaxAttempts[r]
      /\ catalog' = [catalog EXCEPT ![r].status = "discando", ![r].attempts = @ + 1,
                                    ![r].attempt = a, ![r].old = FALSE]
  BY <1>1 DEF NextPending, Pending, MarkCalling
<1>4. /\ catalog'[r].status = "discando" /\ catalog'[r].attempt = a
      /\ catalog'[r].attempts = catalog[r].attempts + 1
      /\ catalog'[r].group = catalog[r].group
      /\ \A q \in Records : q # r => catalog'[q] = catalog[q]
  BY <1>3 DEF IInv, TypeOK, Entry
<1>5. /\ owner'[a] = r /\ call[a] = "none"
      /\ \A b \in Attempts : b # a => owner'[b] = owner[b]
  BY <1>1 DEF IInv, TypeOK, TokensAreFresh
<1>6. flock[Path(r)] = "free"
  BY <1>2, <1>3 DEF IInv, RecordOK
<1>7. ASSUME NEW q \in Records, q # r PROVE catalog[q].attempt # a
  <2>1. RecordOK(q)
    BY DEF IInv
  <2> QED BY <2>1, <1>1, NoneIsNobody DEF RecordOK
<1>8. ASSUME NEW q \in Records PROVE RecordOK(q)'
  <2>1. RecordOK(q) /\ catalog[q] \in Entry /\ catalog[q].attempt \in Attempts \cup {None}
        /\ catalog[q].attempts \in Nat /\ rings[q] \in Nat
        /\ MaxAttempts[q] \in Nat
    BY EntryFields, MaxAttemptsType DEF IInv
  <2>2. CASE q = r
    BY <2>1, <2>2, <1>2, <1>3, <1>4, <1>5, NoneIsNobody DEF RecordOK
  <2>3. CASE q # r
    BY <2>1, <2>3, <1>2, <1>4, <1>5, <1>7 DEF RecordOK
  <2> QED BY <2>2, <2>3
<1>9. AttemptsAreFenced'
  <2> SUFFICES ASSUME NEW b \in Attempts, owner'[b] # None, catalog'[owner'[b]].attempt # b
               PROVE  call[b] = "failed"
    BY <1>2 DEF AttemptsAreFenced
  <2>1. b # a /\ owner'[b] = owner[b] /\ owner[b] \in Records
    BY <1>4, <1>5 DEF IInv, TypeOK
  <2>2. CASE owner[b] = r /\ catalog[r].attempt = b
    BY <2>1, <2>2, <1>3, NoneIsNobody DEF IInv, RecordOK
  <2>3. CASE ~ (owner[b] = r /\ catalog[r].attempt = b)
    BY <2>1, <2>3, <1>4 DEF IInv, AttemptsAreFenced
  <2> QED BY <2>2, <2>3
<1>10. TokensAreFresh'
  BY <1>1, <1>2, <1>5, NoneIsNobody DEF IInv, TokensAreFresh
<1>11. ASSUME NEW u \in Threads PROVE ThreadOK(u)'
  <2>1. CASE u = t
    <3>1. http'[u].pc = "claimed" /\ http'[u].attempt = a
      BY <1>1, <2>1 DEF IInv, TypeOK
    <3>2. flock'[Path(r)] = t
      BY <1>1, PathsOfRecords DEF IInv, TypeOK
    <3> QED BY <2>1, <3>1, <3>2, <1>2, <1>4, <1>5, NoneIsNobody DEF ThreadOK
  <2>2. CASE u # t
    BY <2>2, <1>1, <1>2, NobodyInside DEF ThreadOK, IInv, TypeOK
  <2> QED BY <2>1, <2>2
<1>12. CliOK'
  <2>1. CliOK /\ (cli.pc # "idle" => cli.record \in Records)
    BY CliFields DEF IInv, TypeOK
  <2>2. cli.pc # "idle" => Path(cli.record) # Path(r)
    BY <2>1, <1>6 DEF CliOK
  <2>3. cli.pc # "idle" => flock'[Path(cli.record)] = "cli"
    BY <2>1, <2>2, <1>1, PathsOfRecords DEF CliOK, IInv, TypeOK
  <2>4. cli.pc # "idle" => catalog'[cli.record] = catalog[cli.record]
    BY <2>1, <2>2, <1>4
  <2> QED BY <2>1, <2>3, <2>4, <1>2 DEF CliOK, Note
<1>13. ReviewIsAudited'
  BY <1>2, <1>3, <1>4 DEF IInv, TypeOK, ReviewIsAudited, Note
<1> QED
  BY <1>2, <1>8, <1>9, <1>10, <1>11, <1>12, <1>13, WireFrame DEF Rest

LEMMA SafeDialler ==
  ASSUME IInv, NEW t \in Threads, Dialler(t)
  PROVE  Rest'
  BY SafeDialCheck, SafeDialClaim, SafeDialGiveUp, SafeDialSend, SafeDialReply DEF Dialler

-----------------------------------------------------------------------------
(* Steps that change the catalog only, and the correlation of no entry.    *)

(* An entry without a claim on the way may change its status, if the new   *)
(* entry is sound.                                                         *)
LEMMA SafeEdit ==
  ASSUME IInv, LocalFree, NEW S \in SUBSET Records,
         catalog' \in [Records -> Entry],
         UNCHANGED <<audit, cli, flock, http, call, rings, owner>>,
         \A r \in Records \ S : catalog'[r] = catalog[r],
         \A r \in S :
           /\ RecordOK(r)'
           /\ catalog'[r].attempt = catalog[r].attempt
           /\ flock[Path(r)] # "cli"
           /\ "revisao_manual" \notin {catalog[r].status, catalog'[r].status}
  PROVE  /\ (\A r \in Records : RecordOK(r))' /\ AttemptsAreFenced' /\ TokensAreFresh'
         /\ (\A t \in Threads : ThreadOK(t))' /\ CliOK' /\ ReviewIsAudited'
<1>1. ASSUME NEW r \in Records PROVE RecordOK(r)'
  <2>1. CASE r \in S
    BY <2>1
  <2>2. CASE r \notin S
    BY <2>2 DEF IInv, RecordOK
  <2> QED BY <2>1, <2>2
<1>2. \A r \in Records : catalog'[r].attempt = catalog[r].attempt
  OBVIOUS
<1>3. AttemptsAreFenced' /\ TokensAreFresh'
  <2>1. \A a \in Attempts : owner[a] # None => owner[a] \in Records
    BY DEF IInv, TypeOK
  <2> QED BY <1>2, <2>1 DEF IInv, AttemptsAreFenced, TokensAreFresh
<1>4. ASSUME NEW t \in Threads PROVE ThreadOK(t)'
  BY NobodyInside DEF ThreadOK
<1>5. CliOK'
  <2>1. CliOK /\ (cli.pc # "idle" => cli.record \in Records)
    BY CliFields DEF IInv, TypeOK
  <2>2. cli.pc # "idle" => cli.record \notin S
    BY <2>1 DEF CliOK
  <2> QED BY <2>1, <2>2 DEF CliOK, Note
<1>6. ReviewIsAudited'
  <2>1. \A n \in audit : n.record \in Records
    BY DEF IInv, TypeOK
  <2> QED BY <2>1, <1>2 DEF IInv, ReviewIsAudited, Note
<1> QED BY <1>1, <1>3, <1>4, <1>5, <1>6

LEMMA SafeCancel ==
  ASSUME IInv, TypeOK', NEW r \in Callbacks, CancelCallback(r)
  PROVE  Rest'
<1>1. /\ r \in Records /\ Path(r) = "callbacks"
      /\ LocalFree /\ flock["callbacks"] = "free"
      /\ catalog[r].status = "pendente"
      /\ catalog' = [catalog EXCEPT ![r].status = "cancelado"]
      /\ UNCHANGED <<audit, cli, flock, http, wire, call, rings, owner>>
  BY DEF CancelCallback, CanLock, process, channel, asterisk, Records, Path
<1>2. /\ catalog'[r].status = "cancelado" /\ catalog'[r].attempt = catalog[r].attempt
      /\ catalog'[r].attempts = catalog[r].attempts /\ catalog'[r].group = catalog[r].group
      /\ \A q \in Records \ {r} : catalog'[q] = catalog[q]
  BY <1>1 DEF IInv, TypeOK, Entry
<1>3. RecordOK(r)'
  BY <1>1, <1>2 DEF IInv, RecordOK
<1> DEFINE S == {r}
<1>4. S \in SUBSET Records /\ catalog' \in [Records -> Entry]
  BY <1>1 DEF TypeOK
<1>5. \A q \in S : /\ RecordOK(q)' /\ catalog'[q].attempt = catalog[q].attempt
                   /\ flock[Path(q)] # "cli"
                   /\ "revisao_manual" \notin {catalog[q].status, catalog'[q].status}
  BY <1>1, <1>2, <1>3
<1>6. \A q \in Records \ S : catalog'[q] = catalog[q]
  BY <1>2
<1> HIDE DEF S
<1> QED
  BY <1>1, <1>4, <1>5, <1>6, SafeEdit, WireFrame DEF Rest

LEMMA SafeCreateCampaign ==
  ASSUME IInv, TypeOK', NEW c \in Campaigns, CreateCampaign(c)
  PROVE  Rest'
<1> DEFINE list == {r \in Contacts : CampaignOf[r] = c}
<1>1. /\ LocalFree /\ flock["campaigns"] = "free"
      /\ \A r \in list : catalog[r].status = "ausente"
      /\ catalog' = [r \in Records |-> IF r \in list THEN NewEntry(c, None) ELSE catalog[r]]
      /\ UNCHANGED <<audit, cli, flock, http, wire, call, rings, owner>>
  BY DEF CreateCampaign, CanLock, process, channel, asterisk
<1>2. list \in SUBSET Records /\ \A r \in list : Path(r) = "campaigns" /\ r \in Records
  BY ConstantsAssumption DEF Records, Path
<1>3. PathOf(c) = "campaigns"
  BY ConstantsAssumption DEF PathOf
<1> HIDE DEF list
<1>4. ASSUME NEW r \in list
      PROVE  /\ RecordOK(r)' /\ catalog'[r].attempt = catalog[r].attempt
             /\ catalog'[r].status = "pendente"
  <2>1. catalog[r] = Absent /\ rings[r] <= catalog[r].attempts
    BY <1>1, <1>2 DEF IInv, RecordOK
  <2>2. catalog'[r] = NewEntry(c, None)
    BY <1>1, <1>2
  <2>3. rings[r] \in Nat /\ MaxAttempts[r] \in Nat /\ MaxAttempts[r] > 0
    BY <1>2, MaxAttemptsType DEF IInv, TypeOK
  <2> QED
    BY <2>1, <2>2, <2>3, <1>1, <1>2, <1>3 DEF RecordOK, NewEntry, Absent
<1> QED
  BY <1>1, <1>2, <1>4, SafeEdit, WireFrame DEF Rest, TypeOK

(* The response and the age of a claim are nothing the invariant speaks of.*)
LEMMA SafeDetails ==
  ASSUME IInv, NEW r \in Records, catalog[r].status = "discando",
         UNCHANGED <<audit, cli, flock, http, call, rings, owner>>,
         \A q \in Records :
           /\ catalog'[q].status = catalog[q].status
           /\ catalog'[q].attempt = catalog[q].attempt
           /\ catalog'[q].attempts = catalog[q].attempts
           /\ catalog'[q].group = catalog[q].group
           /\ q # r => catalog'[q] = catalog[q]
  PROVE  /\ (\A q \in Records : RecordOK(q))' /\ AttemptsAreFenced' /\ TokensAreFresh'
         /\ (\A t \in Threads : ThreadOK(t))' /\ CliOK' /\ ReviewIsAudited'
<1>1. ASSUME NEW q \in Records PROVE RecordOK(q)'
  BY DEF IInv, RecordOK
<1>2. \A a \in Attempts : owner[a] # None => owner[a] \in Records
  BY DEF IInv, TypeOK
<1>3. AttemptsAreFenced' /\ TokensAreFresh'
  BY <1>2 DEF IInv, AttemptsAreFenced, TokensAreFresh
<1>4. ASSUME NEW t \in Threads PROVE ThreadOK(t)'
  <2>1. http[t].pc = "claimed" => http[t].attempt \in Attempts
    BY HttpFields DEF IInv, TypeOK
  <2> QED BY <1>2, <2>1 DEF IInv, ThreadOK
<1>5. CliOK'
  <2>1. CliOK /\ (cli.pc # "idle" => cli.record \in Records)
    BY CliFields DEF IInv, TypeOK
  <2> QED BY <2>1 DEF CliOK, Note
<1>6. ReviewIsAudited'
  <2>1. \A n \in audit : n.record \in Records
    BY DEF IInv, TypeOK
  <2> QED BY <2>1 DEF IInv, ReviewIsAudited, Note
<1> QED
  BY <1>1, <1>3, <1>4, <1>5, <1>6

LEMMA SafeTimePasses ==
  ASSUME IInv, NEW r \in Records, TimePasses(r)
  PROVE  Rest'
<1>1. /\ catalog[r].status = "discando"
      /\ catalog' = [catalog EXCEPT ![r].old = TRUE]
      /\ UNCHANGED <<audit, cli, flock, http, wire, call, rings, owner>>
  BY DEF TimePasses, process, channel, asterisk
<1>2. \A q \in Records :
        /\ catalog'[q].status = catalog[q].status
        /\ catalog'[q].attempt = catalog[q].attempt
        /\ catalog'[q].attempts = catalog[q].attempts
        /\ catalog'[q].group = catalog[q].group
        /\ q # r => catalog'[q] = catalog[q]
  BY <1>1 DEF IInv, TypeOK, Entry
<1> QED
  BY <1>1, <1>2, SafeDetails, WireFrame DEF Rest

-----------------------------------------------------------------------------
(* The event worker.                                                       *)

(* A result is only recorded for a claim whose customer's leg ended so.    *)
LEMMA SafeResult ==
  ASSUME IInv, NEW e \in Event, EventOK(e), e.type = "DialEnd", CanLockBoth,
         UNCHANGED <<audit, cli, flock, http, call, rings, owner>>,
         NEW r \in Records, DialMatches(e) = {r}, MarkResult(r, e.end)
  PROVE  LET S == {r} IN
         /\ catalog[r].status = "discando"
         /\ catalog' \in [Records -> Entry]
         /\ catalog'[r].status = "pendente" => call[catalog[r].attempt] = "failed"
         /\ \A q \in Records \ S : catalog'[q] = catalog[q]
         /\ \A q \in S : /\ RecordOK(q)' /\ catalog'[q].attempt = catalog[q].attempt
                         /\ flock[Path(q)] # "cli"
                         /\ "revisao_manual" \notin {catalog[q].status, catalog'[q].status}
<1>1. r \in DialMatches(e)
  OBVIOUS
<1>2. /\ catalog[r].status = "discando" /\ catalog[r].attempt = e.attempt
      /\ e.end \in {"answered", "failed"} /\ call[e.attempt] = e.end
  BY <1>1, EventFields DEF DialMatches, Claimants, EventOK, LegEnds
<1>3. ResultStatus(r, e.end) \in Statuses \ {"revisao_manual", "discando", "ausente"}
  BY DEF ResultStatus, Statuses
<1>4. /\ catalog'[r].status = ResultStatus(r, e.end)
      /\ catalog'[r].attempt = catalog[r].attempt
      /\ catalog'[r].attempts = catalog[r].attempts /\ catalog'[r].group = catalog[r].group
      /\ \A q \in Records \ {r} : catalog'[q] = catalog[q]
      /\ catalog' \in [Records -> Entry]
  <2>1. catalog' = [catalog EXCEPT ![r].status = ResultStatus(r, e.end)]
    BY DEF MarkResult
  <2>2. catalog' \in [Records -> Entry]
    BY <2>1, <1>3, EntryUpdates DEF IInv, TypeOK
  <2> DEFINE s == ResultStatus(r, e.end)
  <2>3. catalog' = [catalog EXCEPT ![r].status = s]
    BY <2>1
  <2> HIDE DEF s
  <2>4. /\ catalog'[r].status = s
        /\ catalog'[r].attempt = catalog[r].attempt
        /\ catalog'[r].attempts = catalog[r].attempts /\ catalog'[r].group = catalog[r].group
        /\ \A q \in Records \ {r} : catalog'[q] = catalog[q]
    BY <2>3 DEF IInv, TypeOK, Entry
  <2> QED BY <2>2, <2>4 DEF s
<1>5. flock[Path(r)] = "free"
  BY PathsOfRecords DEF CanLockBoth, CanLock
<1>6. /\ RecordOK(r) /\ catalog[r].attempts \in Nat /\ MaxAttempts[r] \in Nat
      /\ catalog[r].attempts <= MaxAttempts[r]
  BY EntryFields, MaxAttemptsType DEF IInv, RecordOK
<1>7. RecordOK(r)'
  BY <1>2, <1>4, <1>6 DEF RecordOK, ResultStatus
<1>8. catalog'[r].status = "pendente" => call[catalog[r].attempt] = "failed"
  BY <1>2, <1>4 DEF ResultStatus
<1> QED
  BY <1>2, <1>3, <1>4, <1>5, <1>7, <1>8

(* A new callback entry takes the first free place.                        *)
LEMMA SafeRequest ==
  ASSUME IInv, NEW e \in Event, e.type = "CallbackRequest", CanLock("callbacks"),
         UNCHANGED <<audit, cli, flock, http, call, rings, owner>>,
         NEW r \in Callbacks, catalog[r].status = "ausente",
         catalog' = [catalog EXCEPT ![r] = NewEntry(e.tenant, e.source)]
  PROVE  LET S == {r} IN
         /\ r \in Records /\ catalog'[r].status = "pendente"
         /\ catalog' \in [Records -> Entry]
         /\ \A q \in Records \ S : catalog'[q] = catalog[q]
         /\ \A q \in S : /\ RecordOK(q)' /\ catalog'[q].attempt = catalog[q].attempt
                         /\ flock[Path(q)] # "cli"
                         /\ "revisao_manual" \notin {catalog[q].status, catalog'[q].status}
<1>1. r \in Records /\ Path(r) = "callbacks" /\ flock[Path(r)] = "free"
  BY DEF Records, Path, CanLock
<1>2. e.tenant \in Tenants /\ e.source \in Sources \cup {None}
  BY EventFields
<1>3. NewEntry(e.tenant, e.source) \in Entry
  BY <1>2 DEF NewEntry, Entry, Statuses, Groups
<1>4. /\ catalog'[r] = NewEntry(e.tenant, e.source)
      /\ \A q \in Records \ {r} : catalog'[q] = catalog[q]
      /\ catalog' \in [Records -> Entry]
  BY <1>1, <1>3 DEF IInv, TypeOK
<1>5. catalog[r] = Absent /\ rings[r] <= catalog[r].attempts
  BY <1>1 DEF IInv, RecordOK
<1>6. rings[r] \in Nat /\ MaxAttempts[r] \in Nat /\ MaxAttempts[r] > 0
  BY <1>1, MaxAttemptsType DEF IInv, TypeOK
<1>7. RecordOK(r)'
  BY <1>1, <1>2, <1>4, <1>5, <1>6 DEF RecordOK, NewEntry, Absent, PathOf
<1> QED
  BY <1>1, <1>4, <1>5, <1>7 DEF NewEntry, Absent

LEMMA HandledEvent ==
  ASSUME IInv, HandleEvent
  PROVE  /\ Head(wire) \in Event /\ EventOK(Head(wire))
         /\ wire # <<>> /\ wire' = Tail(wire)
         /\ LocalFree
         /\ UNCHANGED <<audit, cli, flock, http, call, rings, owner>>
<1>1. wire \in Seq(Event) /\ wire # <<>> /\ wire' = Tail(wire)
  BY DEF HandleEvent, IInv, TypeOK
<1>2. Head(wire) = wire[1] /\ 1 \in 1..Len(wire) /\ wire[1] \in Event
  BY <1>1
<1>3. LocalFree
  BY DEF HandleEvent, ApplyOriginateResponse, ApplyDialResult, AddCallbackRequest,
         CanLockBoth, CanLock, Paths
<1> QED
  BY <1>1, <1>2, <1>3 DEF HandleEvent, process, asterisk, IInv, WireOK

LEMMA SafeHandleEvent ==
  ASSUME IInv, HandleEvent
  PROVE  Rest'
<1> DEFINE e == Head(wire)
<1>1. /\ e \in Event /\ EventOK(e) /\ LocalFree
      /\ wire # <<>> /\ wire' = Tail(wire)
      /\ UNCHANGED <<audit, cli, flock, http, call, rings, owner>>
  BY HandledEvent
<1>2. \/ e.type = "OriginateResponse" /\ ApplyOriginateResponse(e)
      \/ e.type = "DialEnd" /\ ApplyDialResult(e)
      \/ e.type = "CallbackRequest" /\ AddCallbackRequest(e)
  BY DEF HandleEvent
<1> HIDE DEF e
<1>3. WireOK'
  BY <1>1, WireFrame
<1>4. CASE catalog' = catalog
  BY <1>1, <1>3, <1>4, RecordsFrame, ReviewFrame, CliFrame, NobodyInside DEF Rest, ThreadOK
<1>5. CASE catalog' # catalog /\ e.type = "OriginateResponse" /\ ApplyOriginateResponse(e)
  <2>1. PICK r \in Records :
          /\ Claimants(e.attempt) = {r}
          /\ catalog' = [catalog EXCEPT ![r].response = IF @ = None THEN e.response ELSE @]
    BY <1>5 DEF ApplyOriginateResponse
  <2>2. catalog[r].status = "discando"
    BY <2>1 DEF Claimants
  <2>3. \A q \in Records :
          /\ catalog'[q].status = catalog[q].status
          /\ catalog'[q].attempt = catalog[q].attempt
          /\ catalog'[q].attempts = catalog[q].attempts
          /\ catalog'[q].group = catalog[q].group
          /\ q # r => catalog'[q] = catalog[q]
    BY <2>1 DEF IInv, TypeOK, Entry
  <2> QED
    BY <1>1, <1>3, <2>2, <2>3, SafeDetails DEF Rest
<1>6. CASE catalog' # catalog /\ e.type = "DialEnd" /\ ApplyDialResult(e)
  <2>1. PICK r \in Records : DialMatches(e) = {r} /\ MarkResult(r, e.end)
    BY <1>6 DEF ApplyDialResult
  <2>2. CanLockBoth
    BY <1>6 DEF ApplyDialResult
  <2> DEFINE S == {r}
  <2>3. /\ S \in SUBSET Records /\ catalog' \in [Records -> Entry]
        /\ \A q \in Records \ S : catalog'[q] = catalog[q]
        /\ \A q \in S : /\ RecordOK(q)' /\ catalog'[q].attempt = catalog[q].attempt
                        /\ flock[Path(q)] # "cli"
                        /\ "revisao_manual" \notin {catalog[q].status, catalog'[q].status}
    BY <1>1, <1>6, <2>1, <2>2, SafeResult
  <2> HIDE DEF S
  <2> QED
    BY <1>1, <1>3, <2>3, SafeEdit DEF Rest
<1>7. CASE catalog' # catalog /\ e.type = "CallbackRequest" /\ AddCallbackRequest(e)
  <2>1. PICK r \in Callbacks :
          /\ catalog[r].status = "ausente"
          /\ catalog' = [catalog EXCEPT ![r] = NewEntry(e.tenant, e.source)]
    BY <1>7 DEF AddCallbackRequest
  <2>2. CanLock("callbacks")
    BY <1>7 DEF AddCallbackRequest
  <2> DEFINE S == {r}
  <2>3. /\ S \in SUBSET Records /\ catalog' \in [Records -> Entry]
        /\ \A q \in Records \ S : catalog'[q] = catalog[q]
        /\ \A q \in S : /\ RecordOK(q)' /\ catalog'[q].attempt = catalog[q].attempt
                        /\ flock[Path(q)] # "cli"
                        /\ "revisao_manual" \notin {catalog[q].status, catalog'[q].status}
    BY <1>1, <1>7, <2>1, <2>2, SafeRequest
  <2> HIDE DEF S
  <2> QED
    BY <1>1, <1>3, <2>3, SafeEdit DEF Rest
<1> QED
  BY <1>2, <1>4, <1>5, <1>6, <1>7

LEMMA SafeLoseEvent ==
  ASSUME IInv, LoseEvent
  PROVE  Rest'
<1>1. /\ wire # <<>> /\ wire' = Tail(wire)
      /\ UNCHANGED <<catalog, audit, cli, flock, http, call, rings, owner>>
  BY DEF LoseEvent, process, asterisk
<1> QED
  BY <1>1, RecordsFrame, ThreadsFrame, WireFrame, CliFrame, ReviewFrame DEF Rest

-----------------------------------------------------------------------------
(* Asterisk, the connection and the process.                               *)

LEMMA SafeAsteriskTakes ==
  ASSUME IInv, NEW a \in Attempts, AsteriskTakes(a)
  PROVE  Rest'
<1> DEFINE r == owner[a]
<1>1. /\ call[a] = "sent"
      /\ UNCHANGED <<catalog, audit, flock, http, cli, wire, owner>>
      /\ \/ call' = [call EXCEPT ![a] = "refused"] /\ rings' = rings
         \/ call' = [call EXCEPT ![a] = "ringing"] /\ rings' = [rings EXCEPT ![r] = @ + 1]
  BY DEF AsteriskTakes, process, channel
<1>2. r \in Records /\ catalog[r].attempt = a
  BY <1>1 DEF IInv, TypeOK, TokensAreFresh, AttemptsAreFenced
<1>3. /\ call'[a] \in {"refused", "ringing"}
      /\ \A b \in Attempts : b # a => call'[b] = call[b]
      /\ \A q \in Records : q # r => rings'[q] = rings[q]
      /\ call'[a] = "refused" => rings'[r] = rings[r]
      /\ call'[a] = "ringing" => rings'[r] = rings[r] + 1
  BY <1>1, <1>2 DEF IInv, TypeOK
<1> HIDE DEF r
<1>4. ASSUME NEW q \in Records PROVE RecordOK(q)'
  <2>1. /\ RecordOK(q) /\ catalog[q].attempt \in Attempts \cup {None}
        /\ rings[q] \in Nat /\ catalog[q].attempts \in Nat
    BY EntryFields DEF IInv
  <2>2. CASE q = r
    BY <2>1, <2>2, <1>1, <1>2, <1>3, NoneIsNobody DEF RecordOK
  <2>3. CASE q # r
    <3>1. catalog[q].attempt # a
      BY <2>1, <2>3, NoneIsNobody DEF RecordOK, r
    <3> QED BY <2>1, <2>3, <3>1, <1>1, <1>3 DEF RecordOK
  <2> QED BY <2>2, <2>3
<1>5. AttemptsAreFenced'
  BY <1>1, <1>2, <1>3 DEF IInv, AttemptsAreFenced, r
<1>6. TokensAreFresh'
  BY <1>1, <1>2, <1>3, NoneIsNobody DEF IInv, TokensAreFresh, r
<1>7. WireOK'
  <2>1. ASSUME NEW i \in 1..Len(wire) PROVE EventOK(wire[i])'
    <3>1. wire[i] \in Event /\ EventOK(wire[i])
      BY DEF IInv, TypeOK, WireOK
    <3> QED
      BY <3>1, <1>1, <1>3, EventFields DEF EventOK, LegEnds
  <2> QED BY <2>1, <1>1 DEF WireOK
<1>8. ASSUME NEW t \in Threads PROVE ThreadOK(t)'
  <2>1. ThreadOK(t) /\ (http[t].pc = "claimed" => http[t].attempt \in Attempts)
    BY HttpFields DEF IInv, TypeOK
  <2> QED BY <2>1, <1>1, <1>3 DEF ThreadOK
<1> QED
  BY <1>1, <1>4, <1>5, <1>6, <1>7, <1>8, WireFrame, CliFrame, ReviewFrame DEF Rest

LEMMA SafeCallEnds ==
  ASSUME IInv, NEW a \in Attempts, CallEnds(a)
  PROVE  Rest'
<1>1. /\ call[a] = "ringing"
      /\ UNCHANGED <<catalog, audit, flock, http, cli, wire, owner, rings>>
      /\ call'[a] \in {"answered", "failed"}
      /\ \A b \in Attempts : b # a => call'[b] = call[b]
  BY DEF CallEnds, process, channel, IInv, TypeOK
<1>2. ASSUME NEW r \in Records PROVE RecordOK(r)'
  <2>1. RecordOK(r) /\ catalog[r].attempt \in Attempts \cup {None}
    BY EntryFields DEF IInv
  <2> QED BY <2>1, <1>1 DEF RecordOK
<1>3. AttemptsAreFenced' /\ TokensAreFresh'
  BY <1>1 DEF IInv, AttemptsAreFenced, TokensAreFresh
<1>4. WireOK'
  <2>1. ASSUME NEW i \in 1..Len(wire) PROVE EventOK(wire[i])'
    <3>1. wire[i] \in Event /\ EventOK(wire[i])
      BY DEF IInv, TypeOK, WireOK
    <3> QED
      BY <3>1, <1>1, EventFields DEF EventOK, LegEnds
  <2> QED BY <2>1, <1>1 DEF WireOK
<1>5. ASSUME NEW t \in Threads PROVE ThreadOK(t)'
  <2>1. ThreadOK(t) /\ (http[t].pc = "claimed" => http[t].attempt \in Attempts)
    BY HttpFields DEF IInv, TypeOK
  <2> QED BY <2>1, <1>1 DEF ThreadOK
<1> QED
  BY <1>1, <1>2, <1>3, <1>4, <1>5, CliFrame, ReviewFrame DEF Rest

(* What is queued is what Asterisk could report.                           *)
LEMMA SafeReport ==
  ASSUME IInv, NEW e \in Event, Report(e)
  PROVE  Rest'
<1>1. /\ UNCHANGED <<catalog, audit, flock, http, cli, call, rings, owner>>
      /\ CanReport(e)
      /\ wire' = wire \/ wire' = Append(wire, e)
  BY DEF Report, process, asterisk
<1>2. EventOK(e)
  BY <1>1 DEF CanReport, EventOK
<1>3. WireOK'
  <2>1. CASE wire' = wire
    BY <2>1, <1>1, WireFrame
  <2>2. CASE wire' = Append(wire, e)
    <3>1. /\ wire \in Seq(Event) /\ Len(wire) \in Nat
          /\ Len(wire') = Len(wire) + 1 /\ wire'[Len(wire) + 1] = e
          /\ \A i \in 1..Len(wire) : wire'[i] = wire[i]
      <4>1. wire \in Seq(Event)
        BY DEF IInv, TypeOK
      <4> QED BY <4>1, <2>2, AppendProperties, LenProperties
    <3>2. ASSUME NEW i \in 1..Len(wire') PROVE EventOK(wire[i])'
      <4>1. i \in 1..Len(wire) \/ i = Len(wire) + 1
        BY <3>1
      <4> QED
        BY <4>1, <3>1, <1>1, <1>2 DEF IInv, WireOK, EventOK
    <3> QED BY <3>2 DEF WireOK
  <2> QED BY <1>1, <2>1, <2>2
<1> QED
  BY <1>1, <1>3, RecordsFrame, ThreadsFrame, CliFrame, ReviewFrame DEF Rest

LEMMA SafeConnectionLost ==
  ASSUME IInv, ConnectionLost
  PROVE  Rest'
<1>1. UNCHANGED <<catalog, audit, flock, http, cli, wire, call, rings, owner>>
  BY DEF ConnectionLost, process, asterisk
<1> QED
  BY <1>1, RecordsFrame, ThreadsFrame, WireFrame, CliFrame, ReviewFrame DEF Rest

LEMMA SafeRestart ==
  ASSUME IInv, Restart
  PROVE  Rest'
<1>1. /\ UNCHANGED <<catalog, audit, cli, call, rings, owner>>
      /\ wire' = <<>>
      /\ http' = [t \in Threads |-> IdleHttp]
      /\ flock' = [p \in Paths |-> IF flock[p] \in Threads THEN "free" ELSE flock[p]]
  BY DEF Restart, asterisk
<1>2. WireOK'
  BY <1>1 DEF WireOK
<1>3. ASSUME NEW t \in Threads PROVE ThreadOK(t)'
  BY <1>1 DEF ThreadOK, IdleHttp
<1>4. CliOK'
  <2>1. CliOK /\ (cli.pc # "idle" => Path(cli.record) \in Paths)
    BY CliFields, PathsOfRecords DEF IInv, TypeOK
  <2> QED BY <2>1, <1>1, NoneIsNobody DEF CliOK, Note
<1> QED
  BY <1>1, <1>2, <1>3, <1>4, RecordsFrame, ReviewFrame DEF Rest

-----------------------------------------------------------------------------
(* The quarantine command.                                                 *)

LEMMA SafeQuarantineRequest ==
  ASSUME IInv, NEW r \in Records, QuarantineRequest(r)
  PROVE  Rest'
<1>1. /\ UNCHANGED <<catalog, http, wire, call, rings, owner>>
      /\ cli.pc = "idle" /\ flock[Path(r)] = "free"
      /\ catalog[r].status = "discando"
      /\ flock' = [flock EXCEPT ![Path(r)] = "cli"]
      /\ audit' = audit \cup {Note("requested", r)}
      /\ cli' = [pc |-> "requested", record |-> r]
  BY DEF QuarantineRequest, channel, asterisk
<1>2. flock'[Path(r)] = "cli" /\ \A p \in Paths : p # Path(r) => flock'[p] = flock[p]
  BY <1>1, PathsOfRecords DEF IInv, TypeOK
<1>3. ASSUME NEW t \in Threads PROVE ThreadOK(t)'
  <2>1. ThreadOK(t) /\ (http[t].pc \in {"claimed", "sent"} => http[t].attempt \in Attempts)
    BY HttpFields DEF IInv, TypeOK
  <2>2. http[t].pc \in {"claimed", "sent"}
          => Path(owner[http[t].attempt]) \in Paths /\ Path(owner[http[t].attempt]) # Path(r)
    BY <2>1, <1>1, NoneIsNobody, PathsOfRecords DEF ThreadOK, IInv, TypeOK
  <2> QED BY <2>1, <2>2, <1>1, <1>2 DEF ThreadOK
<1>4. CliOK'
  BY <1>1, <1>2 DEF CliOK, Note
<1>5. ReviewIsAudited'
  BY <1>1 DEF IInv, ReviewIsAudited, Note
<1> QED
  BY <1>1, <1>3, <1>4, <1>5, RecordsFrame, WireFrame DEF Rest

LEMMA SafeQuarantineWrite ==
  ASSUME IInv, QuarantineWrite
  PROVE  Rest'
<1> DEFINE r == cli.record
<1>1. /\ UNCHANGED <<audit, flock, http, wire, call, rings, owner>>
      /\ cli.pc = "requested"
      /\ catalog' = [catalog EXCEPT ![r].status = "revisao_manual"]
      /\ cli' = [pc |-> "written", record |-> r]
  BY DEF QuarantineWrite, channel, asterisk
<1>2. r \in Records
  BY <1>1, CliFields DEF IInv, TypeOK
<1> HIDE DEF r
<1>3. /\ flock[Path(r)] = "cli" /\ catalog[r].status = "discando"
      /\ Note("requested", r) \in audit
  BY <1>1 DEF IInv, CliOK, r
<1>4. /\ catalog'[r].status = "revisao_manual"
      /\ \A q \in Records :
           /\ catalog'[q].attempt = catalog[q].attempt
           /\ catalog'[q].attempts = catalog[q].attempts
           /\ catalog'[q].group = catalog[q].group
           /\ q # r => catalog'[q] = catalog[q]
  BY <1>1, <1>2 DEF IInv, TypeOK, Entry
<1>5. ASSUME NEW q \in Records PROVE RecordOK(q)'
  BY <1>1, <1>3, <1>4 DEF IInv, RecordOK
<1>6. AttemptsAreFenced' /\ TokensAreFresh'
  <2>1. \A a \in Attempts : owner[a] # None => owner[a] \in Records
    BY DEF IInv, TypeOK
  <2> QED BY <2>1, <1>1, <1>4 DEF IInv, AttemptsAreFenced, TokensAreFresh
<1>7. ASSUME NEW t \in Threads PROVE ThreadOK(t)'
  <2>1. ThreadOK(t) /\ (http[t].pc = "claimed" => http[t].attempt \in Attempts)
    BY HttpFields DEF IInv, TypeOK
  <2>2. http[t].pc = "claimed" => owner[http[t].attempt] \in Records \ {r}
    BY <2>1, <1>3, NoneIsNobody DEF ThreadOK, IInv, TypeOK
  <2> QED BY <2>1, <2>2, <1>1, <1>4 DEF ThreadOK
<1>8. CliOK'
  BY <1>1, <1>3, <1>4 DEF CliOK
<1>9. ReviewIsAudited'
  <2>1. \A n \in audit : n.record \in Records
    BY DEF IInv, TypeOK
  <2> QED BY <2>1, <1>1, <1>2, <1>3, <1>4 DEF IInv, ReviewIsAudited, Note
<1> QED
  BY <1>1, <1>5, <1>6, <1>7, <1>8, <1>9, WireFrame DEF Rest

(* Both ends of the command give the lock back; only one writes a line.    *)
LEMMA SafeQuarantineEnds ==
  ASSUME IInv, QuarantineCommit \/ QuarantineDies
  PROVE  Rest'
<1> DEFINE r == cli.record
<1>1. /\ UNCHANGED <<catalog, http, wire, call, rings, owner>>
      /\ cli.pc # "idle" /\ cli' = IdleCli
      /\ flock' = [flock EXCEPT ![Path(r)] = "free"]
      /\ \/ audit' = audit
         \/ cli.pc = "written" /\ audit' = audit \cup {Note("committed", r)}
  BY DEF QuarantineCommit, QuarantineDies, channel, asterisk
<1>2. r \in Records /\ flock[Path(r)] = "cli"
      /\ (cli.pc = "written" => catalog[r].status = "revisao_manual")
  BY <1>1, CliFields DEF IInv, TypeOK, CliOK
<1> HIDE DEF r
<1>3. \A p \in Paths : p # Path(r) => flock'[p] = flock[p]
  BY <1>1 DEF IInv, TypeOK
<1>4. ASSUME NEW t \in Threads PROVE ThreadOK(t)'
  <2>1. ThreadOK(t) /\ (http[t].pc \in {"claimed", "sent"} => http[t].attempt \in Attempts)
    BY HttpFields DEF IInv, TypeOK
  <2>2. http[t].pc \in {"claimed", "sent"}
          => Path(owner[http[t].attempt]) \in Paths /\ Path(owner[http[t].attempt]) # Path(r)
    BY <2>1, <1>2, NoneIsNobody, PathsOfRecords DEF ThreadOK, IInv, TypeOK
  <2> QED BY <2>1, <2>2, <1>1, <1>3 DEF ThreadOK
<1>5. CliOK'
  BY <1>1 DEF CliOK, IdleCli
<1>6. ReviewIsAudited'
  BY <1>1, <1>2 DEF IInv, ReviewIsAudited, Note
<1> QED
  BY <1>1, <1>4, <1>5, <1>6, RecordsFrame, WireFrame DEF Rest

-----------------------------------------------------------------------------
(* The invariant.                                                          *)

LEMMA IInvInit == Init => IInv
<1> SUFFICES ASSUME Init PROVE IInv
  OBVIOUS
<1>1. TypeOK
  BY TypeOKInit
<1>2. ASSUME NEW r \in Records PROVE RecordOK(r)
  <2>1. catalog[r] = Absent /\ rings[r] = 0
    BY DEF Init
  <2>2. MaxAttempts[r] \in Nat
    BY MaxAttemptsType
  <2> QED BY <2>1, <2>2 DEF RecordOK, Absent
<1>3. AttemptsAreFenced /\ TokensAreFresh /\ CliOK
  BY DEF Init, AttemptsAreFenced, TokensAreFresh, CliOK, IdleCli
<1>4. WireOK
  BY DEF Init, WireOK
<1>5. ASSUME NEW t \in Threads PROVE ThreadOK(t)
  BY DEF Init, ThreadOK, IdleHttp
<1>6. ReviewIsAudited
  BY DEF Init, ReviewIsAudited, Absent
<1> QED
  BY <1>1, <1>2, <1>3, <1>4, <1>5, <1>6 DEF IInv

LEMMA RestStep ==
  ASSUME IInv, [Next]_vars
  PROVE  Rest'
<1>1. TypeOK'
  BY TypeOKStep DEF IInv
<1>2. ASSUME NEW t \in Threads, Dialler(t) PROVE Rest'
  BY <1>2, SafeDialler
<1>3. ASSUME NEW r \in Callbacks, CancelCallback(r) PROVE Rest'
  BY <1>1, <1>3, SafeCancel
<1>4. ASSUME NEW c \in Campaigns, CreateCampaign(c) PROVE Rest'
  BY <1>1, <1>4, SafeCreateCampaign
<1>5. CASE HandleEvent
  BY <1>5, SafeHandleEvent
<1>6. CASE LoseEvent
  BY <1>6, SafeLoseEvent
<1>7. ASSUME NEW a \in Attempts, AsteriskTakes(a) \/ CallEnds(a) PROVE Rest'
  BY <1>7, SafeAsteriskTakes, SafeCallEnds
<1>8. ASSUME NEW e \in Event, Report(e) PROVE Rest'
  BY <1>8, SafeReport
<1>9. CASE ConnectionLost
  BY <1>9, SafeConnectionLost
<1>10. CASE Restart
  BY <1>10, SafeRestart
<1>11. ASSUME NEW r \in Records, TimePasses(r) PROVE Rest'
  BY <1>11, SafeTimePasses
<1>12. CASE Quarantine
  BY <1>12, SafeQuarantineRequest, SafeQuarantineWrite, SafeQuarantineEnds DEF Quarantine
<1>13. CASE UNCHANGED vars
  <2>1. UNCHANGED <<catalog, audit, flock, http, cli, wire, call, rings, owner>>
    BY <1>13 DEF vars
  <2> QED
    BY <2>1, RecordsFrame, ThreadsFrame, WireFrame, CliFrame, ReviewFrame DEF Rest
<1> QED
  BY <1>2, <1>3, <1>4, <1>5, <1>6, <1>7, <1>8, <1>9, <1>10, <1>11, <1>12, <1>13 DEF Next

LEMMA IInvStep == IInv /\ [Next]_vars => IInv'
<1> SUFFICES ASSUME IInv, [Next]_vars PROVE IInv'
  OBVIOUS
<1>1. TypeOK'
  BY TypeOKStep DEF IInv
<1>2. Rest'
  BY RestStep
<1> QED
  BY <1>1, <1>2 DEF IInv, Rest

(* The catalogs, the locks, the queued events and the audit trail agree    *)
(* with each other and with what Asterisk did, at every moment.            *)
THEOREM InvariantHolds == Spec => []IInv
<1> QED BY IInvInit, IInvStep, PTL DEF Spec

-----------------------------------------------------------------------------
(* The safety properties.                                                  *)

(* An entry has one live attempt at most, and the attempts it left behind  *)
(* all failed: mark_*_calling never forgets a call that may still answer.  *)
THEOREM AttemptsFenced == Spec => []AttemptsAreFenced
<1>1. IInv => AttemptsAreFenced
  BY DEF IInv
<1> QED BY <1>1, InvariantHolds, PTL

(* "concluido" and "atendida" mean that this attempt was answered by the   *)
(* customer, "esgotado" that all MAX_ATTEMPTS were made and failed.        *)
THEOREM OutcomesTrue == Spec => []OutcomesAreTrue
<1>1. IInv => OutcomesAreTrue
  <2> SUFFICES ASSUME IInv, NEW r \in Records PROVE
        /\ catalog[r].status = "concluido" => call[catalog[r].attempt] = "answered"
        /\ catalog[r].status = "esgotado" =>
             /\ catalog[r].attempts = MaxAttempts[r]
             /\ \A a \in Attempts : owner[a] = r => call[a] = "failed"
    BY DEF OutcomesAreTrue
  <2>1. RecordOK(r)
    BY DEF IInv
  <2>2. ASSUME NEW a \in Attempts, owner[a] = r, catalog[r].status = "esgotado"
        PROVE  call[a] = "failed"
    <3>1. CASE catalog[r].attempt = a
      BY <2>1, <2>2, <3>1 DEF RecordOK
    <3>2. CASE catalog[r].attempt # a
      BY <2>2, <3>2, NoneIsNobody DEF IInv, AttemptsAreFenced
    <3> QED BY <3>1, <3>2
  <2> QED BY <2>1, <2>2 DEF RecordOK
<1> QED BY <1>1, InvariantHolds, PTL

(* From the persisted reservation to the Originate the lock keeps the      *)
(* claim as it was written.                                                *)
THEOREM SentClaimsCurrent == Spec => []SentClaimsAreCurrent
<1>1. IInv => SentClaimsAreCurrent
  BY DEF IInv, ThreadOK, SentClaimsAreCurrent
<1> QED BY <1>1, InvariantHolds, PTL

(* quarantine_claim leaves a write-ahead line before it changes anything,  *)
(* and a committed line only for an entry in review.                       *)
THEOREM ReviewAudited == Spec => []ReviewIsAudited
<1>1. IInv => ReviewIsAudited
  BY DEF IInv
<1> QED BY <1>1, InvariantHolds, PTL

-----------------------------------------------------------------------------
(* What a step may do to one entry.                                        *)

(* All the ways the status of an entry can change.                         *)
LEMMA StatusChanges ==
  ASSUME IInv, [Next]_vars, NEW r \in Records, catalog'[r] # catalog[r]
  PROVE  /\ catalog[r].status \in {"ausente", "pendente", "discando"}
         /\ catalog[r].status = "discando" /\ catalog'[r].status = "pendente"
              => call[catalog[r].attempt] = "failed"
<1> DEFINE Goal == /\ catalog[r].status \in {"ausente", "pendente", "discando"}
                   /\ catalog[r].status = "discando" /\ catalog'[r].status = "pendente"
                        => call[catalog[r].attempt] = "failed"
<1> SUFFICES Goal
  OBVIOUS
<1>1. ASSUME NEW t \in Threads, Dialler(t) PROVE Goal
  <2>1. CASE DialClaim(t)
    BY <2>1 DEF DialClaim, MarkCalling, IInv, TypeOK
  <2> QED
    BY <1>1, <2>1 DEF Dialler, DialCheck, DialGiveUp, DialSend, DialReply
<1>2. ASSUME NEW q \in Callbacks, CancelCallback(q) PROVE Goal
  BY <1>2 DEF CancelCallback, IInv, TypeOK
<1>3. ASSUME NEW c \in Campaigns, CreateCampaign(c) PROVE Goal
  BY <1>3 DEF CreateCampaign
<1>4. CASE HandleEvent
  <2> DEFINE e == Head(wire)
  <2>1. /\ e \in Event /\ EventOK(e)
        /\ UNCHANGED <<audit, cli, flock, http, call, rings, owner>>
    BY <1>4, HandledEvent
  <2>2. \/ e.type = "OriginateResponse" /\ ApplyOriginateResponse(e)
        \/ e.type = "DialEnd" /\ ApplyDialResult(e)
        \/ e.type = "CallbackRequest" /\ AddCallbackRequest(e)
    BY <1>4 DEF HandleEvent
  <2> HIDE DEF e
  <2>3. CASE e.type = "OriginateResponse" /\ ApplyOriginateResponse(e)
    <3>1. PICK q \in Records :
            /\ Claimants(e.attempt) = {q}
            /\ catalog' = [catalog EXCEPT ![q].response = IF @ = None THEN e.response ELSE @]
      BY <2>3 DEF ApplyOriginateResponse
    <3>2. catalog[q].status = "discando"
      BY <3>1 DEF Claimants
    <3>3. /\ catalog'[q].status = catalog[q].status
          /\ \A p \in Records \ {q} : catalog'[p] = catalog[p]
      BY <3>1 DEF IInv, TypeOK, Entry
    <3> QED BY <3>2, <3>3
  <2>4. CASE e.type = "DialEnd" /\ ApplyDialResult(e)
    <3>1. PICK q \in Records : DialMatches(e) = {q} /\ MarkResult(q, e.end)
      BY <2>4 DEF ApplyDialResult
    <3>2. /\ catalog[q].status = "discando"
          /\ catalog'[q].status = "pendente" => call[catalog[q].attempt] = "failed"
          /\ \A p \in Records \ {q} : catalog'[p] = catalog[p]
      BY <2>1, <2>4, <3>1, SafeResult DEF ApplyDialResult
    <3> QED BY <3>2
  <2>5. CASE e.type = "CallbackRequest" /\ AddCallbackRequest(e)
    BY <2>5 DEF AddCallbackRequest, IInv, TypeOK
  <2> QED BY <2>2, <2>3, <2>4, <2>5
<1>5. ASSUME NEW q \in Records, TimePasses(q) PROVE Goal
  BY <1>5 DEF TimePasses, IInv, TypeOK, Entry
<1>6. CASE QuarantineWrite
  <2>1. cli.record \in Records /\ catalog[cli.record].status = "discando"
    BY <1>6, CliFields DEF QuarantineWrite, IInv, TypeOK, CliOK
  <2> QED
    BY <1>6, <2>1 DEF QuarantineWrite, IInv, TypeOK, Entry
<1>7. CASE UNCHANGED catalog
  BY <1>7
<1> HIDE DEF Goal
<1> QED
  BY <1>1, <1>2, <1>3, <1>4, <1>5, <1>6, <1>7
     DEF Next, Quarantine, LoseEvent, AsteriskTakes, CallEnds, Report, ConnectionLost, Restart,
         QuarantineRequest, QuarantineCommit, QuarantineDies, vars

(* No entry returns to the queue unless the customer's leg of its current  *)
(* attempt failed: timeouts, crashes and restarts never redial.            *)
THEOREM OnlyFailuresRequeue == Spec => OnlyFailureRequeues
<1>1. IInv /\ [Next]_vars =>
        [\A r \in Records :
          catalog[r].status = "discando" /\ catalog'[r].status = "pendente"
          => call[catalog[r].attempt] = "failed"]_vars
  BY StatusChanges
<1> QED BY <1>1, InvariantHolds, PTL DEF Spec, OnlyFailureRequeues

(* A finished entry keeps every field for ever.                            *)
THEOREM FinalStaysFinal == Spec => FinalIsFinal
<1>1. IInv /\ [Next]_vars =>
        [\A r \in Records :
          catalog[r].status \in {"concluido", "esgotado", "cancelado", "revisao_manual"}
          => catalog'[r] = catalog[r]]_vars
  BY StatusChanges
<1> QED BY <1>1, InvariantHolds, PTL DEF Spec, FinalIsFinal

-----------------------------------------------------------------------------
(* The callback list.                                                      *)

SameRequests ==
  \A r \in Callbacks : /\ catalog'[r].source = catalog[r].source
                       /\ catalog'[r].group = catalog[r].group

(* Only add_callback_request writes who asked, for whom.                   *)
LEMMA RequestsChange ==
  ASSUME IInv, [Next]_vars
  PROVE  SameRequests \/ (HandleEvent /\ AddCallbackRequest(Head(wire)))
<1> Callbacks \subseteq Records
  BY DEF Records
<1>1. ASSUME NEW t \in Threads, Dialler(t) PROVE SameRequests
  <2>1. CASE DialClaim(t)
    BY <2>1 DEF DialClaim, MarkCalling, SameRequests, IInv, TypeOK, Entry
  <2> QED
    BY <1>1, <2>1 DEF Dialler, DialCheck, DialGiveUp, DialSend, DialReply, SameRequests
<1>2. ASSUME NEW r \in Callbacks, CancelCallback(r) PROVE SameRequests
  BY <1>2 DEF CancelCallback, SameRequests, IInv, TypeOK, Entry
<1>3. ASSUME NEW c \in Campaigns, CreateCampaign(c) PROVE SameRequests
  BY <1>3, ConstantsAssumption DEF CreateCampaign, SameRequests
<1>4. CASE HandleEvent /\ ~ AddCallbackRequest(Head(wire))
  <2> DEFINE e == Head(wire)
  <2>1. ApplyOriginateResponse(e) \/ ApplyDialResult(e)
    BY <1>4 DEF HandleEvent
  <2> HIDE DEF e
  <2>2. CASE ApplyOriginateResponse(e)
    <3>1. CASE catalog' = catalog
      BY <3>1 DEF SameRequests
    <3>2. ASSUME NEW r \in Records, NEW s, catalog' = [catalog EXCEPT ![r].response = s]
          PROVE  SameRequests
      BY <3>2 DEF SameRequests, IInv, TypeOK, Entry
    <3> QED BY <2>2, <3>1, <3>2 DEF ApplyOriginateResponse
  <2>3. CASE ApplyDialResult(e)
    <3>1. CASE catalog' = catalog
      BY <3>1 DEF SameRequests
    <3>2. ASSUME NEW r \in Records, NEW s, catalog' = [catalog EXCEPT ![r].status = s]
          PROVE  SameRequests
      BY <3>2 DEF SameRequests, IInv, TypeOK, Entry
    <3> QED BY <2>3, <3>1, <3>2 DEF ApplyDialResult, MarkResult
  <2> QED BY <2>1, <2>2, <2>3
<1>5. ASSUME NEW r \in Records, TimePasses(r) PROVE SameRequests
  BY <1>5 DEF TimePasses, SameRequests, IInv, TypeOK, Entry
<1>6. CASE QuarantineWrite
  BY <1>6 DEF QuarantineWrite, SameRequests, IInv, TypeOK, Entry
<1>7. CASE UNCHANGED catalog
  BY <1>7 DEF SameRequests
<1> QED
  BY <1>1, <1>2, <1>3, <1>4, <1>5, <1>6, <1>7
     DEF Next, Quarantine, LoseEvent, AsteriskTakes, CallEnds, Report, ConnectionLost, Restart,
         QuarantineRequest, QuarantineCommit, QuarantineDies, vars

LEMMA UniqueStep == IInv /\ RequestsAreUnique /\ [Next]_vars => RequestsAreUnique'
<1> SUFFICES ASSUME IInv, RequestsAreUnique, [Next]_vars PROVE RequestsAreUnique'
  OBVIOUS
<1>1. CASE SameRequests
  BY <1>1 DEF SameRequests, RequestsAreUnique
<1>2. CASE HandleEvent /\ AddCallbackRequest(Head(wire)) /\ ~ SameRequests
  <2> DEFINE e == Head(wire)
  <2>1. PICK r \in Callbacks :
          /\ catalog' = [catalog EXCEPT ![r] = NewEntry(e.tenant, e.source)]
          /\ ~ Known(e)
    BY <1>2 DEF AddCallbackRequest, SameRequests
  <2> HIDE DEF e
  <2>2. /\ catalog'[r].source = e.source /\ catalog'[r].group = e.tenant
        /\ \A q \in Callbacks \ {r} : catalog'[q] = catalog[q]
    BY <2>1 DEF Records, IInv, TypeOK, NewEntry
  <2>3. ASSUME NEW q \in Callbacks, q # r, e.source # None, catalog[q].source = e.source
        PROVE  catalog[q].group # e.tenant
    <3>1. catalog[q].status # "ausente"
      BY <2>3 DEF Records, IInv, RecordOK, Absent
    <3> QED BY <2>1, <2>3, <3>1 DEF Known
  <2> QED BY <2>2, <2>3 DEF RequestsAreUnique
<1> QED BY <1>1, <1>2, RequestsChange

(* However often an event is delivered, one request makes one entry.       *)
THEOREM RequestsUnique == Spec => []RequestsAreUnique
<1>1. Init => RequestsAreUnique
  BY DEF Init, RequestsAreUnique, Absent, Records
<1> QED BY <1>1, UniqueStep, InvariantHolds, PTL DEF Spec

-----------------------------------------------------------------------------
(* What the customers see.                                                 *)

(* A line changes only when a call to it starts to ring or ends.           *)
LEMMA LineIsCalls ==
  ASSUME NEW r \in Records,
         \A a \in Attempts : \A s \in {"ringing", "answered"} :
           (owner'[a] = r /\ call'[a] = s) <=> (owner[a] = r /\ call[a] = s)
  PROVE  LineOf(r)' = LineOf(r)
  BY DEF LineOf

(* While an attempt is on its way, the entry's other attempts are over.    *)
LEMMA OneCall ==
  ASSUME IInv, NEW a \in Attempts, call[a] \in {"sent", "ringing"}
  PROVE  /\ owner[a] \in Records /\ catalog[owner[a]].attempt = a
         /\ \A b \in Attempts : owner[b] = owner[a] /\ b # a => call[b] = "failed"
<1>1. owner[a] \in Records
  BY DEF IInv, TypeOK, TokensAreFresh
<1>2. catalog[owner[a]].attempt = a
  BY <1>1, NoneIsNobody DEF IInv, AttemptsAreFenced
<1> QED
  BY <1>1, <1>2, NoneIsNobody DEF IInv, AttemptsAreFenced

LEMMA QuietStep ==
  ASSUME UNCHANGED <<call, rings, owner>>
  PROVE  UNCHANGED Outreach!vars
<1>1. \A r \in Records : LineOf(r)' = LineOf(r)
  BY LineIsCalls
<1> QED BY <1>1 DEF Outreach!vars

LEMMA ClaimIsQuiet ==
  ASSUME IInv, NEW t \in Threads, DialClaim(t) \/ DialSend(t)
  PROVE  UNCHANGED Outreach!vars
<1>1. rings' = rings
  BY DEF DialClaim, DialSend, asterisk
<1>2. ASSUME NEW r \in Records PROVE LineOf(r)' = LineOf(r)
  <2>1. CASE DialClaim(t)
    <3>1. PICK a \in Attempts : owner[a] = None /\ \E q \in Records : owner' = [owner EXCEPT ![a] = q]
      BY <2>1 DEF DialClaim
    <3>2. call[a] = "none" /\ call' = call /\ \A b \in Attempts : b # a => owner'[b] = owner[b]
      BY <2>1, <3>1 DEF DialClaim, asterisk, IInv, TokensAreFresh, TypeOK
    <3> QED BY <3>2, LineIsCalls
  <2>2. CASE DialSend(t)
    <3>1. http[t].attempt \in Attempts /\ call[http[t].attempt] = "none"
      BY <2>2, HttpFields DEF DialSend, IInv, ThreadOK, TypeOK
    <3>2. /\ owner' = owner /\ call'[http[t].attempt] = "sent"
          /\ \A b \in Attempts : b # http[t].attempt => call'[b] = call[b]
      BY <2>2, <3>1 DEF DialSend, IInv, TypeOK
    <3> QED BY <3>1, <3>2, LineIsCalls
  <2> QED BY <2>1, <2>2
<1> QED BY <1>1, <1>2 DEF Outreach!vars

LEMMA CallRings ==
  ASSUME IInv, NEW a \in Attempts, AsteriskTakes(a)
  PROVE  [Outreach!Next]_(Outreach!vars)
<1> PICK r \in Records : r = owner[a]
  BY OneCall DEF AsteriskTakes
<1>1. /\ call[a] = "sent" /\ owner' = owner
      /\ \A b \in Attempts : b # a => call'[b] = call[b]
      /\ \/ call'[a] = "refused" /\ rings' = rings
         \/ call'[a] = "ringing" /\ rings' = [rings EXCEPT ![r] = @ + 1]
  BY DEF AsteriskTakes, IInv, TypeOK
<1>2. /\ r \in Records /\ catalog[r].attempt = a
      /\ \A b \in Attempts : owner[b] = r /\ b # a => call[b] = "failed"
  BY <1>1, OneCall
<1>3. \A q \in Records : q # r => LineOf(q)' = LineOf(q)
  BY <1>1, LineIsCalls
<1>4. CASE call'[a] = "refused" /\ rings' = rings
  <2>1. \A q \in Records : LineOf(q)' = LineOf(q)
    BY <1>1, <1>2, <1>3, <1>4, LineIsCalls
  <2> QED BY <2>1, <1>4 DEF Outreach!vars
<1>5. CASE call'[a] = "ringing" /\ rings' = [rings EXCEPT ![r] = @ + 1]
  <2>1. LineOf(r) = "idle" /\ LineOf(r)' = "ringing"
    BY <1>1, <1>2, <1>5 DEF LineOf
  <2>2. rings[r] < MaxAttempts[r]
    <3>1. RecordOK(r) /\ rings[r] \in Nat /\ catalog[r].attempts \in Nat /\ MaxAttempts[r] \in Nat
      BY <1>2, EntryFields, MaxAttemptsType DEF IInv
    <3> QED BY <3>1, <1>1, <1>2, NoneIsNobody DEF RecordOK
  <2>3. [q \in Records |-> LineOf(q)]' = [[q \in Records |-> LineOf(q)] EXCEPT ![r] = "ringing"]
    BY <2>1, <1>2, <1>3
  <2>4. Outreach!Ring(r)
    BY <2>1, <2>2, <2>3, <1>2, <1>5 DEF Outreach!Ring
  <2> QED BY <2>4, <1>2 DEF Outreach!Next
<1> QED BY <1>1, <1>4, <1>5

LEMMA CallStops ==
  ASSUME IInv, NEW a \in Attempts, CallEnds(a)
  PROVE  [Outreach!Next]_(Outreach!vars)
<1> PICK r \in Records : r = owner[a]
  BY OneCall DEF CallEnds
<1>1. /\ call[a] = "ringing" /\ owner' = owner /\ rings' = rings
      /\ \A b \in Attempts : b # a => call'[b] = call[b]
      /\ call'[a] \in {"answered", "failed"}
  BY DEF CallEnds, IInv, TypeOK
<1>2. /\ r \in Records
      /\ \A b \in Attempts : owner[b] = r /\ b # a => call[b] = "failed"
  BY <1>1, OneCall
<1>3. \A q \in Records : q # r => LineOf(q)' = LineOf(q)
  BY <1>1, LineIsCalls
<1>4. LineOf(r) = "ringing"
  BY <1>1 DEF LineOf
<1>5. LineOf(r)' = IF call'[a] = "answered" THEN "talked" ELSE "idle"
  BY <1>1, <1>2 DEF LineOf
<1>6. [q \in Records |-> LineOf(q)]' = [[q \in Records |-> LineOf(q)] EXCEPT ![r] = LineOf(r)']
  BY <1>2, <1>3
<1>7. Outreach!Miss(r) \/ Outreach!PickUp(r)
  BY <1>1, <1>2, <1>4, <1>5, <1>6 DEF Outreach!Miss, Outreach!PickUp
<1> QED BY <1>2, <1>7 DEF Outreach!Next

LEMMA OutreachStep == IInv /\ [Next]_vars => [Outreach!Next]_(Outreach!vars)
<1> SUFFICES ASSUME IInv, [Next]_vars PROVE [Outreach!Next]_(Outreach!vars)
  OBVIOUS
<1>1. ASSUME NEW t \in Threads, DialClaim(t) \/ DialSend(t)
      PROVE  [Outreach!Next]_(Outreach!vars)
  BY <1>1, ClaimIsQuiet
<1>2. ASSUME NEW a \in Attempts, AsteriskTakes(a) \/ CallEnds(a)
      PROVE  [Outreach!Next]_(Outreach!vars)
  BY <1>2, CallRings, CallStops
<1>3. CASE UNCHANGED <<call, rings, owner>>
  BY <1>3, QuietStep
<1> QED
  BY <1>1, <1>2, <1>3
     DEF Next, Dialler, DialCheck, DialGiveUp, DialReply, CancelCallback, CreateCampaign,
         HandleEvent, LoseEvent, Report, ConnectionLost, Restart, TimePasses, Quarantine,
         QuarantineRequest, QuarantineWrite, QuarantineCommit, QuarantineDies, vars,
         asterisk

(* Whatever queue-api loses, crashes on or races with, a customer's phone  *)
(* rings MAX_ATTEMPTS times at most, on one line at a time, and never      *)
(* again after the customer picked up.                                     *)
THEOREM ImplementsOutreach == Spec => OutreachSpec
<1>1. Init => Outreach!Init
  BY DEF Init, Outreach!Init, LineOf
<1> QED BY <1>1, InvariantHolds, OutreachStep, PTL DEF Spec, OutreachSpec, Outreach!Spec
===============================================================================
