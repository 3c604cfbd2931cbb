-------------------------------- MODULE MCDesk --------------------------------
(***************************************************************************)
(* One process and its one reader, but Asterisk and the users exercise one *)
(* part of it in a behaviour: the state spaces add up.                     *)
(***************************************************************************)
EXTENDS QueueDesk, MCReports, RecordingAccess

CONSTANTS c1, c2, c3, ch1, ch2, q1, q2, t1, t2, o1, a1, a2, h1, h2, k1, k2, l1, l2, w1, w2, r1, r2, p1, p2, v1, Parts

VARIABLE part
MCVars == <<deskVars, panels, file, accessVars, part>>

MCChannelOf == c1 :> ch1 @@ c2 :> ch1 @@ c3 :> ch2
MCCompanyOf == q1 :> t1 @@ q2 :> t2
MCOperatorCompany == o1 :> t1
MCAllowed == {<<q1, a1>>, <<q1, a2>>, <<q2, a1>>}
MCHints == {<<"t1-hints", h1>>, <<"t1-hints", h2>>}
MCSpeakerCompany == a1 :> t1 @@ a2 :> t2
MCQualityLimits == [jitter |-> 30, loss |-> 3]
MCQualityReports == {[jitter |-> 30], [loss |-> 4, jitter |-> 0]}

MCRecorded == w1 :> 1 @@ w2 :> 2
MCCallKey == w1 :> "early" @@ w2 :> "late"
MCTag == w1 :> NoTag @@ w2 :> t1
MCRow(a, t, ref) == [name |-> a, tenant |-> t, owner |-> IF t = t1 THEN a1 ELSE a2, ref |-> ref]
MCReviewedRows == {MCRow(w1, t2, "r1"), MCRow(w2, t2, "r1")}
MCCdr(key, t, context, x1, ref) ==
  [key |-> key, account |-> t, context |-> context, owner |-> x1, ref |-> ref, answered |-> TRUE]
MCEvidence == {MCCdr("early", t1, t1, a1, "r1"), MCCdr("late", t1, t1, a1, "r2"),
               MCCdr("late", t2, t2, a2, "r3"), MCCdr("late", t2, t1, a1, "r4")}
MCGrants == r1 :> [tenant |-> t1, role |-> "supervisor", owner |-> NoTag]
            @@ r2 :> [tenant |-> t1, role |-> "agent", owner |-> a2]

\* Readings of the clock, and restarts, and repeated events, that make little difference to a part are left out.
ClockMatters ==
  CASE part \in {"reuse", "presence"} -> FALSE
    [] part \in {"limits", "records"} -> now' > now
    [] part = "sla" -> now' # 0
    [] OTHER -> TRUE

Again == IF part = "limits" THEN {FALSE} ELSE BOOLEAN

\* Of names that mean the same, one is used first.
InTurn(c, d) == place'[d] # "new" => place'[c] # "new"
FirstLeg == emitted = 0 => \A i \in DOMAIN wire' : wire'[i].leg = l1
FirstTool == tool[p2].pc = "idle" /\ tool'[p2].pc # "idle" => tool[p1].pc # "idle"
FirstId == offers.told = 0 => \A i \in DOMAIN wire' : wire'[i].id # k2

\* One call on each of two names; nobody hangs up after a queue.
TwoWait ==
  /\ place'[c2] = "new" /\ InTurn(c1, c3)
  /\ \A c \in Calls : place[c] = "outside" => place'[c] # "gone"

\* Of one of the queues only calls answered in time, with their id, are told.
OfOneQueue ==
  offers' # offers => \A i \in DOMAIN wire' : wire'[i].queue = q2 => Met(wire'[i]) /\ wire'[i].id # NoId

MCInit == DeskInit /\ part \in Parts /\ panels = None /\ file = [kind |-> "none", rows |-> <<>>, reports |-> <<>>] /\ AccessInit
MCEvents ==
  /\ part \notin {"cockpit", "reports", "access"} /\ UNCHANGED <<part, panels, file, accessVars>>
  /\ \/ (Restart /\ part # "limits") \/ (Clock /\ ClockMatters) \/ \E i \in DOMAIN wire, again \in Again : HandleAmiEvent(i, again)
     \* Two calls in turn on one channel name, and the pickups; or two calls at once.
     \/ part = "reuse" /\ OfMirror /\ place'[c3] = "new" /\ InTurn(c1, c2)
     \/ part = "limits" /\ OfMirror /\ TwoWait /\ desk' = desk
     \/ part = "sla" /\ OfSla /\ Len(wire') <= 1 /\ OfOneQueue /\ FirstId
     \/ part = "agents" /\ OfBoard
     \/ part = "presence" /\ OfPresence
     \/ part = "records" /\ emitted < 2 /\ OfCdrs /\ FirstLeg
     \/ part = "calls" /\ OfCalls
\* The panels and the reports are functions of what they are given.
MCCockpit == /\ part = "cockpit" /\ panels = None /\ \E s \in Snapshots : TakeSnapshot(s)
             /\ UNCHANGED <<deskVars, file, accessVars, part>>
MCReport == /\ part = "reports" /\ file.kind = "none"
            /\ \E kind \in DOMAIN Files : \E rows \in Files[kind] : ReadFile(kind, rows)
            /\ UNCHANGED <<deskVars, panels, accessVars, part>>
\* The recordings share no state with the rest.  Files come and go, and a token expires,
\* while no tool is at work; one file grows old, one token is for queues too, and what is
\* asked for is in the catalog.
MCAccess == /\ part = "access" /\ AccessStep /\ FirstTool /\ UNCHANGED <<deskVars, panels, file, part>>
            /\ (\A p \in Tools : tool[p].pc = "idle") \/ UNCHANGED <<folder, expired>>
            /\ \A p \in Tools : tool'[p].file = "queue" => tool'[p].token \in {r2, Nobody}
            /\ expired' \subseteq {r2} /\ folder'[w2] # "due"
            /\ \A v \in Viewers : viewer'[v].pc = "identified" =>
                 viewer'[v].name \in DOMAIN viewer'[v].data.recordings
MCNext == MCEvents \/ MCCockpit \/ MCReport \/ MCAccess
MCSpec == MCInit /\ [][MCNext]_MCVars
==============================================================================
