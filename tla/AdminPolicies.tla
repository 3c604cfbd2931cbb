----------------------------- MODULE AdminPolicies -----------------------------
(***************************************************************************)
(* admin-api: the policies the dialplan reads from AstDB (blocked numbers, *)
(* VIPs, holiday mode, overflow time, monitoring PIN, international calls).*)
(* A request opens an AMI connection of its own, sends one action, reads   *)
(* frames until it has the reply, or the whole tree, and closes it.        *)
(***************************************************************************)
EXTENDS Naturals, Sequences, FiniteSets, SequencesExt

CONSTANTS PolicyThreads,
          KnownCompanies,     \* the tenants validate_tenant accepts
          PolicyRequests,     \* of the operators below; a value is a sequence of
                              \* numbers, such as the digits of a PIN
          MinSeconds, MaxSeconds,
          MaxEventsPerAction, \* frames read before a reply, which is one of them
          MaxUnrelated,       \* frames of others in a listing
          MaxEntries,         \* kept of one listing
          MaxFrames,          \* of one listing, of any kind
          MaxPolicyRequests, MaxPolicyFaults, MaxStrayFrames

VARIABLES astdb,    \* <<family, tenant>> and key to value
          pt,       \* the threads and what their connections still carry
          served, policyFaults, strays
policyVars == <<astdb, pt, served, policyFaults, strays>>

NoPolicy == [action |-> "none", family |-> "none", tenant |-> "none", key |-> "none",
             val |-> <<>>, accepted |-> FALSE]
\* ok: the answer is one of success; said: the reply was; accepted and tree:
\* whether Asterisk took the action, and the family it found.
Silent == [pc |-> "idle", op |-> NoPolicy, wire |-> <<>>, got |-> {}, frames |-> 0,
           unrelated |-> 0, ok |-> FALSE, said |-> FALSE, accepted |-> FALSE, tree |-> {}]
PoliciesInit == /\ astdb = {} /\ served = 0 /\ policyFaults = 0 /\ strays = 0
                /\ pt = [t \in PolicyThreads |-> Silent]

----------------------------------------------------------------------------
(* Validation, in front of the connection.                                 *)

OverflowAccepted(seconds) == seconds \in MinSeconds .. MaxSeconds

\* A PIN is a sequence of digits.
Ascending(pin) == \A i \in 1 .. Len(pin) - 1 : pin[i + 1] = pin[i] + 1
Descending(pin) == \A i \in 1 .. Len(pin) - 1 : pin[i] = pin[i + 1] + 1
PredictablePin(pin) ==
  \/ \A i, j \in DOMAIN pin : pin[i] = pin[j]
  \/ pin \in {<<1, 2, 3, 4, 5, 6>>, <<6, 5, 4, 3, 2, 1>>}
  \/ Len(pin) <= 5 /\ (Ascending(pin) \/ Descending(pin))
PinAccepted(pin) == Len(pin) \in 4 .. 10 /\ ~PredictablePin(pin)

Valid(op) == op.tenant \in KnownCompanies /\ op.accepted

----------------------------------------------------------------------------
(* The requests: the action each sends, and whether its values pass.       *)

Policy(action, family, t, key, val) ==
  [action |-> action, family |-> family, tenant |-> t, key |-> key, val |-> val, accepted |-> TRUE]
Toggle(on, family, t, key) ==
  Policy(IF on THEN "put" ELSE "del", family, t, key, IF on THEN <<1>> ELSE <<>>)

BlockNumber(t, n) == Policy("put", "blocklist", t, n, <<1>>)
UnblockNumber(t, n) == Policy("del", "blocklist", t, n, <<>>)
ListBlocked(t) == Policy("tree", "blocklist", t, "any", <<>>)
SetVip(t, n, extension) == Policy("put", "vip", t, n, <<extension>>)
RemoveVip(t, n) == Policy("del", "vip", t, n, <<>>)
ListVips(t) == Policy("tree", "vip", t, "any", <<>>)
SetHoliday(t, on) == Toggle(on, "config", t, "holiday")
GetHoliday(t) == Policy("get", "config", t, "holiday", <<>>)
SetOverflow(t, seconds) ==
  [Policy("put", "config", t, "overflow", <<seconds>>) EXCEPT !.accepted = OverflowAccepted(seconds)]
GetOverflow(t) == Policy("tree", "config", t, "overflow", <<>>)
SetPin(t, pin) == [Policy("put", "pin", t, "pin", pin) EXCEPT !.accepted = PinAccepted(pin)]
DisableMonitoring(t) == Policy("del", "pin", t, "pin", <<>>)
MonitoringConfigured(t) == Policy("get", "pin", t, "pin", <<>>)
SetInternational(t, blocked) == Toggle(blocked, "international", t, "all")

----------------------------------------------------------------------------
(* AstDB, as the code uses it.  A tree may hold entries of a family whose  *)
(* name begins like the one asked for.                                     *)

Cell(op) == [family |-> op.family, tenant |-> op.tenant, key |-> op.key]
Entry(op) == {e \in astdb : e.cell = Cell(op)}
OfFamily(entries, op) == {e \in entries : e.cell.family = op.family /\ e.cell.tenant = op.tenant}
Stored(op) == CASE op.action = "put" -> (astdb \ Entry(op)) \cup {[cell |-> Cell(op), val |-> op.val]}
                [] op.action = "del" -> astdb \ Entry(op)
                [] OTHER -> astdb
Acceptable(op) == op.action \in {"put", "tree"} \/ Entry(op) # {}

\* A frame is ours when it has the ActionID of the request.
Reply(own, good) == [frame |-> "reply", own |-> own, good |-> good]
Listed(own, e) == [frame |-> "entry", own |-> own, entry |-> e]
Complete(own) == [frame |-> "complete", own |-> own]
Event(own) == [frame |-> "event", own |-> own]

\* The answer of Asterisk, and what else may come on the connection:
\* notifications and frames that answer another action.
Frames(op, good) ==
  IF op.action = "tree" /\ good
  THEN <<Reply(TRUE, TRUE)>> \o SetToSeq({Listed(TRUE, e) : e \in {e \in astdb : e.cell.family = op.family}})
                            \o <<Complete(TRUE)>>
  ELSE <<Reply(TRUE, good)>>
Strays(op) == {Event(TRUE), Event(FALSE), Reply(FALSE, TRUE), Complete(FALSE),
               Listed(FALSE, [cell |-> Cell(op), val |-> <<>>])}

----------------------------------------------------------------------------
PSet(t, r) == pt' = [pt EXCEPT ![t] = r]
PFault == policyFaults < MaxPolicyFaults /\ policyFaults' = policyFaults + 1
PFailed(r) == [r EXCEPT !.pc = "answer", !.ok = FALSE]

Demand(t) ==
  \E op \in PolicyRequests :
    /\ pt[t].pc = "idle" /\ served < MaxPolicyRequests /\ Valid(op)
    /\ served' = served + 1
    /\ PSet(t, [Silent EXCEPT !.pc = "send", !.op = op])
    /\ UNCHANGED <<astdb, policyFaults, strays>>

\* Connection, login and the action; Asterisk may refuse it.
Send(t) ==
  LET op == pt[t].op
      sent(good) == [pt[t] EXCEPT !.pc = "reply", !.wire = Frames(op, good),
                                  !.accepted = good, !.tree = OfFamily(astdb, op)]
  IN  /\ pt[t].pc = "send"
      /\ \/ /\ Acceptable(op) /\ astdb' = Stored(op) /\ PSet(t, sent(TRUE))
            /\ UNCHANGED policyFaults
         \/ /\ IF Acceptable(op) THEN PFault ELSE UNCHANGED policyFaults
            /\ UNCHANGED astdb /\ PSet(t, sent(FALSE))
      /\ UNCHANGED <<served, strays>>

\* The connection fails: nothing sent, or sent and the answer lost.
Cut(t) ==
  /\ pt[t].pc \in {"send", "reply", "tree"} /\ PFault /\ PSet(t, PFailed(pt[t]))
  /\ UNCHANGED <<astdb, served, strays>>

\* The ActionID of _send_action and _read_db_tree.
\* Mutant: any reply and any entry will do.
OursOrNot(f) == TRUE

Ours(f) == f.own
Stray == strays < MaxStrayFrames /\ strays' = strays + 1

\* What a handler makes of the reply: three kinds look at it, the reads answer
\* by it, the others answer success whatever it says.
Confirmed(op) == \/ op.family = "international"
                 \/ op.action = "put" /\ op.family \in {"blocklist", "vip"}
Judged(op, good) == Confirmed(op) => good

\* _send_action: events are skipped, up to a number of frames; a reply to
\* another action ends the request.
AfterReply(r, f, rest) ==
  CASE f.frame # "reply" /\ r.frames + 1 < MaxEventsPerAction ->
         [r EXCEPT !.wire = rest, !.frames = @ + 1]
    [] f.frame = "reply" /\ Ours(f) /\ r.op.action = "tree" /\ f.good ->
         [r EXCEPT !.pc = "tree", !.wire = rest, !.frames = 0]
    [] f.frame = "reply" /\ Ours(f) /\ ~(r.op.action = "tree" /\ f.good) ->
         [r EXCEPT !.pc = "answer", !.wire = <<>>, !.said = f.good,
                   !.ok = r.op.action # "tree" /\ Judged(r.op, f.good)]
    [] OTHER -> PFailed(r)
ReadReply(t) ==
  /\ pt[t].pc = "reply"
  /\ \/ PSet(t, AfterReply(pt[t], Head(pt[t].wire), Tail(pt[t].wire))) /\ UNCHANGED strays
     \/ Stray /\ \E f \in Strays(pt[t].op) : PSet(t, AfterReply(pt[t], f, pt[t].wire))
  /\ UNCHANGED <<astdb, served, policyFaults>>

\* _read_db_tree: entries of the family, until the event that ends the tree;
\* frames of others are skipped, up to a number of them.
Kept(op, e) == e.cell.family = op.family /\ e.cell.tenant = op.tenant
GoesOn(r, rest) ==
  IF r.frames + 1 < MaxFrames THEN [r EXCEPT !.wire = rest, !.frames = @ + 1] ELSE PFailed(r)
AfterFrame(r, f, rest) ==
  CASE ~Ours(f) /\ r.unrelated < MaxUnrelated ->
         GoesOn([r EXCEPT !.unrelated = @ + 1], rest)
    [] Ours(f) /\ f.frame = "complete" ->
         [r EXCEPT !.pc = "answer", !.wire = <<>>, !.ok = TRUE]
    [] Ours(f) /\ f.frame = "entry" /\ Cardinality(r.got) < MaxEntries ->
         GoesOn([r EXCEPT !.got = @ \cup {e \in {f.entry} : Kept(r.op, e)}], rest)
    [] OTHER -> PFailed(r)
ReadTree(t) ==
  /\ pt[t].pc = "tree"
  /\ \/ PSet(t, AfterFrame(pt[t], Head(pt[t].wire), Tail(pt[t].wire))) /\ UNCHANGED strays
     \/ Stray /\ \E f \in Strays(pt[t].op) : PSet(t, AfterFrame(pt[t], f, pt[t].wire))
  /\ UNCHANGED <<astdb, served, policyFaults>>

Close(t) ==
  /\ pt[t].pc = "answer" /\ PSet(t, Silent)
  /\ UNCHANGED <<astdb, served, policyFaults, strays>>

PoliciesNext == \E t \in PolicyThreads :
  Demand(t) \/ Send(t) \/ Cut(t) \/ ReadReply(t) \/ ReadTree(t) \/ Close(t)
PoliciesSpec == PoliciesInit /\ [][PoliciesNext]_policyVars

----------------------------------------------------------------------------
\* What a request is told of AstDB is so.  A listing is the family as it was
\* when Asterisk took it: notifications and answers to other actions that come
\* in between, entries of a family with a similar name and changes by other
\* requests neither add an entry nor take one away.  A holiday or a PIN answered
\* as configured was there when it was asked for.  And a number answered as
\* blocked, a VIP as registered and an international policy as set were accepted.
\* The other writes (holiday, overflow, PIN, disable_monitoring, unblock and
\* remove_vip: server.py:682, 704, 731, 1045, 1094, 1115) do not look at the
\* reply: they answer 200 when Asterisk refused, and their 200 says nothing.
ConfirmedAnswersAreTrue ==
  \A t \in PolicyThreads : pt[t].pc = "answer" /\ pt[t].ok =>
    /\ pt[t].op.action = "tree" => pt[t].got = pt[t].tree
    /\ pt[t].op.action = "get" /\ pt[t].said => \E e \in pt[t].tree : e.cell = Cell(pt[t].op)
    /\ Confirmed(pt[t].op) => pt[t].accepted
=============================================================================
