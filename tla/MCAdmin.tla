------------------------------- MODULE MCAdmin -------------------------------
(***************************************************************************)
(* The three parts of admin-api share no state, so a behaviour exercises   *)
(* one of those that Parts names.                                          *)
(***************************************************************************)
EXTENDS AdminPublication, AdminUsers, AdminPolicies

CONSTANTS t1, t3, e1, e2, n1, n2, d1, u1, u2, k1, k2, Parts

VARIABLE part
MCVars == <<vars, userVars, policyVars, part>>

MCOwnerOf == [n \in Names |-> None]
MCPlan == <<[section |-> "globals"], [section |-> "from-tdm-gateway"]>>
Ask(kind, name, number, tenant) ==
  [kind |-> kind, name |-> name, number |-> number, tenant |-> tenant, did |-> None]
Wizard(kind, tenant, did) ==
  [kind |-> kind, name |-> None, number |-> None, tenant |-> tenant, did |-> did]
MCRequests == {Ask("create", e1, n1, t1), Ask("create", e2, n2, t1), Ask("create", e1, n1, t3),
               Ask("update", e1, n2, t1), Ask("delete", e1, None, None),
               Wizard("provision", t3, d1), Wizard("remove", t3, None)}

UserAsk(kind, token, user, role) == [kind |-> kind, token |-> token, user |-> user, role |-> role]
MCUserRequests ==
  {UserAsk("login", "none", u, "admin") : u \in People} \cup
  {UserAsk(kind, k, u1, "admin") : kind \in AnySession \cup {"verify"}, k \in Tokens} \cup
  {UserAsk("add", k, u2, r) : k \in Tokens, r \in Roles} \cup
  {UserAsk("update", k, u, r) : k \in Tokens, u \in People, r \in Roles} \cup
  {UserAsk("delete", k, u, "admin") : k \in Tokens, u \in People}

UserRow(u, role, totp) == [user |-> u, role |-> role, totp |-> totp]
MCInstalled == {{}, {UserRow(u1, "admin", "on"), UserRow(u2, "admin", "off")}}

MCPolicyRequests ==
  {BlockNumber(t1, n1), BlockNumber(t1, n2), BlockNumber(t3, n1), UnblockNumber(t1, n1),
   ListBlocked(t1), SetVip(t1, n1, 1), RemoveVip(t1, n1), ListVips(t1),
   SetHoliday(t1, TRUE), GetHoliday(t1),
   SetOverflow(t1, 700), SetOverflow(t1, 30), GetOverflow(t1),
   SetPin(t1, <<1, 2, 3, 4>>), SetPin(t1, <<1, 3, 2, 4>>), DisableMonitoring(t1),
   MonitoringConfigured(t1), SetInternational(t1, TRUE), SetInternational(t1, FALSE)}

Symmetry == Permutations(Threads) \cup Permutations(Tokens)

\* After a fault the requests come one at a time.
InTurn == faults > 0 /\ asked' # asked => Busy = {}

MCInit ==
  /\ Init /\ UsersInit /\ PoliciesInit /\ part \in Parts
  /\ part # "users" => users = Whole({})
MCNext ==
  /\ UNCHANGED part
  /\ \/ part = "publication" /\ Next /\ InTurn /\ UNCHANGED <<userVars, policyVars>>
     \/ part = "users" /\ UsersNext /\ UNCHANGED <<vars, policyVars>>
     \/ part = "policies" /\ PoliciesNext /\ UNCHANGED <<vars, userVars>>
MCSpec == MCInit /\ [][MCNext]_MCVars
==============================================================================
