------------------------- MODULE RecordingAccessProofs -------------------------
(***************************************************************************)
(* What the tools of the policy files confirm stays, and nobody hears a    *)
(* recording of another company, for any number of tools, tokens, requests *)
(* and recordings.                                                         *)
(***************************************************************************)
EXTENDS RecordingAccess, FiniteSetTheorems, TLAPS

----------------------------------------------------------------------------
(* Types.                                                                  *)

\* The rows that CDRs and reviewed manifests may hold.
Known(field, cdrField) ==
  {e[cdrField] : e \in Evidence} \cup {r[field] : r \in ReviewedRows}
Manifest == [name : Audio, tenant : Known("tenant", "account"),
             owner : Known("owner", "owner"), ref : Known("ref", "ref")]
Entry == [tenant : Known("tenant", "account"), owner : Known("owner", "owner"),
          ref : Known("ref", "ref")]
Catalog == UNION {[S -> Entry] : S \in SUBSET Audio}
Policy == [credentials : SUBSET Tokens, recordings : Catalog, exists : BOOLEAN]

Ops == {"init", "issue", "revoke", "classify"}
Tool == [pc : {"idle", "locked", "loaded"}, file : PolicyFiles, op : Ops,
         token : Tokens \cup {Nobody}, rows : SUBSET Manifest, data : Policy]
Viewer == [pc : {"idle", "identified", "served"}, token : Tokens \cup {Nobody},
           name : Audio \cup {Nobody}, data : Policy, revoked : SUBSET (PolicyFiles \X Tokens)]
Decided == [runs : Nat, made : SUBSET Tokens, issued : SUBSET (PolicyFiles \X Tokens),
            revoking : SUBSET Tokens, revoked : SUBSET (PolicyFiles \X Tokens), classified : Catalog]

AccessTypeOK ==
  /\ folder \in [Audio -> {"absent", "kept", "due"}] /\ expired \subseteq Tokens
  /\ policy \in [PolicyFiles -> Policy]
  /\ locked \in [PolicyFiles -> Tools \cup {Nobody}]
  /\ tool \in [Tools -> Tool] /\ viewer \in [Viewers -> Viewer] /\ decided \in Decided

\* A catalog may be empty.
LEMMA EmptyCatalog == <<>> \in Catalog
<1>1. <<>> \in [{} -> Entry]
  OBVIOUS
<1> QED BY <1>1 DEF Catalog

\* A catalog is a function from some audio files to entries.
LEMMA Catalogs ==
  ASSUME NEW c \in Catalog
  PROVE  DOMAIN c \subseteq Audio /\ c \in [DOMAIN c -> Entry] /\ \A a \in DOMAIN c : c[a] \in Entry
<1>1. PICK S \in SUBSET Audio : c \in [S -> Entry]
  BY DEF Catalog
<1> QED BY <1>1

\* One catalog over another.
LEMMA Overlay ==
  ASSUME NEW c \in Catalog, NEW d \in Catalog
  PROVE  /\ Overlaid(c, d) \in Catalog /\ DOMAIN Overlaid(c, d) = DOMAIN c \cup DOMAIN d
         /\ \A a \in DOMAIN Overlaid(c, d) : Overlaid(c, d)[a] = IF a \in DOMAIN c THEN c[a] ELSE d[a]
<1>1. /\ DOMAIN Overlaid(c, d) = DOMAIN c \cup DOMAIN d
      /\ \A a \in DOMAIN Overlaid(c, d) : Overlaid(c, d)[a] = IF a \in DOMAIN c THEN c[a] ELSE d[a]
  BY DEF Overlaid
<1>2. Overlaid(c, d) \in [DOMAIN c \cup DOMAIN d -> Entry]
  <2>1. \A a \in DOMAIN c \cup DOMAIN d : (IF a \in DOMAIN c THEN c[a] ELSE d[a]) \in Entry
    BY Catalogs
  <2> QED BY <2>1 DEF Overlaid
<1>3. DOMAIN c \cup DOMAIN d \in SUBSET Audio
  BY Catalogs
<1> QED BY <1>1, <1>2, <1>3 DEF Catalog

\* A row of a manifest, as an entry.
LEMMA Entries ==
  ASSUME NEW r \in Manifest
  PROVE  EntryOf(r) \in Entry /\ EntryOf(r).ref = r.ref /\ EntryOf(r).tenant = r.tenant
  BY DEF Manifest, Entry, EntryOf

\* What the CDRs propose is a manifest.
LEMMA CandidatesTyped ==
  ASSUME NEW events \in SUBSET Evidence
  PROVE  Candidates(events) \subseteq Manifest
  BY DEF Candidates, Manifest, Known

\* So is a reviewed row.
LEMMA ReviewedTyped ==
  ASSUME NEW r \in ReviewedRows
  PROVE  {r} \subseteq Manifest
<1>1. r = [name |-> r.name, tenant |-> r.tenant, owner |-> r.owner, ref |-> r.ref] /\ r.name \in Audio
  BY AccessAssumption
<1>2. /\ r.tenant \in Known("tenant", "account") /\ r.owner \in Known("owner", "owner")
      /\ r.ref \in Known("ref", "ref")
  BY DEF Known
<1>3. [name |-> r.name, tenant |-> r.tenant, owner |-> r.owner, ref |-> r.ref] \in Manifest
  BY <1>1, <1>2 DEF Manifest
<1> QED BY <1>1, <1>3

\* What Classifiable says of the catalog; the files may come and go.
Compatible(data, rows) ==
  \A r \in rows :
    /\ \A a \in DOMAIN data.recordings :
         data.recordings[a].ref = r.ref => data.recordings[a].tenant = r.tenant
    /\ r.name \in DOMAIN data.recordings => data.recordings[r.name] = EntryOf(r)

\* A classification adds the rows that are new, and only them.
LEMMA ClassifiedIs ==
  ASSUME NEW data \in Policy, NEW rows \in SUBSET Manifest, ValidManifest(rows),
         Compatible(data, rows)
  PROVE  LET c == Classified(data, rows).recordings IN
         /\ Classified(data, rows) = [data EXCEPT !.recordings = c] /\ c \in Catalog
         /\ DOMAIN c = DOMAIN data.recordings \cup {r.name : r \in rows}
         /\ \A a \in DOMAIN data.recordings : c[a] = data.recordings[a]
         /\ \A r \in rows : c[r.name] = EntryOf(r)
<1> DEFINE new == [a \in {r.name : r \in rows} |-> EntryOf(CHOOSE r \in rows : r.name = a)]
           old == data.recordings
<1>1. old \in Catalog
  BY DEF Policy
<1>2. \A r \in rows : new[r.name] = EntryOf(r)
  <2>1. \A r \in rows : (CHOOSE s \in rows : s.name = r.name) = r
    BY DEF ValidManifest
  <2> QED BY <2>1
<1>3. DOMAIN new = {r.name : r \in rows}
  OBVIOUS
<1>4. new \in Catalog
  <2>1. {r.name : r \in rows} \subseteq Audio
    BY DEF Manifest
  <2>2. \A a \in {r.name : r \in rows} : new[a] \in Entry
    <3> HIDE DEF new
    <3> QED BY <1>2, Entries
  <2>3. new \in [{r.name : r \in rows} -> Entry]
    BY <2>2
  <2> HIDE DEF new
  <2> QED BY <2>1, <2>3 DEF Catalog
<1>5. Classified(data, rows) = [data EXCEPT !.recordings = Overlaid(new, old)]
  BY DEF Classified
<1>6. [data EXCEPT !.recordings = Overlaid(new, old)].recordings = Overlaid(new, old)
  BY DEF Policy
<1> HIDE DEF new, old
<1>7. /\ Overlaid(new, old) \in Catalog /\ DOMAIN Overlaid(new, old) = DOMAIN new \cup DOMAIN old
      /\ \A a \in DOMAIN Overlaid(new, old) : Overlaid(new, old)[a] = IF a \in DOMAIN new THEN new[a] ELSE old[a]
  BY <1>1, <1>4, Overlay
<1>8. \A a \in DOMAIN old : Overlaid(new, old)[a] = old[a]
  <2> SUFFICES ASSUME NEW a \in DOMAIN old, a \in DOMAIN new PROVE new[a] = old[a]
    BY <1>7
  <2>1. PICK r \in rows : r.name = a
    BY <1>3
  <2> QED BY <1>2, <2>1 DEF Compatible, old
<1>9. \A r \in rows : Overlaid(new, old)[r.name] = EntryOf(r)
  BY <1>2, <1>3, <1>7
<1> QED BY <1>3, <1>5, <1>6, <1>7, <1>8, <1>9 DEF old

----------------------------------------------------------------------------
(* The inductive invariant.                                                *)

\* A tool that holds a lock.
Working(p) == tool[p].pc # "idle"

\* What a tool found when it loaded the file.
Found(r) ==
  /\ r.op = "init" => ~ r.data.exists
  /\ r.op \in {"issue", "revoke"} => r.data.exists
  /\ r.op = "revoke" => r.token \in r.data.credentials
  /\ r.op = "classify" => Compatible(r.data, r.rows)

\* A tool at work holds the lock of its file, which is still as the tool loaded it.
LocksOK ==
  \A p \in Tools :
    /\ Working(p) => locked[tool[p].file] = p
    /\ tool[p].pc = "loaded" => tool[p].data = policy[tool[p].file] /\ Found(tool[p])

\* A token that is being issued is nowhere else yet.
Unissued(p) ==
  /\ tool[p].token \in decided.made
  /\ \A f \in PolicyFiles : /\ tool[p].token \notin policy[f].credentials
                            /\ <<f, tool[p].token>> \notin decided.revoked
  /\ \A q \in Tools \ {p} : Working(q) /\ tool[q].op = "issue" => tool[q].token # tool[p].token

\* What a tool at work was asked for.
RunsOK ==
  \A p \in Tools : Working(p) =>
    /\ tool[p].op = "init" => tool[p].file = "queue"
    /\ tool[p].op = "classify" => tool[p].file = "recordings" /\ ValidManifest(tool[p].rows)
    /\ tool[p].op = "issue" => Unissued(p)
    /\ tool[p].op = "revoke" => tool[p].token \in decided.revoking

\* Tokens in the files, and what was confirmed of them.
TokensOK ==
  /\ \A f \in PolicyFiles : /\ policy[f].credentials \subseteq decided.made
                            /\ ~ policy[f].exists => policy[f].credentials = {}
  /\ \A ft \in decided.revoked : /\ ft[2] \in decided.made
                                 /\ ft[2] \notin policy[ft[1]].credentials
  /\ \A ft \in decided.issued :
       ft[2] \notin decided.revoking => ft[2] \in policy[ft[1]].credentials

\* One catalog holds all that another does.
Extends(c, d) == \A a \in DOMAIN d : a \in DOMAIN c /\ c[a] = d[a]
\* A reference tells of one company.
OneCompany(c) == \A a, b \in DOMAIN c : c[a].ref = c[b].ref => c[a].tenant = c[b].tenant

TheCatalog == policy["recordings"].recordings

\* What was confirmed of the catalog is in it.
CatalogOK == Extends(TheCatalog, decided.classified) /\ OneCompany(TheCatalog)

\* What a request read has not been taken back.
ViewersOK ==
  \A v \in Viewers :
    /\ viewer[v].pc # "idle" => <<"recordings", viewer[v].token>> \notin viewer[v].revoked
    /\ viewer[v].pc = "identified" => Extends(TheCatalog, viewer[v].data.recordings)
    /\ viewer[v].pc = "served" => CanRead(policy["recordings"], viewer[v].token, viewer[v].name)

\* The inductive invariant: the lock makes the file that a tool loaded the one it replaces.
AccessInv == AccessTypeOK /\ LocksOK /\ RunsOK /\ TokensOK /\ CatalogOK /\ ViewersOK

----------------------------------------------------------------------------
(* The initial state, and steps that touch no file of policy.              *)

\* An absent and an empty file are files of policy.
LEMMA NoPolicyTyped == NoPolicy \in Policy /\ EmptyPolicy \in Policy
  BY EmptyCatalog DEF NoPolicy, EmptyPolicy, Policy

\* The invariant holds at first.
LEMMA AccessInitOK == AccessInit => AccessInv
<1> SUFFICES ASSUME AccessInit PROVE AccessInv
  OBVIOUS
<1>1. AccessTypeOK
  <2>1. IdleTool \in Tool
    BY NoPolicyTyped DEF IdleTool, Tool, PolicyFiles, Ops
  <2>2. IdleViewer \in Viewer
    BY NoPolicyTyped DEF IdleViewer, Viewer
  <2>3. decided \in Decided
    BY EmptyCatalog DEF AccessInit, Decided
  <2> QED BY <2>1, <2>2, <2>3, NoPolicyTyped DEF AccessInit, AccessTypeOK
<1>2. LocksOK /\ RunsOK
  BY DEF AccessInit, LocksOK, RunsOK, Working, IdleTool
<1>3. \A f \in PolicyFiles : policy[f].credentials = {} /\ policy[f].recordings = <<>>
  BY DEF AccessInit, NoPolicy, EmptyPolicy
<1>4. TokensOK
  BY <1>3 DEF AccessInit, TokensOK
<1>5. CatalogOK
  BY <1>3 DEF AccessInit, CatalogOK, Extends, OneCompany, TheCatalog, PolicyFiles
<1>6. ViewersOK
  BY DEF AccessInit, ViewersOK, IdleViewer
<1> QED BY <1>1, <1>2, <1>4, <1>5, <1>6 DEF AccessInv

\* Files of audio come and go, and tokens expire.
LEMMA AudioStep ==
  ASSUME AccessInv, AccessTypeOK', UNCHANGED <<policy, locked, tool, viewer, decided>>
  PROVE  AccessInv'
  BY DEF AccessInv, LocksOK, RunsOK, TokensOK, CatalogOK, ViewersOK, Working, Unissued, TheCatalog

\* A request reads the file as it is: no token in it was taken back.
LEMMA AskStep ==
  ASSUME AccessInv, NEW v \in Viewers, NEW token \in Tokens, NEW a \in Audio,
         AskRecording(v, token, a)
  PROVE  AccessInv'
<1> DEFINE r == [pc |-> "identified", token |-> token, name |-> a,
                 data |-> policy["recordings"], revoked |-> decided.revoked]
<1>1. /\ viewer' = [viewer EXCEPT ![v] = r] /\ token \in policy["recordings"].credentials
      /\ UNCHANGED <<folder, policy, locked, tool, expired, decided>>
  BY DEF AskRecording, Identified
<1>2. r \in Viewer
  BY DEF Viewer, AccessInv, AccessTypeOK, Decided, PolicyFiles
<1>3. AccessTypeOK'
  BY <1>1, <1>2 DEF AccessInv, AccessTypeOK
<1>4. LocksOK' /\ RunsOK' /\ TokensOK' /\ CatalogOK'
  BY <1>1 DEF AccessInv, LocksOK, RunsOK, TokensOK, CatalogOK, Working, Unissued, TheCatalog
<1>5. <<"recordings", token>> \notin decided.revoked
  BY <1>1 DEF AccessInv, TokensOK
<1>6. ViewersOK'
  <2>1. viewer'[v] = r /\ \A u \in Viewers \ {v} : viewer'[u] = viewer[u]
    BY <1>1 DEF AccessInv, AccessTypeOK
  <2> QED BY <1>1, <1>5, <2>1 DEF AccessInv, ViewersOK, TheCatalog, Extends
<1> QED BY <1>3, <1>4, <1>6 DEF AccessInv

\* What it read of the catalog is still in the catalog when the audio is opened.
LEMMA ServeStep ==
  ASSUME AccessInv, NEW v \in Viewers, ServeRecording(v)
  PROVE  AccessInv'
<1> DEFINE r == viewer[v]
           served == [r EXCEPT !.pc = "served", !.data = NoPolicy]
<1>1. /\ r.pc = "identified" /\ UNCHANGED <<folder, policy, locked, tool, expired, decided>>
      /\ \/ CanRead(r.data, r.token, r.name) /\ viewer' = [viewer EXCEPT ![v] = served]
         \/ viewer' = [viewer EXCEPT ![v] = IdleViewer]
  BY DEF ServeRecording
<1>2. /\ r \in Viewer /\ IdleViewer \in Viewer /\ served \in Viewer
      /\ served.token = r.token /\ served.name = r.name /\ served.revoked = r.revoked
      /\ served.pc = "served"
  BY NoPolicyTyped DEF Viewer, IdleViewer, AccessInv, AccessTypeOK
<1>3. AccessTypeOK'
  BY <1>1, <1>2 DEF AccessInv, AccessTypeOK
<1>4. LocksOK' /\ RunsOK' /\ TokensOK' /\ CatalogOK'
  BY <1>1 DEF AccessInv, LocksOK, RunsOK, TokensOK, CatalogOK, Working, Unissued, TheCatalog
<1>5. CanRead(r.data, r.token, r.name) => CanRead(policy["recordings"], r.token, r.name)
  BY <1>1 DEF AccessInv, ViewersOK, CanRead, Extends, TheCatalog
<1>6. ViewersOK'
  <2>1. \A u \in Viewers \ {v} : viewer'[u] = viewer[u]
    BY <1>1 DEF AccessInv, AccessTypeOK
  <2>2. \/ CanRead(r.data, r.token, r.name) /\ viewer'[v] = served
        \/ viewer'[v] = IdleViewer
    BY <1>1 DEF AccessInv, AccessTypeOK
  <2>3. <<"recordings", r.token>> \notin r.revoked
    BY <1>1 DEF AccessInv, ViewersOK
  <2> HIDE DEF r, served
  <2> QED BY <1>1, <1>2, <1>5, <2>1, <2>2, <2>3 DEF AccessInv, ViewersOK, TheCatalog, IdleViewer
<1> QED BY <1>3, <1>4, <1>6 DEF AccessInv

----------------------------------------------------------------------------
(* The tools: lock and read.                                               *)

\* Nothing that a request or the catalog rests on changes.
LEMMA CatalogKept ==
  ASSUME AccessInv, policy' = policy, decided'.classified = decided.classified, viewer' = viewer
  PROVE  CatalogOK' /\ ViewersOK'
  BY DEF AccessInv, CatalogOK, ViewersOK, TheCatalog

\* A tool takes the lock of a file that nobody works on.
LEMMA StartStep ==
  ASSUME AccessInv, NEW p \in Tools, NEW f \in PolicyFiles, NEW op \in Ops,
         NEW token \in Tokens \cup {Nobody}, NEW rows \in SUBSET Manifest,
         op = "init" => f = "queue",
         op = "classify" => f = "recordings" /\ ValidManifest(rows),
         op = "issue" => token \notin decided.made,
         op \in {"issue", "revoke"} => token \in Tokens,
         Start(p, f, op, token, rows)
  PROVE  AccessInv'
<1> DEFINE r == [pc |-> "locked", file |-> f, op |-> op, token |-> token,
                 rows |-> rows, data |-> NoPolicy]
<1>1. /\ tool[p].pc = "idle" /\ locked[f] = Nobody /\ locked' = [locked EXCEPT ![f] = p]
      /\ tool' = [tool EXCEPT ![p] = r] /\ UNCHANGED <<folder, policy, viewer, expired>>
      /\ decided' = [decided EXCEPT !.runs = @ + 1,
                       !.made = IF op = "issue" THEN @ \cup {token} ELSE @,
                       !.revoking = IF op = "revoke" THEN @ \cup {token} ELSE @]
  BY DEF Start, LockFree
<1>2. r \in Tool
  BY NoPolicyTyped DEF Tool
<1>3. /\ decided' \in Decided /\ decided'.classified = decided.classified
      /\ decided'.issued = decided.issued /\ decided'.revoked = decided.revoked
      /\ decided'.made = IF op = "issue" THEN decided.made \cup {token} ELSE decided.made
      /\ decided'.revoking = IF op = "revoke" THEN decided.revoking \cup {token} ELSE decided.revoking
  <2> DEFINE m == IF op = "issue" THEN decided.made \cup {token} ELSE decided.made
             k == IF op = "revoke" THEN decided.revoking \cup {token} ELSE decided.revoking
  <2>1. decided \in Decided
    BY DEF AccessInv, AccessTypeOK
  <2>2. decided' = [decided EXCEPT !.runs = decided.runs + 1, !.made = m, !.revoking = k]
    BY <1>1, <2>1 DEF Decided
  <2>3. m \subseteq Tokens /\ k \subseteq Tokens
    BY <2>1 DEF Decided
  <2> HIDE DEF m, k
  <2>4. /\ decided' \in Decided /\ decided'.classified = decided.classified
        /\ decided'.issued = decided.issued /\ decided'.revoked = decided.revoked
        /\ decided'.made = m /\ decided'.revoking = k
    <3>1. decided.runs + 1 \in Nat
      BY <2>1 DEF Decided
    <3> DEFINE n == decided.runs + 1
    <3>2. decided' = [decided EXCEPT !.runs = n, !.made = m, !.revoking = k] /\ n \in Nat
      BY <2>2, <3>1
    <3> HIDE DEF n
    <3> QED BY <2>1, <2>3, <3>2 DEF Decided
  <2> QED BY <2>4 DEF m, k
<1>4. AccessTypeOK'
  BY <1>1, <1>2, <1>3 DEF AccessInv, AccessTypeOK
<1>5. tool'[p] = r /\ \A q \in Tools \ {p} : tool'[q] = tool[q]
  BY <1>1 DEF AccessInv, AccessTypeOK
<1>6. locked'[f] = p /\ \A g \in PolicyFiles \ {f} : locked'[g] = locked[g]
  BY <1>1 DEF AccessInv, AccessTypeOK
<1>7. LocksOK'
  <2> SUFFICES ASSUME NEW q \in Tools
               PROVE  /\ Working(q)' => locked'[tool'[q].file] = q
                      /\ tool'[q].pc = "loaded" =>
                           tool'[q].data = policy'[tool'[q].file] /\ Found(tool'[q])
    BY DEF LocksOK
  <2>1. CASE q = p
    BY <1>5, <1>6, <2>1
  <2>2. CASE q # p
    <3>1. tool[q].file \in PolicyFiles
      BY DEF AccessInv, AccessTypeOK, Tool
    <3>2. Working(q) => tool[q].file # f
      BY <1>1, AccessAssumption DEF AccessInv, LocksOK
    <3> QED BY <1>1, <1>5, <1>6, <2>2, <3>1, <3>2 DEF AccessInv, LocksOK, Working
  <2> QED BY <2>1, <2>2
<1>8. op = "issue" => \A g \in PolicyFiles : /\ token \notin policy[g].credentials
                                             /\ <<g, token>> \notin decided.revoked
  BY DEF AccessInv, TokensOK
<1>9. RunsOK'
  <2> SUFFICES ASSUME NEW q \in Tools, Working(q)'
               PROVE  /\ tool'[q].op = "init" => tool'[q].file = "queue"
                      /\ tool'[q].op = "classify" =>
                           tool'[q].file = "recordings" /\ ValidManifest(tool'[q].rows)
                      /\ tool'[q].op = "issue" => Unissued(q)'
                      /\ tool'[q].op = "revoke" => tool'[q].token \in decided'.revoking
    BY DEF RunsOK
  <2>1. \A u \in Tools : Working(u) /\ tool[u].op = "issue" => tool[u].token \in decided.made
    BY DEF AccessInv, RunsOK, Unissued
  <2>2. CASE q = p
    <3>1. op = "issue" => Unissued(q)'
      BY <1>1, <1>3, <1>5, <1>8, <2>1, <2>2 DEF Unissued, Working
    <3> QED BY <1>3, <1>5, <2>2, <3>1
  <2>3. CASE q # p
    <3>1. tool'[q] = tool[q] /\ Working(q)
      BY <1>5, <2>3 DEF Working
    <3>2. tool[q].op = "issue" => Unissued(q)'
      BY <1>1, <1>3, <1>5, <2>1, <2>3, <3>1 DEF AccessInv, RunsOK, Unissued, Working
    <3> QED BY <1>3, <3>1, <3>2 DEF AccessInv, RunsOK
  <2> QED BY <2>2, <2>3
<1>10. TokensOK'
  BY <1>1, <1>3 DEF AccessInv, TokensOK
<1> QED BY <1>1, <1>3, <1>4, <1>7, <1>9, <1>10, CatalogKept DEF AccessInv

\* A tool that leaves its work, after it replaced its file or without.
LEMMA UnlockTypes ==
  ASSUME AccessTypeOK, NEW p \in Tools, Unlock(p)
  PROVE  /\ locked' \in [PolicyFiles -> Tools \cup {Nobody}] /\ tool' \in [Tools -> Tool]
         /\ tool'[p] = IdleTool /\ \A q \in Tools \ {p} : tool'[q] = tool[q]
         /\ \A f \in PolicyFiles : locked'[f] = IF locked[f] = p THEN Nobody ELSE locked[f]
<1>1. IdleTool \in Tool
  BY NoPolicyTyped DEF IdleTool, Tool, PolicyFiles, Ops
<1> QED BY <1>1 DEF Unlock, AccessTypeOK

\* A tool that gives up leaves its file as it was.
LEMMA LeaveStep ==
  ASSUME AccessInv, NEW p \in Tools, Unlock(p), UNCHANGED <<folder, policy, viewer, expired, decided>>
  PROVE  AccessInv'
<1>1. /\ AccessTypeOK' /\ tool'[p] = IdleTool /\ \A q \in Tools \ {p} : tool'[q] = tool[q]
      /\ \A f \in PolicyFiles : locked'[f] = IF locked[f] = p THEN Nobody ELSE locked[f]
  BY UnlockTypes DEF AccessInv, AccessTypeOK
<1>2. ~ Working(p)' /\ \A q \in Tools \ {p} : Working(q)' <=> Working(q)
  BY <1>1 DEF Working, IdleTool
<1>3. \A q \in Tools : tool[q].file \in PolicyFiles
  BY DEF AccessInv, AccessTypeOK, Tool
<1>4. LocksOK'
  BY <1>1, <1>2, <1>3 DEF AccessInv, LocksOK, Working
<1>5. RunsOK'
  BY <1>1, <1>2 DEF AccessInv, RunsOK, Unissued
<1>6. TokensOK'
  BY DEF AccessInv, TokensOK
<1> QED BY <1>1, <1>4, <1>5, <1>6, CatalogKept DEF AccessInv

\* A tool reads its file, which no other tool can replace before it does.
LEMMA LoadStep ==
  ASSUME AccessInv, NEW p \in Tools, Load(p)
  PROVE  AccessInv'
<1> DEFINE r == tool[p]
           data == policy[r.file]
           s == [[r EXCEPT !.pc = "loaded"] EXCEPT !.data = data]
<1>1. /\ r.pc = "locked" /\ UNCHANGED <<folder, policy, viewer, expired, decided>>
      /\ \/ /\ Permitted(r, data) /\ UNCHANGED locked
            /\ tool' = [tool EXCEPT ![p].pc = "loaded", ![p].data = data]
         \/ Unlock(p)
  BY DEF Load
<1>2. CASE Unlock(p)
  BY <1>1, <1>2, LeaveStep
<1>3. CASE /\ Permitted(r, data) /\ UNCHANGED locked
           /\ tool' = [tool EXCEPT ![p].pc = "loaded", ![p].data = data]
  <2>1. r \in Tool /\ data \in Policy
    BY DEF AccessInv, AccessTypeOK, Tool
  <2>2. /\ s \in Tool /\ s.pc = "loaded" /\ s.data = data /\ s.op = r.op /\ s.file = r.file
        /\ s.token = r.token /\ s.rows = r.rows
    BY <2>1 DEF Tool
  <2>3. tool' = [tool EXCEPT ![p] = s]
    BY <1>3
  <2>4. tool'[p] = s /\ \A q \in Tools \ {p} : tool'[q] = tool[q]
    BY <2>3 DEF AccessInv, AccessTypeOK
  <2>5. AccessTypeOK'
    BY <1>1, <1>3, <2>2, <2>3 DEF AccessInv, AccessTypeOK
  <2>6. \A q \in Tools : /\ Working(q)' <=> Working(q)
                         /\ tool'[q].op = tool[q].op /\ tool'[q].file = tool[q].file
                         /\ tool'[q].token = tool[q].token /\ tool'[q].rows = tool[q].rows
    BY <1>1, <2>2, <2>4 DEF Working
  <2>7. Found(s)
    <3>1. r.op \in Ops
      BY <2>1 DEF Tool
    <3>2. CASE r.op = "init"
      BY <1>3, <2>2, <3>2 DEF Permitted, Found
    <3>3. CASE r.op = "issue"
      BY <1>3, <2>2, <3>3 DEF Permitted, Found, Readable, CredentialsReadable
    <3>4. CASE r.op = "revoke"
      BY <1>3, <2>2, <3>4 DEF Permitted, Found, Readable, CredentialsReadable
    <3>5. CASE r.op = "classify"
      BY <1>3, <2>2, <3>5 DEF Permitted, Found, Classifiable, Compatible
    <3> QED BY <3>1, <3>2, <3>3, <3>4, <3>5 DEF Ops
  <2>8. LocksOK'
    <3>1. \A q \in Tools : Working(q)' => locked'[tool'[q].file] = q
      BY <1>3, <2>6 DEF AccessInv, LocksOK
    <3>2. \A q \in Tools : tool'[q].pc = "loaded" =>
            tool'[q].data = policy'[tool'[q].file] /\ Found(tool'[q])
      <4> SUFFICES ASSUME NEW q \in Tools, tool'[q].pc = "loaded"
                   PROVE  tool'[q].data = policy'[tool'[q].file] /\ Found(tool'[q])
        OBVIOUS
      <4>1. CASE q = p
        <5> HIDE DEF s
        <5> QED BY <1>1, <2>2, <2>4, <2>7, <4>1
      <4>2. CASE q # p
        BY <1>1, <2>4, <4>2 DEF AccessInv, LocksOK
      <4> QED BY <4>1, <4>2
    <3> QED BY <3>1, <3>2 DEF LocksOK
  <2>9. RunsOK'
    BY <1>1, <2>6 DEF AccessInv, RunsOK, Unissued
  <2>10. TokensOK'
    BY <1>1 DEF AccessInv, TokensOK
  <2> QED BY <1>1, <2>5, <2>8, <2>9, <2>10, CatalogKept DEF AccessInv
<1> QED BY <1>1, <1>2, <1>3

----------------------------------------------------------------------------
(* The tools: replace.                                                     *)

\* What run r of a tool makes of the file d that it loaded.
Replaces(r, d, w) ==
  /\ w \in Policy /\ (~ w.exists => w.credentials = {})
  /\ \A t \in w.credentials : t \in d.credentials \/ (r.op = "issue" /\ t = r.token)
  /\ \A t \in d.credentials : t \in w.credentials \/ (r.op = "revoke" /\ t = r.token)
  /\ r.op = "issue" => r.token \in w.credentials /\ r.token \in Tokens
  /\ r.op = "revoke" => r.token \in d.credentials /\ r.token \notin w.credentials
  /\ r.file = "recordings" => Extends(w.recordings, d.recordings) /\ OneCompany(w.recordings)
  /\ r.op = "classify" => r.file = "recordings"

\* What each of the operations writes over the file.
LEMMA ResultIs ==
  ASSUME AccessInv, NEW p \in Tools, tool[p].pc = "loaded"
  PROVE  Replaces(tool[p], policy[tool[p].file], Result(tool[p]))
<1> DEFINE r == tool[p]
           d == policy[r.file]
           w == Result(r)
<1> SUFFICES Replaces(r, d, w)
  OBVIOUS
<1>1. r \in Tool /\ d \in Policy /\ r.file \in PolicyFiles /\ r.op \in Ops
  BY DEF AccessInv, AccessTypeOK, Tool
<1>2. r.data = d /\ Found(r)
  BY DEF AccessInv, LocksOK
<1>3. /\ r.op = "init" => r.file = "queue"
      /\ r.op = "classify" => r.file = "recordings" /\ ValidManifest(r.rows)
      /\ r.op = "issue" => r.token \in decided.made
  BY DEF AccessInv, RunsOK, Working, Unissued
<1>4. ~ d.exists => d.credentials = {}
  BY <1>1 DEF AccessInv, TokensOK
<1>5. r.file = "recordings" => OneCompany(d.recordings)
  BY DEF AccessInv, CatalogOK, TheCatalog
<1>6. decided.made \subseteq Tokens
  BY DEF AccessInv, AccessTypeOK, Decided
<1> HIDE DEF r, d, w
<1>7. CASE r.op = "init"
  <2>1. w = EmptyPolicy /\ d.credentials = {} /\ r.file = "queue"
    BY <1>2, <1>3, <1>4, <1>7 DEF Found, Result, w
  <2> QED BY <1>7, <2>1, NoPolicyTyped DEF EmptyPolicy, NoPolicy, Replaces
<1>8. CASE r.op = "issue"
  <2>1. w = [d EXCEPT !.credentials = d.credentials \cup {r.token}] /\ r.token \in Tokens
    BY <1>2, <1>3, <1>6, <1>8 DEF Result, w
  <2>2. /\ w \in Policy /\ w.credentials = d.credentials \cup {r.token}
        /\ w.recordings = d.recordings /\ w.exists = d.exists
    BY <1>1, <2>1 DEF Policy
  <2>3. d.exists
    BY <1>2, <1>8 DEF Found
  <2>4. r.file = "recordings" => Extends(w.recordings, d.recordings) /\ OneCompany(w.recordings)
    BY <1>5, <2>2 DEF Extends
  <2> QED BY <1>8, <2>1, <2>2, <2>3, <2>4 DEF Replaces
<1>9. CASE r.op = "revoke"
  <2>1. w = [d EXCEPT !.credentials = d.credentials \ {r.token}] /\ r.token \in d.credentials
    BY <1>2, <1>9 DEF Found, Result, w
  <2>2. /\ w \in Policy /\ w.credentials = d.credentials \ {r.token}
        /\ w.recordings = d.recordings /\ w.exists = d.exists
    BY <1>1, <2>1 DEF Policy
  <2>3. d.exists
    BY <1>2, <1>9 DEF Found
  <2>4. r.file = "recordings" => Extends(w.recordings, d.recordings) /\ OneCompany(w.recordings)
    BY <1>5, <2>2 DEF Extends
  <2> QED BY <1>9, <2>1, <2>2, <2>3, <2>4 DEF Replaces
<1>10. CASE r.op = "classify"
  <2> DEFINE c == Classified(d, r.rows).recordings
  <2>1. /\ w = Classified(d, r.rows) /\ Compatible(d, r.rows) /\ ValidManifest(r.rows)
        /\ r.file = "recordings" /\ r.rows \in SUBSET Manifest
    BY <1>1, <1>2, <1>3, <1>10 DEF Found, Result, Tool, w
  <2>2. /\ w = [d EXCEPT !.recordings = c] /\ c \in Catalog
        /\ DOMAIN c = DOMAIN d.recordings \cup {x.name : x \in r.rows}
        /\ \A a \in DOMAIN d.recordings : c[a] = d.recordings[a]
        /\ \A x \in r.rows : c[x.name] = EntryOf(x)
    BY <1>1, <2>1, ClassifiedIs
  <2> HIDE DEF c
  <2>3. /\ w \in Policy /\ w.credentials = d.credentials
        /\ w.recordings = c /\ w.exists = d.exists
    BY <1>1, <2>2 DEF Policy
  <2>4. OneCompany(c)
    <3> SUFFICES ASSUME NEW a \in DOMAIN c, NEW b \in DOMAIN c, c[a].ref = c[b].ref
                 PROVE  c[a].tenant = c[b].tenant
      BY DEF OneCompany
    <3>1. \A x \in r.rows : c[x.name].ref = x.ref /\ c[x.name].tenant = x.tenant
      BY <2>1, <2>2, Entries
    <3>2. ASSUME NEW x \in r.rows, NEW e \in DOMAIN d.recordings, d.recordings[e].ref = x.ref
          PROVE  d.recordings[e].tenant = x.tenant
      BY <2>1, <3>2 DEF Compatible
    <3>3. CASE a \in DOMAIN d.recordings /\ b \in DOMAIN d.recordings
      BY <1>5, <2>1, <2>2, <3>3 DEF OneCompany
    <3>4. CASE a \notin DOMAIN d.recordings /\ b \in DOMAIN d.recordings
      <4>1. PICK x \in r.rows : x.name = a
        BY <2>2, <3>4
      <4> QED BY <2>2, <3>1, <3>2, <3>4, <4>1
    <3>5. CASE a \in DOMAIN d.recordings /\ b \notin DOMAIN d.recordings
      <4>1. PICK x \in r.rows : x.name = b
        BY <2>2, <3>5
      <4> QED BY <2>2, <3>1, <3>2, <3>5, <4>1
    <3>6. CASE a \notin DOMAIN d.recordings /\ b \notin DOMAIN d.recordings
      <4>1. PICK x \in r.rows, y \in r.rows : x.name = a /\ y.name = b
        BY <2>2, <3>6
      <4> QED BY <2>1, <3>1, <4>1 DEF ValidManifest
    <3> QED BY <3>3, <3>4, <3>5, <3>6
  <2>5. Extends(w.recordings, d.recordings)
    BY <2>2, <2>3 DEF Extends
  <2> QED BY <1>4, <1>10, <2>1, <2>3, <2>4, <2>5 DEF Replaces
<1> QED BY <1>1, <1>7, <1>8, <1>9, <1>10 DEF Ops

\* Another tool at work has another file.
LEMMA OtherFile ==
  ASSUME AccessInv, NEW p \in Tools, NEW q \in Tools \ {p}, Working(p), Working(q)
  PROVE  tool[q].file # tool[p].file
  BY DEF AccessInv, LocksOK

\* The file is replaced; whether the tool may confirm it or not.
LEMMA SaveStep ==
  ASSUME AccessInv, NEW p \in Tools, Save(p)
  PROVE  AccessInv'
<1> DEFINE r == tool[p]
           f == r.file
           d == policy[f]
           w == Result(r)
<1>1. /\ r.pc = "loaded" /\ policy' = [policy EXCEPT ![f] = w] /\ Unlock(p)
      /\ UNCHANGED <<folder, viewer, expired>>
      /\ \/ decided' = [decided EXCEPT
              !.issued = IF r.op = "issue" THEN @ \cup {<<f, r.token>>} ELSE @,
              !.revoked = IF r.op = "revoke" THEN @ \cup {<<f, r.token>>} ELSE @,
              !.classified = IF r.op = "classify" THEN Overlaid(w.recordings, @) ELSE @]
         \/ UNCHANGED decided
  BY DEF Save
<1>2. /\ w \in Policy /\ (~ w.exists => w.credentials = {})
      /\ \A t \in w.credentials : t \in d.credentials \/ (r.op = "issue" /\ t = r.token)
      /\ \A t \in d.credentials : t \in w.credentials \/ (r.op = "revoke" /\ t = r.token)
      /\ r.op = "issue" => r.token \in w.credentials /\ r.token \in Tokens
      /\ r.op = "revoke" => r.token \in d.credentials /\ r.token \notin w.credentials
      /\ f = "recordings" => Extends(w.recordings, d.recordings) /\ OneCompany(w.recordings)
      /\ r.op = "classify" => f = "recordings"
  BY <1>1, ResultIs DEF Replaces
<1>3. r \in Tool /\ f \in PolicyFiles /\ d \in Policy /\ decided \in Decided
  BY DEF AccessInv, AccessTypeOK, Tool
<1>4. /\ r.op = "issue" => Unissued(p)
      /\ r.op = "revoke" => r.token \in decided.revoking
  BY <1>1 DEF AccessInv, RunsOK, Working
<1>5. policy'[f] = w /\ \A g \in PolicyFiles \ {f} : policy'[g] = policy[g]
  BY <1>1, <1>3 DEF AccessInv, AccessTypeOK
<1>6. /\ locked' \in [PolicyFiles -> Tools \cup {Nobody}] /\ tool' \in [Tools -> Tool]
      /\ tool'[p] = IdleTool /\ \A q \in Tools \ {p} : tool'[q] = tool[q]
      /\ \A g \in PolicyFiles : locked'[g] = IF locked[g] = p THEN Nobody ELSE locked[g]
  BY <1>1, UnlockTypes DEF AccessInv
<1> HIDE DEF w, d, f, r
<1>7. /\ decided' \in Decided /\ decided'.made = decided.made /\ decided'.revoking = decided.revoking
      /\ \A ft \in decided'.issued :
           ft \in decided.issued \/ (r.op = "issue" /\ ft = <<f, r.token>>)
      /\ \A ft \in decided'.revoked :
           ft \in decided.revoked \/ (r.op = "revoke" /\ ft = <<f, r.token>>)
      /\ \/ decided'.classified = decided.classified
         \/ r.op = "classify" /\ decided'.classified = Overlaid(w.recordings, decided.classified)
  <2> DEFINE i == IF r.op = "issue" THEN decided.issued \cup {<<f, r.token>>} ELSE decided.issued
             k == IF r.op = "revoke" THEN decided.revoked \cup {<<f, r.token>>} ELSE decided.revoked
             c == IF r.op = "classify" THEN Overlaid(w.recordings, decided.classified)
                  ELSE decided.classified
  <2>1. CASE UNCHANGED decided
    <3> HIDE DEF i, k, c
    <3> QED BY <1>3, <2>1
  <2>2. CASE decided' = [decided EXCEPT !.issued = i, !.revoked = k, !.classified = c]
    <3>1. i \subseteq PolicyFiles \X Tokens /\ k \subseteq PolicyFiles \X Tokens
      <4>1. r.op = "revoke" => r.token \in Tokens
        BY <1>2, <1>3 DEF Policy
      <4> QED BY <1>2, <1>3, <4>1 DEF Decided
    <3>2. c \in Catalog
      BY <1>2, <1>3, Overlay DEF Decided, Policy
    <3>3. /\ \A ft \in i : ft \in decided.issued \/ (r.op = "issue" /\ ft = <<f, r.token>>)
          /\ \A ft \in k : ft \in decided.revoked \/ (r.op = "revoke" /\ ft = <<f, r.token>>)
          /\ c = decided.classified \/ (r.op = "classify" /\ c = Overlaid(w.recordings, decided.classified))
      <4>1. \A ft \in i : ft \in decided.issued \/ (r.op = "issue" /\ ft = <<f, r.token>>)
        BY DEF i
      <4>2. \A ft \in k : ft \in decided.revoked \/ (r.op = "revoke" /\ ft = <<f, r.token>>)
        BY DEF k
      <4>3. c = decided.classified \/ (r.op = "classify" /\ c = Overlaid(w.recordings, decided.classified))
        BY DEF c
      <4> HIDE DEF i, k, c
      <4> QED BY <4>1, <4>2, <4>3
    <3> HIDE DEF i, k, c
    <3>4. /\ decided' \in Decided /\ decided'.made = decided.made
          /\ decided'.revoking = decided.revoking /\ decided'.issued = i
          /\ decided'.revoked = k /\ decided'.classified = c
      BY <1>3, <2>2, <3>1, <3>2 DEF Decided
    <3> QED BY <3>3, <3>4
  <2>3. \/ UNCHANGED decided
        \/ decided' = [decided EXCEPT !.issued = i, !.revoked = k, !.classified = c]
    BY <1>1, <1>3 DEF Decided
  <2> QED BY <2>1, <2>2, <2>3
<1>8. AccessTypeOK'
  BY <1>1, <1>2, <1>3, <1>6, <1>7 DEF AccessInv, AccessTypeOK
<1>9. ~ Working(p)' /\ \A q \in Tools \ {p} : Working(q)' <=> Working(q)
  BY <1>6 DEF Working, IdleTool
<1>10. \A q \in Tools \ {p} : Working(q) => tool[q].file \in PolicyFiles \ {f}
  <2>1. \A q \in Tools : tool[q].file \in PolicyFiles
    BY DEF AccessInv, AccessTypeOK, Tool
  <2>2. Working(p)
    BY <1>1 DEF Working, r
  <2> QED BY <2>1, <2>2, OtherFile DEF r, f
<1>11. LocksOK'
  BY <1>5, <1>6, <1>9, <1>10 DEF AccessInv, LocksOK, Working
<1>12. RunsOK'
  <2> SUFFICES ASSUME NEW q \in Tools, Working(q)'
               PROVE  /\ tool'[q].op = "init" => tool'[q].file = "queue"
                      /\ tool'[q].op = "classify" =>
                           tool'[q].file = "recordings" /\ ValidManifest(tool'[q].rows)
                      /\ tool'[q].op = "issue" => Unissued(q)'
                      /\ tool'[q].op = "revoke" => tool'[q].token \in decided'.revoking
    BY DEF RunsOK
  <2>1. q # p /\ tool'[q] = tool[q] /\ Working(q)
    BY <1>6, <1>9
  <2>2. ASSUME tool[q].op = "issue" PROVE Unissued(q)'
    <3>1. Unissued(q)
      BY <2>1, <2>2 DEF AccessInv, RunsOK
    <3>2. r.op = "issue" => tool[q].token # r.token
      BY <1>1, <3>1, <2>1 DEF Unissued, Working, r
    <3>3. tool[q].token \notin w.credentials /\ tool[q].token \notin d.credentials
      BY <1>2, <1>3, <3>1, <3>2 DEF Unissued, d
    <3>4. \A g \in PolicyFiles : tool[q].token \notin policy'[g].credentials
      BY <1>5, <3>1, <3>3 DEF Unissued
    <3>5. \A g \in PolicyFiles : <<g, tool[q].token>> \notin decided'.revoked
      BY <1>2, <1>7, <3>1, <3>3 DEF Unissued
    <3>6. \A u \in Tools \ {q} : Working(u)' /\ tool'[u].op = "issue" =>
            tool'[u].token # tool[q].token
      BY <1>6, <1>9, <3>1 DEF Unissued
    <3> QED BY <1>7, <2>1, <3>1, <3>4, <3>5, <3>6 DEF Unissued
  <2> QED BY <1>7, <2>1, <2>2 DEF AccessInv, RunsOK
<1>13. TokensOK'
  <2>1. ASSUME NEW g \in PolicyFiles
        PROVE  /\ policy'[g].credentials \subseteq decided'.made
               /\ ~ policy'[g].exists => policy'[g].credentials = {}
    BY <1>2, <1>4, <1>5, <1>7 DEF AccessInv, TokensOK, Unissued, r, d
  <2>2. ASSUME NEW ft \in decided'.revoked
        PROVE  ft[2] \in decided'.made /\ ft[2] \notin policy'[ft[1]].credentials
    <3>1. CASE ft \in decided.revoked
      <4>1. ft[1] \in PolicyFiles /\ ft = <<ft[1], ft[2]>>
        BY <1>3, <3>1 DEF Decided
      <4>2. ft[2] \in decided.made /\ ft[2] \notin policy[ft[1]].credentials
        BY <3>1 DEF AccessInv, TokensOK
      <4>3. r.op = "issue" => ft # <<f, r.token>>
        BY <1>3, <1>4, <3>1 DEF Unissued, r
      <4> QED BY <1>2, <1>5, <1>7, <4>1, <4>2, <4>3 DEF d
    <3>2. CASE r.op = "revoke" /\ ft = <<f, r.token>>
      <4>1. r.token \in decided.made
        BY <1>2, <1>3, <3>2 DEF AccessInv, TokensOK, d
      <4> QED BY <1>2, <1>5, <1>7, <3>2, <4>1
    <3> QED BY <1>7, <2>2, <3>1, <3>2
  <2>3. ASSUME NEW ft \in decided'.issued, ft[2] \notin decided'.revoking
        PROVE  ft[2] \in policy'[ft[1]].credentials
    <3>1. CASE ft \in decided.issued
      <4>1. ft[1] \in PolicyFiles
        BY <1>3, <3>1 DEF Decided
      <4>2. ft[2] \in policy[ft[1]].credentials /\ ft[2] \notin decided.revoking
        BY <1>7, <2>3, <3>1 DEF AccessInv, TokensOK
      <4> QED BY <1>2, <1>4, <1>5, <4>1, <4>2 DEF d
    <3>2. CASE r.op = "issue" /\ ft = <<f, r.token>>
      BY <1>2, <1>5, <3>2
    <3> QED BY <1>7, <2>3, <3>1, <3>2
  <2> QED BY <2>1, <2>2, <2>3 DEF TokensOK
<1>14. Extends(TheCatalog', TheCatalog) /\ OneCompany(TheCatalog')
  <2>1. CASE f = "recordings"
    BY <1>2, <1>5, <2>1 DEF TheCatalog, d
  <2>2. CASE f # "recordings"
    BY <1>5, <2>2 DEF AccessInv, CatalogOK, TheCatalog, Extends, PolicyFiles
  <2> QED BY <2>1, <2>2
<1>15. CatalogOK'
  <2>1. Extends(TheCatalog, decided.classified)
    BY DEF AccessInv, CatalogOK
  <2>2. CASE decided'.classified = decided.classified
    BY <1>14, <2>1, <2>2 DEF CatalogOK, Extends
  <2>3. CASE r.op = "classify" /\ decided'.classified = Overlaid(w.recordings, decided.classified)
    <3>1. TheCatalog' = w.recordings /\ w.recordings \in Catalog /\ decided.classified \in Catalog
      BY <1>2, <1>3, <1>5, <2>3 DEF TheCatalog, Policy, Decided
    <3>2. Extends(w.recordings, Overlaid(w.recordings, decided.classified))
      <4> DEFINE x == w.recordings
                 y == decided.classified
      <4>1. x \in Catalog /\ y \in Catalog /\ Extends(TheCatalog, y) /\ Extends(x, TheCatalog)
        BY <1>14, <2>1, <3>1
      <4> HIDE DEF x, y
      <4>2. \A a \in DOMAIN y : a \in DOMAIN x /\ x[a] = y[a]
        BY <4>1 DEF Extends
      <4>3. /\ DOMAIN Overlaid(x, y) = DOMAIN x \cup DOMAIN y
            /\ \A a \in DOMAIN Overlaid(x, y) :
                 Overlaid(x, y)[a] = IF a \in DOMAIN x THEN x[a] ELSE y[a]
        BY <4>1, Overlay
      <4>4. Extends(x, Overlaid(x, y))
        BY <4>2, <4>3 DEF Extends
      <4> QED BY <4>4 DEF x, y
    <3> QED BY <1>14, <2>3, <3>1, <3>2 DEF CatalogOK
  <2> QED BY <1>7, <2>2, <2>3
<1>16. ViewersOK'
  <2>1. viewer' = viewer
    BY <1>1
  <2>2. \A token, a : CanRead(policy["recordings"], token, a) => CanRead(policy["recordings"], token, a)'
    BY <1>14 DEF CanRead, Extends, TheCatalog
  <2> QED BY <1>14, <2>1, <2>2 DEF AccessInv, ViewersOK, Extends
<1> QED BY <1>8, <1>11, <1>12, <1>13, <1>15, <1>16 DEF AccessInv

----------------------------------------------------------------------------
(* All the steps together.                                                 *)

\* Every step keeps the invariant.
LEMMA AccessStepOK ==
  ASSUME AccessInv, [AccessStep]_accessVars
  PROVE  AccessInv'
<1>1. ASSUME NEW p \in Tools, NEW rows \in SUBSET Manifest, Reconcile(p, rows) PROVE AccessInv'
  BY <1>1, StartStep DEF Reconcile, PolicyFiles, Ops
<1>2. ASSUME NEW p \in Tools, NEW f \in PolicyFiles, NEW token \in Tokens,
             Issue(p, f, token) \/ Revoke(p, f, token)
      PROVE  AccessInv'
  BY <1>2, StartStep DEF Issue, Revoke, Ops
<1>3. ASSUME NEW p \in Tools, InitPolicy(p) PROVE AccessInv'
  BY <1>3, StartStep DEF InitPolicy, PolicyFiles, Ops
<1>4. ASSUME NEW p \in Tools, GiveUp(p) PROVE AccessInv'
  BY <1>4, LeaveStep DEF GiveUp
<1>5. ASSUME UNCHANGED <<policy, locked, tool, viewer, decided>>,
             folder' \in [Audio -> {"absent", "kept", "due"}], expired' \subseteq Tokens
      PROVE  AccessInv'
  BY <1>5, AudioStep DEF AccessInv, AccessTypeOK
<1>6. ASSUME NEW a \in Audio, RecordCall(a) \/ BecomeDue(a) PROVE AccessInv'
  BY <1>5, <1>6 DEF RecordCall, BecomeDue, AccessInv, AccessTypeOK
<1>7. CASE DeleteExpired
  BY <1>5, <1>7 DEF DeleteExpired, AccessInv, AccessTypeOK
<1>8. ASSUME NEW token \in Tokens, Expire(token) PROVE AccessInv'
  BY <1>5, <1>8 DEF Expire, AccessInv, AccessTypeOK
<1>9. CASE UNCHANGED accessVars
  BY <1>5, <1>9 DEF accessVars, AccessInv, AccessTypeOK
<1> QED
  BY <1>1, <1>2, <1>3, <1>4, <1>6, <1>7, <1>8, <1>9, LoadStep, SaveStep, AskStep, ServeStep,
     CandidatesTyped, ReviewedTyped
     DEF AccessStep

\* Files, locks, tools and requests always have their types, and what tools hold and
\* requests read agrees with the files.
THEOREM AccessCorrect == AccessSpec => []AccessInv
  BY AccessInitOK, AccessStepOK, PTL DEF AccessSpec

\* Every variable of the policy files, the tools and the requests keeps its type.
THEOREM AccessTypeCorrect == AccessSpec => []AccessTypeOK
<1>1. AccessInv => AccessTypeOK
  BY DEF AccessInv
<1> QED BY <1>1, AccessCorrect, PTL

\* A listing is everything that the token may hear, when that is within the limit.
LEMMA ListingIsWhole ==
  ASSUME AccessTypeOK, NEW token
  PROVE  LET data == policy["recordings"]
             mine == {a \in DOMAIN data.recordings : CanRead(data, token, a) /\ folder[a] # "absent"}
         IN  Cardinality(mine) <= ListLimit => ListRecordings(data, token) = mine
<1> DEFINE data == policy["recordings"]
           mine == {a \in DOMAIN data.recordings : CanRead(data, token, a) /\ folder[a] # "absent"}
           newer(a) == {b \in mine : Recorded[b] > Recorded[a]}
<1>1. mine \subseteq Audio
  BY Catalogs DEF AccessTypeOK, Policy, PolicyFiles
<1>2. mine = {a \in AuthorizedNames(data, token) : folder[a] # "absent"}
  BY <1>1 DEF AuthorizedNames, CanRead
<1> HIDE DEF mine
<1>3. IsFiniteSet(mine) /\ Cardinality(mine) \in Nat
  BY <1>1, AccessAssumption, FS_Subset, FS_CardinalityType
<1>4. ASSUME NEW a \in mine PROVE Cardinality(newer(a)) < Cardinality(mine)
  <2>1. newer(a) \subseteq mine /\ newer(a) # mine
    <3>1. Recorded[a] \in Nat
      BY <1>1, AccessAssumption
    <3>2. ~ (Recorded[a] > Recorded[a])
      BY <3>1
    <3> QED BY <3>2
  <2> HIDE DEF newer
  <2>2. IsFiniteSet(newer(a)) /\ Cardinality(newer(a)) <= Cardinality(mine)
        /\ Cardinality(newer(a)) # Cardinality(mine)
    BY <1>3, <2>1, FS_Subset
  <2> QED BY <1>3, <2>2, FS_CardinalityType
<1>5. ListRecordings(data, token) = {a \in mine : Cardinality(newer(a)) < ListLimit}
  BY <1>2 DEF ListRecordings
<1>6. \A a \in mine : Cardinality(newer(a)) \in Nat
  <2> SUFFICES ASSUME NEW a \in mine PROVE Cardinality(newer(a)) \in Nat
    OBVIOUS
  <2>1. newer(a) \subseteq mine
    OBVIOUS
  <2> HIDE DEF newer
  <2> QED BY <1>3, <2>1, FS_Subset, FS_CardinalityType
<1>7. Cardinality(mine) <= ListLimit => ListRecordings(data, token) = mine
  <2> HIDE DEF newer
  <2> QED BY <1>3, <1>4, <1>5, <1>6, AccessAssumption
<1> QED BY <1>7 DEF mine

\* Whatever tools run at once, fail or are killed, what one of them confirmed stays; what
\* was served is still a recording of its listener's company; a listing is whole.
THEOREM DecisionsHold == AccessSpec => []DecisionsStay
<1>1. AccessInv => DecisionsStay
  <2> SUFFICES ASSUME AccessInv PROVE DecisionsStay
    OBVIOUS
  <2>1. AccessTypeOK
    BY DEF AccessInv
  <2>2. \A token \in Tokens :
          LET mine == {a \in DOMAIN TheCatalog : CanRead(policy["recordings"], token, a)
                                                 /\ folder[a] # "absent"}
          IN  Cardinality(mine) <= ListLimit => ListRecordings(policy["recordings"], token) = mine
    BY <2>1, ListingIsWhole DEF TheCatalog
  <2> QED BY <2>2 DEF DecisionsStay, AccessInv, TokensOK, CatalogOK, ViewersOK, Extends, OneCompany,
                      TheCatalog
<1> QED BY <1>1, AccessCorrect, PTL
====
