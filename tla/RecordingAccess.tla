---------------------------- MODULE RecordingAccess ----------------------------
(***************************************************************************)
(* queue-api: who may hear which recording.  Two policy files, of the      *)
(* recordings and of the queue identities, are changed by command line     *)
(* tools under a file lock (recording_catalog.py, recording_credentials.py,*)
(* queue_credentials.py) and read at every request by the server, without  *)
(* the lock (recording_access.py, queue_access.py).  Audio files come from *)
(* Asterisk and are removed when their days are over (recordings.py).      *)
(***************************************************************************)
EXTENDS Naturals, FiniteSets

CONSTANTS Audio, Recorded,           \* names of audio files, and their order by time, then by name
          CallKey, Tag, NoTag,       \* the call and, in some names, the company a name tells of
          Evidence,                  \* CDRs: [key, account, context, owner, ref, answered]
          ReviewedRows,              \* of a manifest: [name, tenant, owner, ref]
          CompanyOfOwner,            \* of an extension, by its prefix
          Tokens, Grants,            \* what a token is issued for: [tenant, role, owner]
          Tools, Viewers, Nobody,
          MaxCredentials, MaxEntries, ListLimit, MaxToolRuns

ASSUME AccessAssumption ==
  /\ IsFiniteSet(Audio) /\ ListLimit \in Nat /\ Nobody \notin Tools
  /\ Recorded \in [Audio -> Nat] /\ \A a, b \in Audio : Recorded[a] = Recorded[b] => a = b
  /\ \A r \in ReviewedRows :
       r.name \in Audio /\ r = [name |-> r.name, tenant |-> r.tenant, owner |-> r.owner, ref |-> r.ref]

VARIABLES folder,      \* audio file to "absent", "kept" or "due"
          policy,      \* the two files
          locked,      \* the tool that holds the lock of a file
          tool,        \* the command line tools
          viewer,      \* the requests to hear a recording
          expired,     \* tokens whose time is over
          decided      \* what tools were asked and have confirmed
accessVars == <<folder, policy, locked, tool, viewer, expired, decided>>

PolicyFiles == {"recordings", "queue"}
NoPolicy == [credentials |-> {}, recordings |-> <<>>, exists |-> FALSE]
EmptyPolicy == [NoPolicy EXCEPT !.exists = TRUE]
IdleTool == [pc |-> "idle", file |-> "queue", op |-> "init", token |-> Nobody, rows |-> {},
             data |-> NoPolicy]
IdleViewer == [pc |-> "idle", token |-> Nobody, name |-> Nobody, data |-> NoPolicy, revoked |-> {}]

AccessInit ==
  /\ folder = [a \in Audio |-> "absent"] /\ expired = {}
  /\ policy = [f \in PolicyFiles |-> IF f = "queue" THEN NoPolicy ELSE EmptyPolicy]
  /\ locked = [f \in PolicyFiles |-> Nobody]
  /\ tool = [p \in Tools |-> IdleTool] /\ viewer = [v \in Viewers |-> IdleViewer]
  /\ decided = [runs |-> 0, made |-> {}, issued |-> {}, revoking |-> {}, revoked |-> {},
                classified |-> <<>>]

----------------------------------------------------------------------------
(* Classification.  A proposal needs exactly one corroborated CDR of the   *)
(* call that the name tells of; a batch is taken as a whole or refused.    *)

\* An answered call within a company, to an extension of the same company.
Corroborates(e) == e.answered /\ e.context = e.account /\ CompanyOfOwner[e.owner] = e.account
Candidates(events) ==
  LET valid == {e \in events : Corroborates(e)}
  IN  {[name |-> ae[1], tenant |-> ae[2].account, owner |-> ae[2].owner, ref |-> ae[2].ref] :
         ae \in {ae \in Audio \X valid :
            /\ folder[ae[1]] # "absent"
            /\ {e \in valid : e.key = CallKey[ae[1]]} = {ae[2]}
            /\ Tag[ae[1]] \in {NoTag, ae[2].account}}}

\* load_manifest: a name once, and no reference of two companies.
ValidManifest(rows) ==
  /\ rows # {} /\ \A r \in rows : CompanyOfOwner[r.owner] = r.tenant
  /\ \A r, s \in rows : (r.name = s.name => r = s) /\ (r.ref = s.ref => r.tenant = s.tenant)
EntryOf(r) == [tenant |-> r.tenant, owner |-> r.owner, ref |-> r.ref]
Classifiable(data, rows) ==
  \A r \in rows :
    /\ folder[r.name] # "absent"
    /\ \A a \in DOMAIN data.recordings :
         data.recordings[a].ref = r.ref => data.recordings[a].tenant = r.tenant
    /\ r.name \in DOMAIN data.recordings => data.recordings[r.name] = EntryOf(r)
Overlaid(new, old) ==
  [a \in DOMAIN new \cup DOMAIN old |-> IF a \in DOMAIN new THEN new[a] ELSE old[a]]
Classified(data, rows) ==
  LET new == [a \in {r.name : r \in rows} |-> EntryOf(CHOOSE r \in rows : r.name = a)]
  IN  [data EXCEPT !.recordings = Overlaid(new, @)]

----------------------------------------------------------------------------
(* The tools: lock, read, replace.                                         *)

\* load_queue_policy and load_recording_policy take a file as a whole, or nothing of it.
CredentialsReadable(data) ==
  data.exists /\ \A token \in data.credentials :
    Grants[token].role = "agent" => CompanyOfOwner[Grants[token].owner] = Grants[token].tenant
Readable(data) ==
  /\ CredentialsReadable(data)
  /\ \A a, b \in DOMAIN data.recordings :
       LET row == data.recordings[a]
           other == data.recordings[b]
       IN  CompanyOfOwner[row.owner] = row.tenant /\ (row.ref = other.ref => row.tenant = other.tenant)

\* Mutant: the lock is not exclusive.
LockShared(f) == TRUE

LockFree(f) == locked[f] = Nobody

Start(p, f, op, token, rows) ==
  /\ tool[p].pc = "idle" /\ decided.runs < MaxToolRuns /\ LockFree(f)
  /\ locked' = [locked EXCEPT ![f] = p]
  /\ tool' = [tool EXCEPT ![p] = [pc |-> "locked", file |-> f, op |-> op, token |-> token,
                                  rows |-> rows, data |-> NoPolicy]]
  /\ decided' = [decided EXCEPT !.runs = @ + 1,
                   !.made = IF op = "issue" THEN @ \cup {token} ELSE @,
                   !.revoking = IF op = "revoke" THEN @ \cup {token} ELSE @]
  /\ UNCHANGED <<folder, policy, viewer, expired>>

\* The token is drawn at random: it was never issued before.
Issue(p, f, token) == token \notin decided.made /\ Start(p, f, "issue", token, {})
Revoke(p, f, token) == Start(p, f, "revoke", token, {})
Reconcile(p, rows) == ValidManifest(rows) /\ Start(p, "recordings", "classify", Nobody, rows)
InitPolicy(p) == Start(p, "queue", "init", Nobody, {})

Permitted(r, data) ==
  CASE r.op = "init" -> ~data.exists
    [] r.op = "issue" -> Readable(data) /\ Cardinality(data.credentials) < MaxCredentials
    [] r.op = "revoke" -> Readable(data) /\ r.token \in data.credentials
    [] r.op = "classify" -> Readable(data) /\ Classifiable(data, r.rows)
                            /\ Cardinality(DOMAIN Classified(data, r.rows).recordings) <= MaxEntries
Result(r) ==
  CASE r.op = "init" -> EmptyPolicy
    [] r.op = "issue" -> [r.data EXCEPT !.credentials = @ \cup {r.token}]
    [] r.op = "revoke" -> [r.data EXCEPT !.credentials = @ \ {r.token}]
    [] r.op = "classify" -> Classified(r.data, r.rows)

Unlock(p) == /\ locked' = [f \in PolicyFiles |-> IF locked[f] = p THEN Nobody ELSE locked[f]]
             /\ tool' = [tool EXCEPT ![p] = IdleTool]

Load(p) ==
  LET r == tool[p]
      data == policy[r.file]
  IN  /\ r.pc = "locked"
      /\ IF Permitted(r, data)
         THEN /\ tool' = [tool EXCEPT ![p].pc = "loaded", ![p].data = data] /\ UNCHANGED locked
         ELSE Unlock(p)
      /\ UNCHANGED <<folder, policy, viewer, expired, decided>>

\* atomic_save: the new file replaces the old one or does not; the directory may fail to
\* be written after it, and the tool then reports an error although the file is replaced.
Save(p) ==
  LET r == tool[p] IN
  /\ r.pc = "loaded"
  /\ policy' = [policy EXCEPT ![r.file] = Result(r)]
  /\ \/ decided' = [decided EXCEPT
           !.issued = IF r.op = "issue" THEN @ \cup {<<r.file, r.token>>} ELSE @,
           !.revoked = IF r.op = "revoke" THEN @ \cup {<<r.file, r.token>>} ELSE @,
           !.classified = IF r.op = "classify" THEN Overlaid(Result(r).recordings, @) ELSE @]
     \/ UNCHANGED decided
  /\ Unlock(p) /\ UNCHANGED <<folder, viewer, expired>>

\* A tool that is killed, or that cannot write, leaves the file as it was.
GiveUp(p) ==
  /\ tool[p].pc # "idle" /\ Unlock(p)
  /\ UNCHANGED <<folder, policy, viewer, expired, decided>>

----------------------------------------------------------------------------
(* GET /recordings and /api/recordings.                                    *)

\* authenticate_recordings: the token is of the file as it is now, and not expired.
Identified(data, token) == Readable(data) /\ token \in data.credentials /\ token \notin expired
CanRead(data, token, a) ==
  /\ a \in DOMAIN data.recordings /\ data.recordings[a].tenant = Grants[token].tenant
  /\ Grants[token].role = "agent" => data.recordings[a].owner = Grants[token].owner

AuthorizedNames(data, token) == {a \in Audio : CanRead(data, token, a)}
\* The newest of those that the token may hear, then the limit.
ListRecordings(data, token) ==
  LET mine == {a \in AuthorizedNames(data, token) : folder[a] # "absent"}
  IN  {a \in mine : Cardinality({b \in mine : Recorded[b] > Recorded[a]}) < ListLimit}

AskRecording(v, token, a) ==
  /\ viewer[v].pc \in {"idle", "served"} /\ Identified(policy["recordings"], token)
  /\ viewer' = [viewer EXCEPT ![v] = [pc |-> "identified", token |-> token, name |-> a,
                  data |-> policy["recordings"], revoked |-> decided.revoked]]
  /\ UNCHANGED <<folder, policy, locked, tool, expired, decided>>

\* The file is opened after the policy was read: it may be gone by then.
OpenedRecording(a) == folder[a] # "absent"
ServeRecording(v) ==
  LET r == viewer[v] IN
  /\ r.pc = "identified"
  /\ viewer' = [viewer EXCEPT ![v] =
       IF CanRead(r.data, r.token, r.name) /\ OpenedRecording(r.name)
       THEN [r EXCEPT !.pc = "served", !.data = NoPolicy] ELSE IdleViewer]
  /\ UNCHANGED <<folder, policy, locked, tool, expired, decided>>

----------------------------------------------------------------------------
(* Asterisk records, days pass, the retention removes what is due.         *)

RecordCall(a) == folder[a] = "absent" /\ folder' = [folder EXCEPT ![a] = "kept"]
                 /\ UNCHANGED <<policy, locked, tool, viewer, expired, decided>>
BecomeDue(a) == folder[a] = "kept" /\ folder' = [folder EXCEPT ![a] = "due"]
                /\ UNCHANGED <<policy, locked, tool, viewer, expired, decided>>
\* Files that cannot be removed are left for the next day.
DeleteExpired ==
  \E gone \in SUBSET {a \in Audio : folder[a] = "due"} :
    /\ gone # {} /\ folder' = [a \in Audio |-> IF a \in gone THEN "absent" ELSE folder[a]]
    /\ UNCHANGED <<policy, locked, tool, viewer, expired, decided>>
Expire(token) == expired' = expired \cup {token} /\ token \notin expired
                 /\ UNCHANGED <<folder, policy, locked, tool, viewer, decided>>

AccessStep ==
  \/ \E p \in Tools : Load(p) \/ Save(p) \/ GiveUp(p) \/ InitPolicy(p)
  \/ \E p \in Tools, f \in PolicyFiles, token \in Tokens : Issue(p, f, token) \/ Revoke(p, f, token)
  \/ \E p \in Tools, events \in SUBSET Evidence : Reconcile(p, Candidates(events))
  \/ \E p \in Tools, r \in ReviewedRows : Reconcile(p, {r})
  \/ \E v \in Viewers : ServeRecording(v) \/ \E token \in Tokens, a \in Audio : AskRecording(v, token, a)
  \/ \E a \in Audio : RecordCall(a) \/ BecomeDue(a)
  \/ DeleteExpired
  \/ \E token \in Tokens : Expire(token)

AccessSpec == AccessInit /\ [][AccessStep]_accessVars

----------------------------------------------------------------------------
(* Properties.                                                             *)

\* Whatever tools run at once, fail or are killed, what one of them confirmed stays: an
\* issued token that nobody began to revoke is in its file, a revoked one never comes back
\* and opens nothing that was asked for afterwards, a classification is final and a
\* reference tells of one company.  What was served is, whatever the catalog has become
\* since, still a recording of the company (and, for an agent, of the extension) of the
\* one who heard it; and a listing shows all of one's recordings up to its limit, however
\* many others have.
DecisionsStay ==
  LET catalog == policy["recordings"].recordings IN
  /\ \A ft \in decided.issued : ft[2] \notin decided.revoking => ft[2] \in policy[ft[1]].credentials
  /\ \A ft \in decided.revoked : ft[2] \notin policy[ft[1]].credentials
  /\ \A a \in DOMAIN decided.classified : a \in DOMAIN catalog /\ catalog[a] = decided.classified[a]
  /\ \A a, b \in DOMAIN catalog : catalog[a].ref = catalog[b].ref => catalog[a].tenant = catalog[b].tenant
  /\ \A v \in Viewers :
       /\ viewer[v].pc # "idle" => <<"recordings", viewer[v].token>> \notin viewer[v].revoked
       /\ viewer[v].pc = "served" => CanRead(policy["recordings"], viewer[v].token, viewer[v].name)
  /\ \A token \in Tokens :
       LET mine == {a \in DOMAIN catalog : CanRead(policy["recordings"], token, a) /\ folder[a] # "absent"}
       IN  Cardinality(mine) <= ListLimit => ListRecordings(policy["recordings"], token) = mine
===============================================================================
