# A verification development of the AXE PABX (`pabx-mvp`)

This directory holds TLA+ models of the parts of the PABX whose correctness
depends on the order of events: threads, processes, an unreliable connection
to Asterisk, crashes, timeouts and late answers. TLC checks the models on small
instances; TLAPS proves the most important properties for every instance.

## 1. The system

The PABX is Asterisk plus a set of Python services around it.

| component | state | operations | talks to |
|---|---|---|---|
| `queue-api` outbound dialler (`callbacks.py`, `campaigns.py`, `outbound_safety.py`, `server.py`) | two JSON catalogs (callback requests, campaign contacts), each entry with status, attempts, attempt id, `originate_response` | dial-next over HTTP, cancel, create campaign, add request | catalogs under `outbound_lock` (RLock + `flock`), AMI `Originate` |
| outbound correlation (`outbound_correlation.py`, `apply_*` in `server.py`) | the same catalogs | apply OriginateResponse, apply DialEnd | AMI events, one worker thread |
| quarantine command (`reconcile_outbound.py`) | audit log `<path>.audit.jsonl` | move an old claim to manual review | another process, same `flock` |
| click-to-call admission (`outbound_admission.py`) | rate windows, in-flight tickets, idempotency rows, in memory | `reserve`, `finish` | HTTP threads |
| AMI client (`queue-api/ami_client.py`) | `_pending` waiters, bounded event queue, `_running` | `connect_and_login`, `send_action`, `stop`; reader and worker threads | one TCP connection |
| waiting-call mirror, pickup (`queue_state.py`, `pickup.py`) | calls waiting, per channel | AMI queue events, `Redirect` of a waiting call | AMI |
| queue SLA (`queue_sla.py`) | counters of the day, dedupe window, history file | events, `snapshot`, daily rollover | AMI worker, HTTP |
| agent pause, queue membership (`agent_pause.py`, `queue_membership.py`) | pause per agent, members per queue | events, `QueuePause`/`QueueAdd`/`QueueRemove` | AMI |
| presence, survey, reports, metrics, quality, missed calls, fraud | one file or one in-memory log each | append, load, load-modify-save | AMI worker, HTTP |
| `admin-api` tenants (`tenant_provisioning.py`, `tenant_deprovisioning.py`) | registry, `.conf` files, AstDB | create and remove with compensation | disk, AMI |
| `admin-api` extensions (`store.py`, `conf_publisher.py`, `server.py`) | extension store, generated `.conf` | CRUD, publish and reload | disk, AMI |
| `admin-api` users and sessions (`users.py`, `auth.py`) | user file, sessions in memory | login, CRUD | HTTP threads |
| `ai-worker`, `provisioning`, `backup`, web pages, scripts, laboratory | files | sequential | |

### How the parts interact

`main()` makes one `AMIClient`, logs in, and then serves HTTP with a thread per
request. The client's reader thread takes frames from the socket; replies wake
the caller of their ActionID, events go to a queue of 1024 which one worker
thread empties by calling `handle_ami_event`. That handler updates every
tracker, applies dial results and adds callback requests to the catalogs under
the same locks as the HTTP handlers, and may itself send an AMI action. A
dial-next request claims the first pending entry, writes the claim to disk with
a fresh attempt id, and sends the Originate while it still holds the lock. The
quarantine command is a separate process that meets them only at the `flock`.
Click-to-call goes through the admission object and then through the same client.

### What is hard

*Atomicity and interleaving*: selection, claim and Originate; two catalogs
under two locks of two kinds; clocks read before a lock; users and presence
loaded, changed and saved without one; extensions read, saved, loaded again
and published in four critical sections. *Ordering*: late, repeated or
reordered events of an attempt, a call, or a stay in a queue that is over, under
a channel name that is in use again. *Uncertainty*: an Originate whose reply is
lost may have rung a customer, an AstDB action that failed may have been applied.
*Partial failure*: the sixth step of the tenant wizard fails, and then one of
its compensations; a day's history is half written. *Crashes*: between claim and
Originate, between audit line and catalog, between truncating the users file and
filling it. *Bounds*: event queue, mirror, remembered ids and lists when full;
rate windows at exactly 60 s. *Stale state*: the response of an earlier attempt
in the record, the previous number of an extension, the answer to a pickup.
The `hazards` list of `PROJECT.json` gives each with its line and the properties
that watch it; those without a property carry a note.

### What makes each component correct

* dialler: never two calls to one entry at once, never a call after an answer,
  at most MAX_ATTEMPTS; an uncertain attempt is not repeated; outcomes are true.
* quarantine: audit before change, no committed line without the change.
* admission: one Originate per idempotency key and TTL, limits hold.
* AMI client: at-most-once remote calls; a reply is the caller's own, unless a
  send before it was cut short; nobody waits in vain; events in order.
* queue mirror: who waits is shown, a row ends with its own call.
* SLA, pauses, reports: every call or second once, on its day and its owner, in
  memory and in the files together.
* panels and local reports: their figures say one thing and mean their names.
* recordings: what a tool confirmed stays, and access follows it.
* tenants: a request is done, undone, or its answer says that it is not.
* extensions: unique names and numbers; a success means that store, files and
  Asterisk agree.
* users: changes that overlap do not remove the last administrator; a session
  has the role its user had while it was opened, and the factors that needs.
* policies: a listing is complete, a write that is confirmed was accepted.

## 2. Modules

| module | models | proofs |
|---|---|---|
| `CustomerOutreach` | what the dialler owes a customer (abstract) | |
| `OutboundClaims` | dialler, correlation, event worker, quarantine command, crash and restart | `OutboundClaimsProofs` |
| `OriginateAdmission` | click-to-call admission | `OriginateAdmissionProofs` |
| `RemoteCalls` | what callers of `send_action` may rely on (abstract) | |
| `AmiClient` | the AMI client of queue-api | `AmiClientProofs` |
| `AmiStream` | events on their way to the trackers, the clock, what goes wrong around the process | |
| `WaitingMirror` | waiting-call mirror, pickup | |
| `QueueSla` | service level and its history | `DeskRecordsProofs` |
| `AgentBoard` | membership, pauses, extension states, presence | |
| `CallRecords` | metrics, reports, surveys, missed calls, quality, fraud, notices | `DeskRecordsProofs` |
| `QueueDesk` | composes the four: one `handle_ami_event`, one restart | `QueueDeskProofs`, `DeskRecordsProofs` |
| `Supervision` | overview, diagnostics, cockpit | `DeskRecordsProofs` |
| `Insights` | the local reports; composes the stores they read | |
| `RecordingAccess` | catalog, credentials, tools, listing, serving, retention | `RecordingAccessProofs` |
| `AsteriskConf` | contents and validation of the generated files | |
| `AdminPublication` | extension handlers, tenant wizard, publication | `AdminPublicationProofs` |
| `AdminUsers` | users file, logins, sessions | `AdminRequestsProofs` |
| `AdminPolicies` | AstDB policies over the AMI client of admin-api | `AdminRequestsProofs` |
| `MC*` | instances for TLC | |

### OutboundClaims

State: `catalog` is both JSON files (status, attempts, attempt id, response,
age flag, group, source of each entry); `flock` is the lock of each catalog,
whose holder is an HTTP thread (which then also has the process-wide RLock) or
the command; `http[t]` says how far a dial-next request has come; `cli` the
quarantine command; `wire` the event queue; `call[a]` and `rings[r]` belong to
Asterisk; `owner` and `heard` are history.

A dial-next request is `DialCheck` (look without lock), `DialClaim` (lock, read
again, reserve and persist), `DialSend`, `DialReply` (reply, error, timeout or
lost connection: all leave the claim as it is), or `DialGiveUp`. `HandleEvent`
is `handle_ami_event` for the events that reach the catalogs; `LoseEvent` is its
`except` branch. `QuarantineRequest`, `QuarantineWrite`, `QuarantineCommit` and
`QuarantineDies` are the command with its crash points; `Restart` kills
queue-api anywhere and starts it again.

Data that no property tells apart is gone: numbers and tenants of a DialEnd are
one bit (the customer's leg or another one), the age of a claim is a flag, an
unreadable catalog is the error branch of the handler that reads it. Asterisk
may repeat events, report late, or answer an Originate it got after the
connection was given up; it does not report an outcome that did not happen.

### OriginateAdmission

`Ask` reads the clock; `RefuseStale`, `RefuseRepeat`, `RefuseLimit` and
`Reserve` are the branches of `reserve` under its lock, each with the clean-up
that precedes it; `Finish` is what the handler does with the AMI's answer, at
any later time. `snapshot`, which cleans up too, is left out: nothing in the program
calls it. (If a thread did, `OncePerKey` would not hold: `snapshot` may clean up with a
clock reading older than the newest reservation, take it for one from the future and
forget it.) Time is a natural number that `Tick` advances. Validation of arguments is
the domain of `Request`.

### AmiClient

A call goes through `Begin`, `Check`, `Register`, `Lock`, `Send`, then `Wake` or
`Timeout`, and `Leave`, the `finally` clause; `NotConnected` and `SendFails` are
its early exits. The reader goes through `TakeFrame`, `DispatchReply` or
`DispatchEvent`, `Tell`, `Signal`; `Overflow`, `BadFrame` and `StreamEnds` lead
to `FailPending`, `Interrupt` and `ReaderDies`. `TakeEvent`, `FinishEvent`,
`WorkerEnds` are the worker, which may make calls while it handles an event.
`Perform`, `Emit` and `Break` are Asterisk and the network: replies in any
order, a break that delivers any part of what was under way.

The socket keeps a timeout of one second, so `SendFails` needs no broken link: it
may leave a part of the action in the stream (`WrittenInPart`, `fragment`), and
since nobody closes the connection the next `Send` completes a frame that holds both
(`Request`). Of such a frame Asterisk performs one action at most, the torn one, the
last or none, and its reply bears either ActionID or none that anybody knows
(`ReplyNames`). `RemoteCalls` says what callers are left with: a torn action is never
"refused", and a reply may tell of the torn action in place of the caller's own
(`readAs`); the run `ami_replies` shows it. The modules built on the client
(`OutboundClaims`, `OriginateAdmission`, the pickup of `WaitingMirror`, `AgentBoard`)
take a reply for the caller's own: they assume that no send was torn before it. ActionIDs are
random tokens in the code, fresh in the model, so the "Duplicate AMI ActionID"
branch has no action. `stop` is modelled where the program calls it, after a
Login without success; `main` connects once, so there is no reconnection.

### AmiStream, WaitingMirror, QueueSla, AgentBoard, CallRecords, QueueDesk

`wire` holds the AMI events that `handle_ami_event` has not had; `Take` lets one
arrive in its turn, early, or a second time. `now` is what `time.time()` returns:
`SetClock` puts it forward, or back, which is a mishap. `mishaps` counts them and
remembers their kinds, so that a property can say which of them it survives
(`Never({...})`). `HandleAmiEvent` of `QueueDesk` is the whole handler: the
trackers in the order of the source, and a tracker that raises (a history that
cannot be written, a notifier) ends the handling of the event with the trackers
before it changed. `Restart` loses what is only in memory. `DeskSpec` lets every
part take its steps in any order; the instance for TLC exercises one part in a
behaviour, the proofs are about `DeskSpec`.

`WaitingMirror`: in Asterisk, `Enter`, `LeaveQueue` and `HangUp` move a call,
named by its Uniqueid, whose channel name a later call may use again.
`ApplyEvent` is the mirror with its guards on Uniqueid and queue, its capacity
refusals, expiry and counters. A pickup is `QueueForChannel` (look up the row),
`Redirect`, `PickupAnswer` (remove the row by channel name and queue).

`QueueSla`: `Rollover` writes a day's rows, `RolloverFails` has an append refused
by a full history, failed, or short. `AgentBoard`: `MemberApply`, `PauseHears` and
`HintApply` hear events; `MemberChange`, `SetPause` and `DeviceChange` are the
requests and Asterisk's own changes; a thread goes through `AskPresence` (load and
change) and `SavePresence`.
`CallRecords`: `Cdrs` the counters, `RecordsHear` the log, lists, alarms and
notices. CDR texts, addresses and messages are values.

### Supervision, Insights

Pure computation: `TakeSnapshot` makes the overview, the diagnoses and the cockpit
of each company from one snapshot of the trackers, `ReadFile` all local
reports of a file. They are checked against definitions of what the figures
mean (least counts, nearest ranks, exact fractions), never against another copy of the
formula. Seconds, dates and names are numbers; a field may be absent or unusable.

### RecordingAccess

A tool locks a policy file, reads, checks, writes a copy and replaces the file, or
dies between any two of these; viewers read without the lock and use what they
read later. The evidence of a classification (CDRs, names, a reviewed manifest) is a set of records. The
rows of a file are a set too, and a catalog is a function from recordings to entries.

### AsteriskConf, AdminPublication

A file is the set of entries a reload would load; validations are predicates. The
three kinds of extension request and the two of the wizard share the actions,
in the orders the module's comment gives. `conf` is what is on disk, `running`
what Asterisk has loaded, `maps` and `dids` its AstDB. Every write, AMI action, reload
and compensation may fail; an action or reload that failed may have happened;
`Crash` ends the process between any two steps. `history` remembers what makes
a promise void: overlapping requests, a crash, a file not put back.

### AdminUsers, AdminPolicies

`users` is the file, whole, truncated or with the tail of a longer one; each
request reads it and writes it whole, without a lock, so that of two one is lost.
`Start` makes the first administrator, or comes up with nobody to log in when no
password is configured. A login is one request, or two when the second factor is on:
the session of the first is pending, and the second, `verify`, opens another with the
role read then. As in the code, setup, confirm and disable of the second factor are open
to a pending session too. A session keeps its role until it ends.

In `AdminPolicies` a request opens a connection of its own, sends one action and
reads frames. `ReadReply` and `ReadTree` take the next frame of the answer, or one
of `Strays` that came in front of it: a notification, or a reply, an entry or an end
that answers another action. `AfterReply` and `AfterFrame` are what the client makes of
it: `Ours` is the comparison of ActionIDs, and there are limits on events before a
reply, on unrelated frames, entries and frames of a listing. Frames of others with the
names of an answer are what those checks are written against; Asterisk by itself sends
other sessions' events only. `Cut` breaks the connection at any frame. Only three
writes are `Confirmed`: the handlers of the others answer 200 whatever the reply
says (`server.py:682, 704, 731, 1045, 1094, 1115`), and nothing is claimed of them.

## 3. Runs

Every run ends without deadlock checking: the system may be idle for ever (no
request, no event), and the bounds stop the environment.

| run | question | bounds |
|---|---|---|
| `claims_callbacks` | claim under lock, audit trail, idempotent requests | 2 callbacks, 2 threads, 4 tokens (both entries exhaust their 2 attempts), a crash, queue of 2 |
| `claims_mixed` | late and repeated events across both catalogs; refinement of `CustomerOutreach`; requeueing, final states | callback with 1 attempt, contact with 2, 2 threads, a crash, 3 events |
| `claims_liveness` | requests end, locks come back | 2 threads, both catalogs, one event |
| `claims_failure_response` | the comment "no auto-redial" against the code | violated, see findings |
| `admission_limits` | one Originate per key and TTL; rate, in-flight and memory limits; rows against late answers | 2 threads, 2 extensions of a tenant, 3 tickets, limits 1 and 2, window 2, time 3 over a TTL of 3 |
| `admission_parallel` | what a test asserts of repeated requests | violated, see findings |
| `ami_calls` | the client is `RemoteCalls`; waiters; order of events, overflow | 3 calls of 4 threads, queue of 1, 3 events |
| `ami_replies` | what manual 121 says of replies | violated, see findings |
| `ami_liveness` | calls end, queued events are handled | 3 calls, one event |
| `desk_events` | mirror, service level, agents, records against Asterisk; panels and local reports; recordings | below |
| `admin_api` | extensions, wizard; the last administrator, sessions and the second factor; answers of AstDB among frames of others | below |
| `admin_removal` | what a manual says of a removed tenant | violated, see findings |

Why these are enough. Two threads already show every race on one lock; a third
would repeat one of them. An entry needs one attempt more than a stale event
refers to, so two attempts and three events (an old result, its repetition, the
new result) reach every fencing case. The admission needs a reservation, its
expiry and a second reservation, with a third to meet a limit. In the client a
break, an overflow and a late reply can each meet a call at each of its steps
with one other call in progress. The theorems of section 4 do not depend on any
bound.

**`desk_events`** runs `QueueDesk`, the panels, the reports and the recordings,
in ten parts. The parts share only the clock and the stream, so a behaviour exercises one and
their state spaces add up instead of multiplying. Each has one mishap
(restart, setback, repetition, disorder, failed write), one event that the
process lags behind, and clocks on two days:

* `reuse`: two calls in turn on one channel name, two stays, the pickups.
  `limits`: calls on two names, with a mirror of two rows, one per queue; here
  nothing is repeated, restarted or hung up after the queue, which `reuse` does.
* `sla`: three offers of two queues with two Uniqueids or none, remembered
  two; a history of three rows. Of the second queue only calls with an id that
  were answered in time: it is there for the order of the rows.
* `agents`: two agents, two queues, three changes, two seats; `presence`: two
  threads, three changes. `records`: two CDRs of two legs; `calls`: three
  outgoing calls, surveys, quality reports, lists of two.
* `cockpit`, `reports`: one snapshot or file, out of some thousands built around the
  limit of each measure (`MCReports`): rows at, below and above a limit,
  equal rows, none, damaged ones, streaks of five days.
* `access`: two tools, three runs of them, one viewer, two recordings with CDRs of
  one and of two companies. Files come and go while no tool is at work.

In `records` an event is heard with one reading of the clock for both trackers, and
the two histories and the day's keys never grow so far that the oldest are evicted:
a midnight between the two readings and an eviction are outside this run.

Names that mean the same (calls, legs, tools, ids) are first used in one order, and
the clock stands still where no tracker of the part reads it; `MCDesk` states
each of these restrictions.

**`admin_api`** has three parts, of which a behaviour exercises one, because they share
no state (`MCAdmin`). The publication part has two threads, three requests of two
names, two numbers and two tenants, and two faults or a crash: the first may hit any step,
the second its compensation. After a fault requests come one at a time: no
property promises anything of a failure among overlapping requests except
uniqueness and the wizard's atomicity, which its lock gives. `SuccessIsWhole`,
`MapsFollowStore` and `FilesAgree` say so: they speak of histories without overlap, and
two requests that do overlap may leave the mapping of an old number behind.

The users part has two threads, two users, two tokens, a crash and four requests. It
starts without a file, or with one that has an administrator with the second factor on
and another with it off: a login and a verification are two requests, and the other two
set up the factor again, change the row or remove it while the verification looks; two
removals may overlap with both administrators there. The policies part has two threads, three requests, one break, two
frames of others and limits that they reach: the second event before a reply fails
the request, so does the second unrelated frame of a listing, and a listing of two
entries with one of them exceeds its three frames. An answer after a skipped frame,
and a listing of two entries, both occur.

**Fairness.** `OutboundClaims!Fairness` asks that threads and command, once
able to, take their next step: they are scheduled by the operating system, the
wait for Asterisk has a timeout of five seconds and the wait for `flock` a
timeout too, which is why giving up is inside the fair actions. Nothing is asked
of Asterisk, of the network, of new requests or of time. `AmiClient!FairSpec`
likewise: threads run and timeouts expire; Asterisk need never answer. The lock
of `sendall` needs no strong fairness because a model behaviour has finitely
many calls. The other modules state no fairness: their requests are sequences of
local steps, and calls on a connection whose end is the client's timeout.

### Findings

* `claims_failure_response`: a stored `originate_response` survives into the
  next attempt, so a "Failure" for that attempt is ignored and its DialEnd puts
  the entry back to "pendente" although `server.py` promises manual review.
* `admission_parallel`: a repetition of a request in progress may be answered
  "unavailable" (HTTP 400) instead of "pending" (409), because the clock is read
  before the lock.
* `admin_removal`: `remove_tenant` takes a tenant's extensions out of the store
  and leaves their `extension-map` entries in AstDB; manual 82 has the operator
  verify that they are gone.
* `ami_replies`: a send that times out half way on a live connection leaves its
  fragment there, and the next caller may be told "Success" of an action that
  Asterisk did not perform; manual 121 correlates replies by ActionID alone.

### Discrepancies and limits seen, without a run

* Presence and pauses are kept by the name of an extension and looked up by the
  number of its hint (`presence.py:101-119`, `agent_pause.py:214-227`), so the
  panel of manual 34 shows them only where the two are equal.
* `insights_campaigns.py:6-9` does not know the status `revisao_manual` that
  `campaigns.py:26-29` has; the report counts such contacts as of no status.
* The lists of missed calls, alerts and quality reports have one bound for all
  companies (`missed_calls.py:88`), MAX_CALLBACKS counts finished entries
  (`callbacks.py:223`), and expired credentials count towards MAX_CREDENTIALS
  until they are revoked (`recording_credentials.py:62`, `queue_credentials.py:79`).
* The diagnosis rounds the service level to one decimal and the cockpit to two:
  from 79,95 to 79,995 % only the cockpit alerts.
* A day of the history whose append failed half way is written again from its
  first row; `HistoryIsTrue` says what may then be counted twice.
* A pause for another reason starts the clock again and the stretch before it is
  never written (`agent_pause.py:105-131`). That also happens between two pauses:
  when the end of the first cannot be written, the store still shows it as running,
  and its time is lost with the next pause that has another reason.
* Nothing connects the AMI client of queue-api again after its stream ends.
* `remove` after a pickup compares the queue and not the call (`queue_state.py:205`):
  a late answer takes away the row of another call under the same channel name. That is
  the pickup that `MirrorFollowsQueue` excepts; `CountersBalance` counts it as removed.
* Of two changes of presence that overlap one is lost (`presence.py:81`), which
  `BoardFollowsAsterisk` excepts.
* A role taken away in the users file stays with the sessions opened before
  (`auth.py:66`); `SessionsFollowTheFile` speaks of the file as it was read for them.
* `server.py:102-105` says of a pending session that it "nunca consegue fazer nada além
  de terminar a verificação". Setup, confirm and disable of the second factor ask for any
  session (`_require_auth`, `server.py:496, 514, 535`), so in the code and in `AdminUsers`
  a pending one can begin them and change its user's row. `SessionsFollowTheFile` does not
  deny it: it says that the code was compared with some secret of the row, not that the
  secret was older than the password.
* A tool may report an error after `os.replace` has succeeded.

## 4. Proofs

`OutboundClaimsProofs` proves the safety properties of the dialler from the named
assumption `ConstantsAssumption` only (entries are numbers, the catalogs are
disjoint, limits are positive, `None` is nobody).

None of the safety properties is inductive alone: that an outcome is true
depends on what is still queued, on who holds the locks, and on which attempts
are over. `IInv` is the conjunction that is:

* `RecordOK`: what an entry says agrees with its attempt's call and with the
  number of times the customer's telephone rang;
* `AttemptsAreFenced`: the attempts an entry has left behind all failed;
* `TokensAreFresh`, `WireOK`: unminted tokens were never sent; a queued DialEnd
  of the customer's leg tells what happened (this is what makes a late event
  harmless);
* `ThreadOK`, `CliOK`: who is inside a critical section holds its lock, and a
  claim about to be sent is still the current one;
* `ReviewIsAudited`.

One lemma per action shows that it preserves the parts it can disturb; frame
lemmas cover the others. From `IInv` follow `AttemptsFenced`, `OutcomesTrue`,
`SentClaimsCurrent`, `ReviewAudited`, and the action properties
`OnlyFailuresRequeue` and `FinalStaysFinal` by one lemma on all the ways a
status can change. `RequestsUnique` has an invariant of its own.
`ImplementsOutreach` maps `calls` to `rings` and `line` to what the calls of an
entry's attempts are doing: only `AsteriskTakes` and `CallEnds` move the line,
and `IInv` supplies that no other attempt of the entry is alive when one rings.

`AmiClientProofs` proves every safety property of the client from
`ClientAssumption` (thread names differ, the queue has room for one event). Its
`IInv` adds to the type: `CallsOK` (one call per ActionID), `RequestsOK` (an action
is in one frame at most, or in the fragment, none of those there has been read, and
the fragment holds torn actions only), `UnsentOK` (what was not sent or was refused
has left nothing in the stream), `ComingOK` (a reply to an ActionID says what Asterisk
did with the action that it read under that ActionID, wherever the reply is: under way,
in the reader, in a waiter),
`WaitersOK` (a waiter is registered, taken for its reply, taken to be failed, or
ready, and never two of these; a caller that waits has one; after the reader has
taken what it fails, no caller that got past the lock is still registered),
`PendingIsInProgress`, and `OrderOK` (the events under way follow the ones given
to the handler without a gap). `NobodyForgotten`, `PendingBounded`,
`EventsInOrder` and `WaitersSettledOnce` follow; `ImplementsRemoteCalls` maps
`Leave` to the reply, the refusal or the giving up that its outcome says and
every step of reader, worker and network to a stutter.

`OriginateAdmissionProofs` proves from `AdmissionAssumption`: `TicketsOK` (a
ticket belongs to one Originate, which has no outcome while the ticket is in
flight or a thread waits for it) and `RowsOK` (a row is that of the last
Originate of its key, and a ticket in flight with a key has its row; `_cleanup`
forgets both together because they bear the same time) hold with any threads, so
`RowsTrue` needs no more. `KeyOriginatedOnce` needs `KeysOK` too (an Originate that
bars its key has its row), which holds because `Stale` keeps the times that `_cleanup`
is given from going back.

Its bounds need no induction over the sets that they count. `MemoryBounded`: the
tickets in flight, the rows and the windows grow only below their limit. For
`LoadIsBounded`, `SentOK` says that an Originate without an answer and younger than
the TTL has its ticket in flight, so there are no more of them than tickets. For
`RateIsBounded`, a window "counts" the Originates when they can be numbered with
different positions of it, each with its own time there (`Counted`); trimming the
window moves the numbers, and an admission takes the number after the last.

`RecordingAccessProofs` proves `DecisionsHold`, from `AccessAssumption`, with any
tools, tokens, viewers and recordings, whatever a tool is killed between. `LocksOK`
says that a tool past its lock holds it and that what it loaded is still the
file; so a tool that replaces a file loses nothing that another confirmed
(`TokensOK`, `CatalogOK`), and a viewer that read a whole file may still use it
unless its token was taken back meanwhile (`ViewersOK`).

`AdminRequestsProofs` proves from `UsersAssumption` (a file of an earlier process that
has anybody has an administrator), with any users, tokens and threads, `UsersTyped`, `AdminAlwaysKept` and `SessionsTrue`. `AdminKept` is not
inductive: updates and removals overwrite one another, so `AdminStays` says it also
of the rows that each request in progress is about to write, and of a file that is
whole while the server is down; `Progress` says that no request is in progress then, and that
a login or verification has seen every version of its user's row since it began, and that a verification looked only at rows with a secret,
which gives `SessionsFollowTheFile`. Of the requests on AstDB it proves
`ConfirmedAnswersAreTrue` under `PoliciesSpec`, for any threads, families, limits and
strange frames: what a thread kept of a listing so far and what it would keep of the
frames still to come are together the family as it was when Asterisk took the action
(`Listens`), because a strange frame that is read (`StrayFrames`) fails one of the two
filters of `ami_client.py`, by event and by ActionID, and is skipped or ends the request.

`AdminPublicationProofs` proves `SagasAtomic` and `NumbersUnique` from
`PublicationAssumption` (requests have the fields the handlers read, `None` is no
thread), with any threads, requests, faults and restarts. `NumbersAreUnique`
needs that every set of extensions which may be written back is unique too: a
removal restores the snapshot it took (`Extensible` of `exts`). For
`SagasAreAtomic`, `Saga` says of a wizard at work, for each `pc`, whether its
tenant is in the catalog (`Catalog`), where its DID leads (`Routing`), what the
store holds (`Extensions`), and that it has its locks (`Locked`). Only the
wizard changes catalog and DIDs, and nobody saves the store while a removal has its
lock, so a step of another thread changes none of it (`OneMoves`); an extension
handler asks AstDB for mappings only (`MappingsOnly`). What the files say plays no
part in this argument.

`MapsFollow` adds to it `MapsOK`: the AstDB actions that a handler has still to
do lead from the maps there are to the maps of the store (`Led`), while a
removal leaves the maps alone.

Its last part proves `FilesAgree` and `SuccessIsWhole`. While no two
requests met and nothing crashed, one request is at work with the files. `Writing`
says, for each `pc`, which of its files it has written and that the changes
ahead start from what the files contain; `Current`, that what it publishes is the
store and the known tenants; `Loaded`, that after the reload Asterisk runs the
files. The heart is `Recoverable`: there are files `b` that agree, are of the
extensions that a way back would store, and are what undoing the changes made
gives. Finding it showed where the promise ends: of two wizard tenants, when the
removal of one fails, cannot put the store back and leaves the files whole, the removal
of the other works on a store that the files no longer follow. That is why
`FilesAgree` counts a removal's failed restoration of the store as a failure of its own.

`QueueDeskProofs` proves what the mirror and the board show under `DeskSpec`, with
every part at work at once, any lag of the process and any mishaps. What is shown
agrees with Asterisk only when nothing is under way, so the invariants speak of the
events on the wire. `MirrorInv`: every event and every row tells of a stay there was
(`EventOK`, `RowOK`); while events come in their turn, what a row or a join says
either still holds or its end is under way, and before the next join of the same
channel name (`RowEnds`, `JoinEnds`). That holds whatever the order of a call's last
events and whoever takes its name, and with an empty wire it says that nobody is
shown who does not wait (`NobodyElseIsShown`). Out of order too, an event that ends
a row tells of the end of its own stay, hence `RowsEnd`. `ShownInv` adds that
whoever waits is shown or announced, and nothing else of the channel comes after
(`Announced`), unless a refusal, expiry or pickup left its trace. `MirrorFollows` assumes
`Roomy`, room to count every company, for that half only: beyond `MAX_TENANTS_WITH_COUNTERS` a
refusal is not counted and leaves no trace. `BoardInv` says the same of seats, hints
and pauses: the last event under way about a seat says how it is, and without one
the row does (`SeatHeard`, `HintHeard`, `PauseHeard`); a taken seat has a row to stay or
one that comes (`Comes`), and no more rows can come than changes were made, which
leaves room for them. From `BoardAssumption` (finitely many agents and queues, names of
reasons that are not the model's own) follows `BoardFollows`.

Two more theorems of that module, and three of `DeskRecordsProofs`, are about sums, stated as the number of elements of a
set: a second of an entry is a pair of the entry and its number in it, a count of a
counter a pair of the counter and its number. `PauseTime` follows from `TimeInv`,
agent by agent: while no clock went back, what was written and what runs is no less
than what was heard unless the process restarted or a pause took another reason
(`NoneLost`), and no more unless a row could not be written (`NoneTwice`). The
attempt to prove it is what showed the case of the failed end of a pause above.
`CountersAgree` follows from `MirrorInv`, `ShownInv` and the step of each operation on both
sides of the balance; of a prune, where any number of rows goes at once, the rows of a
company are numbered and the numbers matched with its new counts
(`Numbered`). It assumes `Roomy`, since a company that is not counted is shown without a join.

`VolumeNoticed` is the first of those in `DeskRecordsProofs`. `VolumeInv`: what the tracker keeps of a
number are distinct calls heard of it, in order of their times (`Traced`, by an
injection `f`), and a call it forgot is older than the horizon of a day, or no later
than all it keeps and it is full (`Forgettable`). So the calls of the window that it
keeps are as many as were heard, or more than `Rate` both ways. It needs from
`RecordsAssumption` that the window is no longer than the horizon, as `is_abnormal`
requires; a clock set back, a restart, a full list of alerts and more numbers than
`MaxTracked` are excluded by the property itself.

`HistoryTrue` is the next. `SlaInv` says of a tracker, a file and the calls heard of that
they account for each other (`SlaHolds`): of every day and queue, rows and counters in memory
are no fewer than the calls (`NoneMissing`); while no clock went back, the rows are of days
that are over (`InTime`); and as long as few calls were heard of (`FewHeard`), of the running
day those calls are counted, once each, that have no Uniqueid or whose key is remembered
(`OnceEach`, `MetOnce`). Being said of any three, it is carried through a step in two parts,
the closing of a day and then the recording of a call (`Carried`): a closed day's counts
move to the file, one row per queue (`RolledOver`), of a day that could not be closed the
first rows may be there already (`DayLeft`), and a new call's key finds room since the keys
remembered are as many calls heard of (`RoomForKey`, an injection). It needs
`SlaAssumption`, that at least one key is remembered.

`ReportsTrue` is the last. `RecordsInv` says what each counter, of the house and of a
company, owes to the CDRs heard of (`Tallies`): while they have no more keys (leg and
disposition) than `MaxCdrIds`, it remembers exactly those keys and has counted each once
(`Remembers`), and as long as no key was heard twice its calls answered and its seconds of
talk are those of the CDRs; companies beyond `MAX_TENANTS` are excluded by the property
(`CompaniesTally`). The log has one line per CDR unless a line was refused or torn
(`LogFollows`). A second of talk is a pair of a CDR and its number in it, so that a new
CDR adds a disjoint set of seconds. That needs no induction over the log, whose report is then
a count over the same CDRs (`ReportOfDay`). It assumes of `RecordsAssumption` that at least one
key is remembered, talks are whole seconds, and companies and extensions are finitely many.

Of the panels two facts are proved that do not depend on how their measures are counted:
the aims of the cockpit are the least that reach them (`AimsAreLeast`), and cockpit and
diagnosis OP-12 are alarmed only when the service level really is below 80 %, up to
their roundings (`AlarmsAreTrue`).

Only model-checked: all liveness properties (fairness and ENABLED are outside
the prover's reach), and `PanelsConcur` and `LocalReportsConcur` as a whole, the
pure reports, which add up and sort rows with folds: an induction the installed provers
cannot do. Type invariants are theorems where there is a proof module and not run again.

## 5. Not modelled

* Asterisk itself: dialplan and AGI scripts are the configuration of an external
  program; its calls, queues, AstDB and events are the environment of the models.
* AI worker: one thread that processes one recording at a time and appends its
  result. Provisioning: serves files over mTLS; certificates and file checks.
* Backup, release scripts, web pages: I/O around other programs. Laboratory and
  tests: they exercise the rest.
* In part: transports of notifications and screen-pop (an outgoing SMTP or HTTP
  request whose failure is modelled), the offline preflight of the queue
  identities (changes nothing), the sound files of overflow messages, opening
  paths without following links, formats of names, passwords and numbers.

What would be worth adding: `SessionsTrue` and `FilesAgree` where requests of both admin
components meet in one process.
