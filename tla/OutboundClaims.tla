---------------------------- MODULE OutboundClaims ----------------------------
(***************************************************************************)
(* The outbound dialler of queue-api: the callback list (callbacks.py),    *)
(* the campaign contact lists (campaigns.py), the HTTP handlers that claim *)
(* the next entry and send AMI Originate, the AMI event worker that        *)
(* applies OriginateResponse and DialEnd (server.py), and the quarantine   *)
(* command an operator runs in another process (reconcile_outbound.py).    *)
(*                                                                         *)
(* Two JSON catalogs, each protected by outbound_lock: an RLock shared by  *)
(* the threads of queue-api plus flock on <path>.lock between processes.   *)
(* A catalog write is an atomic rename, so a crash leaves the old or the   *)
(* new snapshot. An entry that is "discando" is a CLAIM: its attempt id    *)
(* went to Asterisk as ActionID and, prefixed, as ChannelId.               *)
(*                                                                         *)
(* Abstractions. Phone numbers and tenants of an event are one bit: the    *)
(* DialEnd is about the customer's leg (number and tenant of the record)   *)
(* or about another leg. requested_at follows the order of creation, so an *)
(* entry's own id, a natural number, orders the queue. The age test of the *)
(* quarantine is the flag "old", set by the passing of time. A reply of    *)
(* send_action is the caller's own: no send was torn before it (AmiClient  *)
(* has those).                                                             *)
(***************************************************************************)
EXTENDS Naturals, Sequences

CONSTANTS
  Callbacks,      (* callback ids, in creation order; all of them created  *)
                  (* is _MAX_CALLBACKS reached                             *)
  Contacts,       (* campaign contacts, in list order                      *)
  Tenants,        (* each tenant has one callback queue                    *)
  Campaigns,
  CampaignOf,     (* [Contacts -> Campaigns]                               *)
  CallbackMax,    (* MAX_ATTEMPTS of callbacks.py                          *)
  ContactMax,     (* MAX_ATTEMPTS of campaigns.py                          *)
  Attempts,       (* tokens secrets.token_hex(16) can return               *)
  Sources,        (* Uniqueids of calls that ask for a callback            *)
  Threads,        (* HTTP worker threads                                   *)
  EventQueueCap,  (* MAX_AMI_EVENTS_QUEUED                                 *)
  MaxEvents,      (* bound: events Asterisk emits in a behaviour           *)
  MaxRestarts,    (* bound: crashes of the queue-api process               *)
  None            (* Python's None                                         *)

Records == Callbacks \cup Contacts
Groups  == Tenants \cup Campaigns

ASSUME ConstantsAssumption ==
  /\ Records \subseteq Nat
  /\ Callbacks \cap Contacts = {} /\ Tenants \cap Campaigns = {}
  /\ CampaignOf \in [Contacts -> Campaigns]
  /\ CallbackMax \in Nat \ {0} /\ ContactMax \in Nat \ {0}
  /\ EventQueueCap \in Nat /\ MaxEvents \in Nat /\ MaxRestarts \in Nat
  /\ None \notin Attempts \cup Sources \cup Groups \cup Records
  /\ Threads \cap {"free", "cli"} = {}

VARIABLES
  catalog,   (* both JSON catalogs                                         *)
  audit,     (* <path>.audit.jsonl of both catalogs                        *)
  flock,     (* [Paths -> holder]: a thread, the quarantine CLI, or "free" *)
  http,      (* HTTP threads serving a dial-next request                   *)
  cli,       (* the quarantine process                                     *)
  amiUp,     (* AMIClient._running                                         *)
  wire,      (* AMIClient._event_queue                                     *)
  call,      (* Asterisk: what became of the Originate of each attempt     *)
  rings,     (* Asterisk: calls set up towards each record's customer      *)
  owner,     (* history: the record each attempt id was minted for         *)
  heard,     (* history: the first OriginateResponse handled per attempt   *)
  emitted, restarts   (* the two bounded counters                          *)

vars == <<catalog, audit, flock, http, cli, amiUp, wire, call, rings, owner,
          heard, emitted, restarts>>

asterisk == <<call, rings>>
process  == <<flock, http, cli>>
channel  == <<amiUp, wire, emitted>>

-----------------------------------------------------------------------------
(* Values.                                                                 *)

Paths   == {"callbacks", "campaigns"}
Path(r) == IF r \in Callbacks THEN "callbacks" ELSE "campaigns"
PathOf(g) == IF g \in Tenants THEN "callbacks" ELSE "campaigns"

MaxAttempts == [r \in Records |-> IF r \in Callbacks THEN CallbackMax ELSE ContactMax]

(* "concluido" stands for callbacks' concluido and campaigns' atendida;    *)
(* "ausente" is an entry the catalog does not hold yet.                    *)
Statuses == {"ausente", "pendente", "discando", "concluido", "esgotado",
             "cancelado", "revisao_manual"}

Responses == {"Success", "Failure"}

Entry == [status   : Statuses,
          attempts : Nat,
          attempt  : Attempts \cup {None},
          response : Responses \cup {None},
          old      : BOOLEAN,
          group    : Groups \cup {None},
          source   : Sources \cup {None}]

Absent == [status |-> "ausente", attempts |-> 0, attempt |-> None,
           response |-> None, old |-> FALSE, group |-> None, source |-> None]

(* The entry add_callback_request appends, or create_campaign per contact. *)
NewEntry(g, s) == [status |-> "pendente", attempts |-> 0, attempt |-> None,
                   response |-> None, old |-> FALSE, group |-> g, source |-> s]

(* The states of an Originate: not sent, on the socket, rejected by        *)
(* Asterisk, in progress, and the two ways the customer's leg can end.     *)
CallStates == {"none", "sent", "refused", "ringing", "answered", "failed"}

(* DialEnd: how the customer's leg ended, or that some other leg did.      *)
LegEnds == {"answered", "failed", "other"}

Event ==
  [type : {"OriginateResponse"}, attempt : Attempts, response : Responses] \cup
  [type : {"DialEnd"}, attempt : Attempts, end : LegEnds] \cup
  [type : {"CallbackRequest"}, tenant : Tenants, source : Sources \cup {None}]

IdleHttp == [pc |-> "idle", group |-> None, attempt |-> None]
IdleCli  == [pc |-> "idle", record |-> None]

HttpState ==
  {IdleHttp} \cup
  [pc : {"checked"}, group : Groups, attempt : {None}] \cup
  [pc : {"claimed", "sent"}, group : Groups, attempt : Attempts]

CliState == {IdleCli} \cup [pc : {"requested", "written"}, record : Records]

TypeOK ==
  /\ catalog \in [Records -> Entry]
  /\ audit \subseteq [phase : {"requested", "committed"}, record : Records,
                      attempt : Attempts \cup {None}]
  /\ flock \in [Paths -> Threads \cup {"free", "cli"}]
  /\ http \in [Threads -> HttpState]
  /\ cli \in CliState
  /\ amiUp \in BOOLEAN
  /\ wire \in Seq(Event)
  /\ call \in [Attempts -> CallStates]
  /\ rings \in [Records -> Nat]
  /\ owner \in [Attempts -> Records \cup {None}]
  /\ heard \in [Attempts -> Responses \cup {None}]
  /\ emitted \in Nat
  /\ restarts \in Nat

Init ==
  /\ catalog = [r \in Records |-> Absent]
  /\ audit = {}
  /\ flock = [p \in Paths |-> "free"]
  /\ http = [t \in Threads |-> IdleHttp]
  /\ cli = IdleCli
  /\ amiUp = TRUE
  /\ wire = <<>>
  /\ call = [a \in Attempts |-> "none"]
  /\ rings = [r \in Records |-> 0]
  /\ owner = [a \in Attempts |-> None]
  /\ heard = [a \in Attempts |-> None]
  /\ emitted = 0
  /\ restarts = 0

-----------------------------------------------------------------------------
(* outbound_lock.                                                          *)

(* _LOCAL_LOCK, the RLock of the queue-api process.                        *)
LocalFree == \A p \in Paths : flock[p] \notin Threads

(* A thread of queue-api can enter outbound_lock(p).                       *)
CanLock(p) == LocalFree /\ flock[p] = "free"

CanLockBoth == \A p \in Paths : CanLock(p)

-----------------------------------------------------------------------------
(* Operations on the catalogs.                                             *)

Pending(g) == {r \in Records : catalog[r].status = "pendente" /\ catalog[r].group = g}

(* next_pending_callback and next_pending_contact.                         *)
NextPending(r, g) ==
  /\ r \in Pending(g)
  /\ \A q \in Pending(g) : r <= q

(* mark_callback_calling and mark_contact_calling. originate_response is   *)
(* not among the fields they assign.                                       *)
MarkCalling(r, a) ==
  /\ catalog[r].status = "pendente"
  /\ catalog[r].attempts < MaxAttempts[r]
  /\ catalog' = [catalog EXCEPT ![r].status   = "discando",
                                ![r].attempts = @ + 1,
                                ![r].attempt  = a,
                                ![r].old      = FALSE]

(* mark_callback_result and mark_contact_result.                           *)
ResultStatus(r, how) ==
  IF how = "answered" THEN "concluido"
  ELSE IF catalog[r].attempts < MaxAttempts[r] THEN "pendente"
  ELSE "esgotado"

MarkResult(r, how) ==
  catalog' = [catalog EXCEPT ![r].status = ResultStatus(r, how)]

(* Mutant: the correlation ignores whether the entry is still a claim.     *)
ClaimantsOfAnyStatus(a) == {r \in Records : catalog[r].attempt = a}

(* matches_originate_response, over both catalogs.                         *)
Claimants(a) == {r \in Records : catalog[r].status = "discando" /\ catalog[r].attempt = a}

(* Mutant: the end of any leg of the attempt counts as the customer's.     *)
DialMatchesAnyLeg(e) == {r \in Claimants(e.attempt) : catalog[r].response # "Failure"}

(* Mutant: a claim is found by number and tenant, without its attempt id.  *)
DialMatchesByNumber(e) ==
  {r \in Records : /\ catalog[r].status = "discando"
                   /\ owner[e.attempt] = r
                   /\ e.end # "other" /\ catalog[r].response # "Failure"}

(* matches_dial_event with the conditions apply_*_dial_result adds: number *)
(* and tenant of the record, and no recorded Failure.                      *)
DialMatches(e) ==
  {r \in Claimants(e.attempt) : e.end # "other" /\ catalog[r].response # "Failure"}

-----------------------------------------------------------------------------
(* HTTP: POST dial-next, in the steps other actors can come between.       *)

(* The unlocked look at the catalog: nothing pending answers at once.      *)
DialCheck(t, g) ==
  /\ http[t].pc = "idle"
  /\ Pending(g) # {}
  /\ http' = [http EXCEPT ![t] = [pc |-> "checked", group |-> g, attempt |-> None]]
  /\ UNCHANGED <<catalog, audit, flock, cli, channel, asterisk, owner, heard, restarts>>

(* Under the lock: read again, choose, persist the claim with a new        *)
(* attempt id. The lock stays held while the Originate is sent.            *)
DialClaim(t) ==
  /\ http[t].pc = "checked"
  /\ CanLock(PathOf(http[t].group))
  /\ \E r \in Records, a \in Attempts :
       /\ NextPending(r, http[t].group)
       /\ owner[a] = None
       /\ MarkCalling(r, a)
       /\ owner' = [owner EXCEPT ![a] = r]
       /\ http' = [http EXCEPT ![t] =
                      [pc |-> "claimed", group |-> @.group, attempt |-> a]]
       /\ flock' = [flock EXCEPT ![Path(r)] = t]
  /\ UNCHANGED <<audit, cli, channel, asterisk, heard, restarts>>

(* Nothing is pending any more, the lock timed out behind the CLI, or the  *)
(* catalog could not be read or written: the reply is an error and nothing *)
(* was claimed.                                                            *)
DialGiveUp(t) ==
  /\ http[t].pc = "checked"
  /\ LocalFree
  /\ http' = [http EXCEPT ![t] = IdleHttp]
  /\ UNCHANGED <<catalog, audit, flock, cli, channel, asterisk, owner, heard, restarts>>

(* Mutant: the lock is not given back.                                     *)
ReleaseNothing(t) == flock

Release(t) == [p \in Paths |-> IF flock[p] = t THEN "free" ELSE flock[p]]

(* AMIClient writes the action on the socket.                              *)
DialSend(t) ==
  /\ http[t].pc = "claimed"
  /\ amiUp
  /\ call' = [call EXCEPT ![http[t].attempt] = "sent"]
  /\ http' = [http EXCEPT ![t] =
                  [pc |-> "sent", group |-> @.group, attempt |-> @.attempt]]
  /\ UNCHANGED <<catalog, audit, flock, cli, channel, rings, owner, heard, restarts>>

(* Mutant: an Originate that was not confirmed is put back in the queue.   *)
DialReplyRequeues(t) ==
  /\ http[t].pc \in {"claimed", "sent"}
  /\ http' = [http EXCEPT ![t] = IdleHttp]
  /\ flock' = Release(t)
  /\ catalog' = [catalog EXCEPT ![owner[http[t].attempt]].status = "pendente"]
  /\ UNCHANGED <<audit, cli, channel, asterisk, owner, heard, restarts>>

(* Mutant: a dead connection is not noticed before the action is written.  *)
DialReplyOnlyWhenSent(t) ==
  /\ http[t].pc = "sent"
  /\ http' = [http EXCEPT ![t] = IdleHttp]
  /\ flock' = Release(t)
  /\ UNCHANGED <<catalog, audit, cli, channel, asterisk, owner, heard, restarts>>

(* send_action raises before anything is written, or its wait is over      *)
(* (a reply, an error reply, a timeout, a broken connection). None of      *)
(* these touches the catalog: the claim stays "discando".                  *)
DialReply(t) ==
  /\ http[t].pc \in {"claimed", "sent"}
  /\ http' = [http EXCEPT ![t] = IdleHttp]
  /\ flock' = Release(t)
  /\ UNCHANGED <<catalog, audit, cli, channel, asterisk, owner, heard, restarts>>

(* HTTP: POST /api/callbacks/<id>/cancel.                                  *)
CancelCallback(r) ==
  /\ CanLock("callbacks")
  /\ catalog[r].status = "pendente"
  /\ catalog' = [catalog EXCEPT ![r].status = "cancelado"]
  /\ UNCHANGED <<audit, process, channel, asterisk, owner, heard, restarts>>

(* HTTP: POST /api/campaigns.                                              *)
CreateCampaign(c) ==
  LET list == {r \in Contacts : CampaignOf[r] = c} IN
  /\ CanLock("campaigns")
  /\ list # {}
  /\ \A r \in list : catalog[r].status = "ausente"
  /\ catalog' = [r \in Records |-> IF r \in list THEN NewEntry(c, None) ELSE catalog[r]]
  /\ UNCHANGED <<audit, process, channel, asterisk, owner, heard, restarts>>

-----------------------------------------------------------------------------
(* The AMI event worker: handle_ami_event on the oldest queued event.      *)

(* apply_originate_response: the first response to a claim is kept.        *)
ApplyOriginateResponse(e) ==
  /\ CanLockBoth
  /\ \/ \E r \in Records :
          /\ Claimants(e.attempt) = {r}
          /\ catalog' = [catalog EXCEPT ![r].response =
                           IF @ = None THEN e.response ELSE @]
          /\ heard' = [heard EXCEPT ![e.attempt] =
                           IF @ = None THEN e.response ELSE @]
     \/ /\ \A r \in Records : Claimants(e.attempt) # {r}
        /\ UNCHANGED <<catalog, heard>>

(* apply_campaign_dial_result, then apply_callback_dial_result. An attempt *)
(* id belongs to one catalog, so only one of the two finds a claim.        *)
ApplyDialResult(e) ==
  /\ CanLockBoth
  /\ UNCHANGED heard
  /\ \/ \E r \in Records : DialMatches(e) = {r} /\ MarkResult(r, e.end)
     \/ /\ \A r \in Records : DialMatches(e) # {r}
        /\ UNCHANGED catalog

(* Mutant: only entries still waiting count as seen.                       *)
KnownWhilePending(e) ==
  /\ e.source # None
  /\ \E r \in Callbacks : /\ catalog[r].status = "pendente"
                          /\ catalog[r].group = e.tenant
                          /\ catalog[r].source = e.source

(* add_callback_request: a source id seen in this tenant, or a full        *)
(* catalog, adds nothing.                                                  *)
Known(e) ==
  /\ e.source # None
  /\ \E r \in Callbacks : /\ catalog[r].status # "ausente"
                          /\ catalog[r].group = e.tenant
                          /\ catalog[r].source = e.source

AddCallbackRequest(e) ==
  /\ CanLock("callbacks")
  /\ UNCHANGED heard
  /\ \/ /\ Known(e) \/ \A r \in Callbacks : catalog[r].status # "ausente"
        /\ UNCHANGED catalog
     \/ /\ ~ Known(e)
        /\ \E r \in Callbacks :
             /\ catalog[r].status = "ausente"
             /\ \A q \in Callbacks : catalog[q].status = "ausente" => r <= q
             /\ catalog' = [catalog EXCEPT ![r] = NewEntry(e.tenant, e.source)]

HandleEvent ==
  /\ wire # <<>>
  /\ LET e == Head(wire) IN
       \/ e.type = "OriginateResponse" /\ ApplyOriginateResponse(e)
       \/ e.type = "DialEnd" /\ ApplyDialResult(e)
       \/ e.type = "CallbackRequest" /\ AddCallbackRequest(e)
  /\ wire' = Tail(wire)
  /\ UNCHANGED <<audit, process, amiUp, asterisk, owner, emitted, restarts>>

(* TimeoutError behind the CLI, or an OSError of the file: the handler     *)
(* prints a warning and the event is gone.                                 *)
LoseEvent ==
  /\ wire # <<>>
  /\ LocalFree
  /\ wire' = Tail(wire)
  /\ UNCHANGED <<catalog, audit, process, amiUp, asterisk, owner, heard, emitted, restarts>>

-----------------------------------------------------------------------------
(* Asterisk and the AMI connection.                                        *)

(* A written Originate is rejected or sets up a call; the bytes may arrive *)
(* after the connection was given up here.                                 *)
AsteriskTakes(a) ==
  /\ call[a] = "sent"
  /\ \/ /\ call' = [call EXCEPT ![a] = "refused"]
        /\ UNCHANGED rings
     \/ /\ call' = [call EXCEPT ![a] = "ringing"]
        /\ rings' = [rings EXCEPT ![owner[a]] = @ + 1]
  /\ UNCHANGED <<catalog, audit, process, channel, owner, heard, restarts>>

CallEnds(a) ==
  /\ call[a] = "ringing"
  /\ \E s \in {"answered", "failed"} : call' = [call EXCEPT ![a] = s]
  /\ UNCHANGED <<catalog, audit, process, channel, rings, owner, heard, restarts>>

(* What Asterisk can report: the outcome of the customer's leg is the one  *)
(* that happened, other legs end any way they like, responses may          *)
(* contradict each other, and every event may be emitted more than once.   *)
CanReport(e) ==
  \/ e.type = "CallbackRequest"
  \/ /\ e.type = "OriginateResponse"
     /\ call[e.attempt] \in {"ringing", "answered", "failed"}
  \/ /\ e.type = "DialEnd"
     /\ \/ call[e.attempt] = e.end
        \/ e.end = "other" /\ call[e.attempt] \in {"ringing", "answered", "failed"}

(* _dispatch_frame: the event is queued, or the full queue ends the reader.*)
Report(e) ==
  /\ amiUp
  /\ emitted < MaxEvents
  /\ CanReport(e)
  /\ emitted' = emitted + 1
  /\ \/ /\ Len(wire) < EventQueueCap
        /\ wire' = Append(wire, e)
        /\ UNCHANGED amiUp
     \/ /\ Len(wire) >= EventQueueCap
        /\ amiUp' = FALSE
        /\ UNCHANGED wire
  /\ UNCHANGED <<catalog, audit, process, asterisk, owner, heard, restarts>>

(* The reader ends; main never reconnects.                                 *)
ConnectionLost ==
  /\ amiUp
  /\ amiUp' = FALSE
  /\ UNCHANGED <<catalog, audit, process, wire, emitted, asterisk, owner, heard, restarts>>

(* Mutant: the start of queue-api puts open claims back in the queue.      *)
RestartRequeues ==
  /\ restarts < MaxRestarts
  /\ restarts' = restarts + 1
  /\ http' = [t \in Threads |-> IdleHttp]
  /\ flock' = [p \in Paths |-> IF flock[p] \in Threads THEN "free" ELSE flock[p]]
  /\ wire' = <<>>
  /\ amiUp' = TRUE
  /\ catalog' = [r \in Records |->
                   IF catalog[r].status = "discando"
                   THEN [catalog[r] EXCEPT !.status = "pendente"] ELSE catalog[r]]
  /\ UNCHANGED <<audit, cli, asterisk, owner, heard, emitted>>

(* queue-api dies at any point and is started again: threads, queued       *)
(* events and its locks are gone, the files stay.                          *)
Restart ==
  /\ restarts < MaxRestarts
  /\ restarts' = restarts + 1
  /\ http' = [t \in Threads |-> IdleHttp]
  /\ flock' = [p \in Paths |-> IF flock[p] \in Threads THEN "free" ELSE flock[p]]
  /\ wire' = <<>>
  /\ amiUp' = TRUE
  /\ UNCHANGED <<catalog, audit, cli, asterisk, owner, heard, emitted>>

-----------------------------------------------------------------------------
(* The quarantine command.                                                 *)

(* A claim reaches min_age.                                                *)
TimePasses(r) ==
  /\ catalog[r].status = "discando" /\ ~ catalog[r].old
  /\ catalog' = [catalog EXCEPT ![r].old = TRUE]
  /\ UNCHANGED <<audit, process, channel, asterisk, owner, heard, restarts>>

Note(phase, r) == [phase |-> phase, record |-> r, attempt |-> catalog[r].attempt]

(* Mutant: the command does not wait for the lock of queue-api.            *)
QuarantineRequestUnlocked(r) ==
  /\ cli.pc = "idle"
  /\ catalog[r].status = "discando" /\ catalog[r].old
  /\ flock' = [flock EXCEPT ![Path(r)] = "cli"]
  /\ audit' = audit \cup {Note("requested", r)}
  /\ cli' = [pc |-> "requested", record |-> r]
  /\ UNCHANGED <<catalog, http, channel, asterisk, owner, heard, restarts>>

(* Mutant: the audit line is only written once the catalog has changed.    *)
QuarantineRequestUnnoted(r) ==
  /\ cli.pc = "idle"
  /\ flock[Path(r)] = "free"
  /\ catalog[r].status = "discando" /\ catalog[r].old
  /\ flock' = [flock EXCEPT ![Path(r)] = "cli"]
  /\ cli' = [pc |-> "requested", record |-> r]
  /\ UNCHANGED <<catalog, audit, http, channel, asterisk, owner, heard, restarts>>

(* Under the lock: the claim is selected and the write-ahead entry synced. *)
QuarantineRequest(r) ==
  /\ cli.pc = "idle"
  /\ flock[Path(r)] = "free"
  /\ catalog[r].status = "discando" /\ catalog[r].old
  /\ flock' = [flock EXCEPT ![Path(r)] = "cli"]
  /\ audit' = audit \cup {Note("requested", r)}
  /\ cli' = [pc |-> "requested", record |-> r]
  /\ UNCHANGED <<catalog, http, channel, asterisk, owner, heard, restarts>>

QuarantineWrite ==
  /\ cli.pc = "requested"
  /\ catalog' = [catalog EXCEPT ![cli.record].status = "revisao_manual"]
  /\ cli' = [pc |-> "written", record |-> cli.record]
  /\ UNCHANGED <<audit, flock, http, channel, asterisk, owner, heard, restarts>>

QuarantineCommit ==
  /\ cli.pc = "written"
  /\ audit' = audit \cup {Note("committed", cli.record)}
  /\ cli' = IdleCli
  /\ flock' = [flock EXCEPT ![Path(cli.record)] = "free"]
  /\ UNCHANGED <<catalog, http, channel, asterisk, owner, heard, restarts>>

(* The command fails or is killed between two of its steps.                *)
QuarantineDies ==
  /\ cli.pc # "idle"
  /\ cli' = IdleCli
  /\ flock' = [flock EXCEPT ![Path(cli.record)] = "free"]
  /\ UNCHANGED <<catalog, audit, http, channel, asterisk, owner, heard, restarts>>

-----------------------------------------------------------------------------

Dialler(t) == (\E g \in Groups : DialCheck(t, g)) \/ DialClaim(t) \/ DialGiveUp(t)
              \/ DialSend(t) \/ DialReply(t)

Quarantine == (\E r \in Records : QuarantineRequest(r))
              \/ QuarantineWrite \/ QuarantineCommit \/ QuarantineDies

Next ==
  \/ \E t \in Threads : Dialler(t)
  \/ \E r \in Callbacks : CancelCallback(r)
  \/ \E c \in Campaigns : CreateCampaign(c)
  \/ HandleEvent
  \/ LoseEvent
  \/ \E a \in Attempts : AsteriskTakes(a) \/ CallEnds(a)
  \/ \E e \in Event : Report(e)
  \/ ConnectionLost
  \/ Restart
  \/ \E r \in Records : TimePasses(r)
  \/ Quarantine

Spec == Init /\ [][Next]_vars

(* The HTTP and event threads and the command are scheduled by the         *)
(* operating system, and every wait of theirs has a timeout.               *)
Fairness ==
  /\ \A t \in Threads : WF_vars(DialClaim(t) \/ DialGiveUp(t)) /\ WF_vars(DialSend(t) \/ DialReply(t))
  /\ WF_vars(HandleEvent \/ LoseEvent)
  /\ WF_vars(QuarantineWrite \/ QuarantineCommit \/ QuarantineDies)

FairSpec == Spec /\ Fairness

-----------------------------------------------------------------------------
(* Safety.                                                                 *)

(* An attempt id leads to one record, and that record's older attempts are *)
(* over: at no time can two calls to the same entry be under way, and a    *)
(* late event of an older attempt cannot settle the current one. About     *)
(* mark_*_calling, matches_dial_event and the locks around them.           *)
AttemptsAreFenced ==
  \A a \in Attempts : owner[a] # None /\ catalog[owner[a]].attempt # a => call[a] = "failed"

(* The catalog never reports an outcome that did not happen: answered      *)
(* means the customer's own leg was answered in the recorded attempt, and  *)
(* exhausted means every allowed attempt was made and failed. About        *)
(* apply_*_dial_result and extract_dialed_number.                          *)
OutcomesAreTrue ==
  \A r \in Records :
    /\ catalog[r].status = "concluido" => call[catalog[r].attempt] = "answered"
    /\ catalog[r].status = "esgotado" =>
         /\ catalog[r].attempts = MaxAttempts[r]
         /\ \A a \in Attempts : owner[a] = r => call[a] = "failed"

(* A claim that is going to be sent is still a claim: nobody cancels,      *)
(* quarantines or finishes it between the persisted reservation and the    *)
(* Originate. About the lock held across send_action.                      *)
SentClaimsAreCurrent ==
  \A t \in Threads : http[t].pc = "claimed" =>
    LET r == owner[http[t].attempt] IN
      /\ catalog[r].status = "discando"
      /\ catalog[r].attempt = http[t].attempt
      /\ call[http[t].attempt] = "none"

(* Every entry in manual review has a write-ahead audit line of the same   *)
(* attempt, and a committed line is never written for an entry that is not *)
(* in review, wherever the command died. About quarantine_claim.           *)
ReviewIsAudited ==
  /\ \A r \in Records : catalog[r].status = "revisao_manual" => Note("requested", r) \in audit
  /\ \A n \in audit : n.phase = "committed" =>
       catalog[n.record].status = "revisao_manual" /\ n = Note("committed", n.record)

(* A caller who asked once is in the list once, however often the event is *)
(* delivered and whatever became of the first entry. About                 *)
(* add_callback_request.                                                   *)
RequestsAreUnique ==
  \A r, q \in Callbacks :
    /\ catalog[r].source # None
    /\ catalog[r].source = catalog[q].source
    /\ catalog[r].group = catalog[q].group
    => r = q

(* A claim goes back to the queue only on proof that the customer did not  *)
(* answer this attempt; an Originate whose fate is unknown is never        *)
(* repeated. About the error paths of the dial-next handlers, restarts and *)
(* mark_*_result.                                                          *)
OnlyFailureRequeues ==
  [][\A r \in Records :
       catalog[r].status = "discando" /\ catalog'[r].status = "pendente"
       => call[catalog[r].attempt] = "failed"]_vars

(* An entry that reached a final state, by an answer, by exhaustion, by a  *)
(* cancellation or by an operator, is never dialled or altered again.      *)
FinalIsFinal ==
  [][\A r \in Records :
       catalog[r].status \in {"concluido", "esgotado", "cancelado", "revisao_manual"}
       => catalog'[r] = catalog[r]]_vars

(* What the catalog says of an entry agrees with what Asterisk did.        *)
RecordOK(r) ==
  /\ catalog[r].attempts <= MaxAttempts[r]
  /\ rings[r] <= catalog[r].attempts
  /\ catalog[r].attempt # None /\ call[catalog[r].attempt] \in {"none", "sent", "refused"}
       => rings[r] < catalog[r].attempts
  /\ catalog[r].status # "ausente" => PathOf(catalog[r].group) = Path(r)
  /\ catalog[r].attempt # None => owner[catalog[r].attempt] = r
  /\ catalog[r].status = "ausente" => catalog[r] = Absent
  /\ catalog[r].status = "pendente" =>
       /\ catalog[r].attempts < MaxAttempts[r]
       /\ catalog[r].attempt # None => call[catalog[r].attempt] = "failed"
  /\ catalog[r].status \in {"discando", "concluido", "esgotado", "revisao_manual"}
       => catalog[r].attempt # None
  /\ catalog[r].status = "concluido" => call[catalog[r].attempt] = "answered"
  /\ catalog[r].status = "esgotado" =>
       catalog[r].attempts = MaxAttempts[r] /\ call[catalog[r].attempt] = "failed"

(* A token nobody minted was never sent.                                   *)
TokensAreFresh == \A a \in Attempts : owner[a] = None => call[a] = "none"

(* A queued DialEnd of the customer's leg tells what happened.             *)
EventOK(e) == e.type = "DialEnd" => e.end = "other" \/ call[e.attempt] = e.end

WireOK == \A i \in 1..Len(wire) : EventOK(wire[i])

(* A thread inside the critical section holds the lock of its catalog, and *)
(* before it sends, its claim is the current one.                          *)
ThreadOK(t) ==
  LET a == http[t].attempt IN
  /\ http[t].pc \in {"claimed", "sent"} =>
       owner[a] # None /\ flock[Path(owner[a])] = t
  /\ http[t].pc = "claimed" =>
       /\ catalog[owner[a]].status = "discando"
       /\ catalog[owner[a]].attempt = a
       /\ call[a] = "none"

CliOK ==
  /\ cli.pc # "idle" => flock[Path(cli.record)] = "cli"
  /\ cli.pc = "requested" =>
       catalog[cli.record].status = "discando" /\ Note("requested", cli.record) \in audit
  /\ cli.pc = "written" => catalog[cli.record].status = "revisao_manual"

(* The inductive invariant behind the safety properties: the catalogs, the *)
(* locks, the requests in progress, the queued events, the audit trail and *)
(* the calls of Asterisk tell one story in every state. About all writers  *)
(* of the two catalogs together.                                           *)
IInv ==
  /\ TypeOK
  /\ \A r \in Records : RecordOK(r)
  /\ AttemptsAreFenced
  /\ TokensAreFresh
  /\ WireOK
  /\ \A t \in Threads : ThreadOK(t)
  /\ CliOK
  /\ ReviewIsAudited

(* What the customer's telephone is doing.                                 *)
LineOf(r) ==
  IF \E a \in Attempts : owner[a] = r /\ call[a] = "ringing" THEN "ringing"
  ELSE IF \E a \in Attempts : owner[a] = r /\ call[a] = "answered" THEN "talked"
  ELSE "idle"

Outreach == INSTANCE CustomerOutreach WITH
  Customers <- Records, MaxCalls <- MaxAttempts,
  calls <- rings, line <- [r \in Records |-> LineOf(r)]

(* The customers see CustomerOutreach: at most MAX_ATTEMPTS calls, one at  *)
(* a time, none after an answer. About the whole dialler.                  *)
OutreachSpec == Outreach!Spec

(* What server.py says of OriginateResponse: "Failures remain in           *)
(* 'discando' for a human to review; no auto-redial."                      *)
FailuresAreNotRedialled ==
  [][\A r \in Records :
       catalog[r].status = "discando" /\ heard[catalog[r].attempt] = "Failure"
       => catalog'[r].status # "pendente"]_vars

(* Every dial-next request is answered, whatever becomes of the AMI        *)
(* connection, of the lock and of the other threads.                       *)
RequestsAreAnswered == \A t \in Threads : http[t].pc # "idle" ~> http[t].pc = "idle"

(* A catalog lock is always given back, by a thread that waits for         *)
(* Asterisk as well as by a quarantine command that dies.                  *)
LocksAreReleased == \A p \in Paths : flock[p] # "free" ~> flock[p] = "free"
===============================================================================
