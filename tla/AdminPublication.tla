--------------------------- MODULE AdminPublication ---------------------------
(***************************************************************************)
(* admin-api: the extension handlers and the tenant wizard.  Both write    *)
(* files, change AstDB and reload Asterisk through an AMI connection, and  *)
(* undo what they can when a step fails.  The HTTP server has a thread per *)
(* request.  An extension handler holds the lock of the store only while   *)
(* it saves or loads; a removal holds it, and the wizard's, throughout.    *)
(*                                                                         *)
(* The kinds of request share the actions, in these orders:                *)
(*   create, update, delete   previous, known, save, load, render, stage,  *)
(*       files, login, act, pjsip, rest, answer; a failure: restore, again *)
(*   provision   lock, stage, files, login, act, pjsip, rest, registry,    *)
(*       tidy, answer                                                      *)
(*   remove   lock, stage, files, stage2, files, login, act, pjsip, rest,  *)
(*       store, registry, answer                                           *)
(*   a failure of these two   restore, unregistry, unstore, relogin,       *)
(*       react, repjsip, rerest, answer                                    *)
(***************************************************************************)
EXTENDS AsteriskConf, SequencesExt

CONSTANTS Threads,
          Requests,       \* what the clients ask for
          MaxRequests,
          MaxFaults,      \* of requests one at a time; of requests in progress
                          \* together, as many as there may still be requests
          Absent          \* the content of a file that does not exist

VARIABLES registry,   \* tenants.json
          store,      \* extensions_store.json
          conf,       \* the files
          running,    \* what Asterisk has loaded of them
          dids, maps, \* AstDB: tenant-did, extension-map-<tenant>
          th,         \* the threads
          tenantLock, storeLock,
          asked, faults,
          history     \* what has happened so far, of:
                      \*   overlap  another request during one of an extension
                      \*   crash    a restart
                      \*   restore  a file not put back
                      \*   failure  a publication failed, its store change stays
                      \*            (or a removal failed and could not put it back)
                      \*   partial  a removal after a failure
                      \*   orphan   a removal that took extensions out of the store
data == <<registry, store, conf, running, dids, maps>>
vars == <<data, th, tenantLock, storeLock, asked, faults, history>>

ExtensionKinds == {"create", "update", "delete"}
TenantKinds == {"provision", "remove"}
Request == [kind : ExtensionKinds \cup TenantKinds, name : Names \cup {None},
            number : Numbers \cup {None}, tenant : Tenants \cup {None}, did : Dids \cup {None}]

ASSUME PublicationAssumption == Requests \subseteq Request /\ None \notin Threads

Idle == [pc |-> "idle", op |-> None, prev |-> {}, known |-> {}, exts |-> {},
         todo |-> <<>>, undo |-> <<>>, acts |-> <<>>, logged |-> FALSE,
         saving |-> {}, told |-> FALSE, ok |-> TRUE]

Init ==
  /\ registry = {} /\ store = {}
  /\ conf = [f \in Files |-> IF f \in DynamicFiles(StaticTenants)
                             THEN RenderAll({}, StaticTenants)[f] ELSE Absent]
  /\ running = conf
  /\ dids = <<>> /\ maps = <<>>
  /\ th = [t \in Threads |-> Idle]
  /\ tenantLock = None /\ storeLock = None
  /\ asked = 0 /\ faults = 0 /\ history = {}

----------------------------------------------------------------------------
(* AstDB and Asterisk, as the code uses them.                              *)

With(f, k, v) == [x \in DOMAIN f \cup {k} |-> IF x = k THEN v ELSE f[x]]
Without(f, k) == [x \in DOMAIN f \ {k} |-> f[x]]

\* DBPut, and DBDel, which Asterisk refuses when there is no such key.
Accepted(a) == a.put \/ a.key \in DOMAIN (IF a.family = "did" THEN dids ELSE maps)
Written(db, a) == IF a.put THEN With(db, a.key, a.val) ELSE Without(db, a.key)
Apply(a) == IF a.family = "did" THEN dids' = Written(dids, a) /\ UNCHANGED maps
                                ELSE maps' = Written(maps, a) /\ UNCHANGED dids

RegisterMapping(e) == [family |-> "map", put |-> TRUE, key |-> Line(e), val |-> e.name]
UnregisterMapping(e) == [family |-> "map", put |-> FALSE, key |-> Line(e), val |-> None]
RegisterDid(r) == [family |-> "did", put |-> TRUE, key |-> r.did, val |-> r.id]
UnregisterDid(r) == [family |-> "did", put |-> FALSE, key |-> r.did, val |-> None]

\* Of the five reload commands "pjsip reload" is the first; the other four
\* load the files of the tenants.
AfterPjsip == [running EXCEPT ![Pjsip] = conf[Pjsip]]
\* Mutant: the other four commands are not sent.
AfterFirst == AfterPjsip

AfterAll == conf

----------------------------------------------------------------------------
At(t, pc) == th[t].pc = pc
Busy == {t \in Threads : ~At(t, "idle")}
Fault == /\ faults < IF Cardinality(Busy) > 1 THEN MaxRequests - asked ELSE MaxFaults
         /\ faults' = faults + 1
NoFault == UNCHANGED faults
Set(t, r) == th' = [th EXCEPT ![t] = r]
To(t, pc) == [th[t] EXCEPT !.pc = pc]
Failed(t, pc) == [th[t] EXCEPT !.pc = pc, !.ok = FALSE]
Note(labels) == history' = history \cup labels
Op(t) == th[t].op
Ext(op) == [name |-> op.name, number |-> op.number, tenant |-> op.tenant]
Rec(op) == [id |-> op.tenant, did |-> op.did]
OldRec(t) == CHOOSE r \in registry : r.id = Op(t).tenant

Receive(t) ==
  \E op \in Requests :
    /\ At(t, "idle") /\ asked < MaxRequests
    /\ asked' = asked + 1
    /\ Set(t, [Idle EXCEPT !.op = op, !.pc =
                 CASE op.kind = "create" -> "known"
                   [] op.kind \in {"update", "delete"} -> "previous"
                   [] OTHER -> "lock"])
    /\ Note({"overlap" : u \in {u \in Busy : {op.kind, Op(u).kind} \cap ExtensionKinds # {}}})
    /\ UNCHANGED <<data, tenantLock, storeLock, faults>>

----------------------------------------------------------------------------
(* The extension handlers, up to what they publish.                        *)

\* A look at the store before it changes, in a lock of its own.
ReadPrevious(t) ==
  /\ At(t, "previous") /\ storeLock = None
  /\ Set(t, [th[t] EXCEPT !.prev = {e \in store : e.name = Op(t).name},
                          !.pc = IF Op(t).kind = "update" THEN "known" ELSE "save"])
  /\ UNCHANGED <<data, tenantLock, storeLock, asked, faults, history>>

ReadKnown(t) ==
  /\ At(t, "known")
  /\ Set(t, [To(t, "save") EXCEPT !.known = KnownTenants(registry)])
  /\ UNCHANGED <<data, tenantLock, storeLock, asked, faults, history>>

\* add_extension, update_extension, delete_extension: load, validate, save.
Mine(t) == {e \in store : e.name = Op(t).name}
\* Mutant: an update is not compared with the other extensions.
AdmittedAlone(t) ==
  CASE Op(t).kind = "create" -> ValidExtension(Ext(Op(t)), store, th[t].known)
    [] Op(t).kind = "update" -> Mine(t) # {} /\ ValidExtension(Ext(Op(t)), {}, th[t].known)
    [] OTHER -> Mine(t) # {}

Admitted(t) ==
  CASE Op(t).kind = "create" -> ValidExtension(Ext(Op(t)), store, th[t].known)
    [] Op(t).kind = "update" ->
         Mine(t) # {} /\ ValidExtension(Ext(Op(t)), store \ Mine(t), th[t].known)
    [] OTHER -> Mine(t) # {}

\* The AstDB actions of the change, from the record read before it.
\* Mutant: renumbering only registers.
MappingActsRegister(t) ==
  IF Op(t).kind # "delete" THEN <<RegisterMapping(Ext(Op(t)))>>
  ELSE LET left == SetToSeq(th[t].prev)
       IN  [i \in DOMAIN left |-> UnregisterMapping(left[i])]

MappingActs(t) ==
  LET left == SetToSeq({e \in th[t].prev : \/ Op(t).kind = "delete"
                                           \/ Line(e) # Line(Op(t))})
  IN  [i \in DOMAIN left |-> UnregisterMapping(left[i])] \o
      (IF Op(t).kind = "delete" THEN <<>> ELSE <<RegisterMapping(Ext(Op(t)))>>)

SaveExtension(t) ==
  /\ At(t, "save") /\ storeLock = None
  /\ IF Admitted(t)
     THEN /\ store' = (store \ Mine(t)) \cup
                      (IF Op(t).kind = "delete" THEN {} ELSE {Ext(Op(t))})
          /\ Set(t, [To(t, "load") EXCEPT !.acts = MappingActs(t)])
     ELSE UNCHANGED store /\ Set(t, Idle)
  /\ UNCHANGED <<registry, conf, running, dids, maps, tenantLock, storeLock,
                 asked, faults, history>>

\* regenerate_and_reload: the store, then the catalog, then their files.
LoadStore(t) ==
  /\ At(t, "load") /\ storeLock = None
  /\ Set(t, [To(t, "render") EXCEPT !.exts = store])
  /\ UNCHANGED <<data, tenantLock, storeLock, asked, faults, history>>

Render(t) ==
  LET known == KnownTenants(registry)
      exts  == th[t].exts
  IN  /\ At(t, "render")
      /\ Set(t, IF Publishable(exts, known)
                   /\ ConsistentFiles(exts, known, RenderAll(exts, known))
                THEN [To(t, "stage") EXCEPT !.known = known]
                ELSE Failed(t, "answer"))
      /\ UNCHANGED <<data, tenantLock, storeLock, asked, faults, history>>

----------------------------------------------------------------------------
(* The wizard, up to what it publishes: validation and, for a removal, the *)
(* snapshot of the store, under the locks.                                 *)

Lock(t) ==
  LET op == Op(t) IN
  /\ At(t, "lock") /\ tenantLock = None
  /\ \/ /\ op.kind = "provision"
        /\ IF /\ ValidCreation(Rec(op), registry)
              /\ ConsistentTenant(op.tenant, RenderTenant(op.tenant))
           THEN /\ tenantLock' = t
                /\ Set(t, [To(t, "stage") EXCEPT !.acts = <<RegisterDid(Rec(op))>>])
           ELSE UNCHANGED tenantLock /\ Set(t, Idle)
        /\ UNCHANGED storeLock
     \/ /\ op.kind = "remove" /\ storeLock = None
        /\ IF ValidRemoval(op.tenant, registry)
           THEN /\ tenantLock' = t /\ storeLock' = t
                /\ Set(t, [To(t, "stage") EXCEPT !.exts = store,
                                                 !.op.did = OldRec(t).did,
                                                 !.acts = <<UnregisterDid(OldRec(t))>>])
           ELSE UNCHANGED <<tenantLock, storeLock>> /\ Set(t, Idle)
  /\ UNCHANGED <<data, asked, faults, history>>

Remaining(t) == th[t].exts \ OfTenant(th[t].exts, Op(t).tenant)

----------------------------------------------------------------------------
(* Files: published_conf_batch, exclusive_tenant_files and                 *)
(* retired_config_files.  Contents are prepared and the old ones read      *)
(* before the first file changes; a failure puts the old ones back, last   *)
(* written first.                                                          *)

\* Mutant: what is put back is what was written.
ChangeForgetful(f, content) == [file |-> f, new |-> content, old |-> content]

Change(f, content) == [file |-> f, new |-> content, old |-> conf[f]]
NewContents(t) ==
  CASE Op(t).kind \in ExtensionKinds -> RenderAll(th[t].exts, th[t].known)
    [] Op(t).kind = "provision" -> TenantContents(Op(t).tenant)
    [] OTHER -> [f \in TenantFiles(Op(t).tenant) |-> Absent]
Stageable(t) ==
  CASE Op(t).kind \in ExtensionKinds -> TRUE
    [] Op(t).kind = "provision" -> \A f \in DOMAIN NewContents(t) : conf[f] = Absent
    [] OTHER -> \A f \in DOMAIN NewContents(t) : conf[f] # Absent

Stage(t) ==
  /\ At(t, "stage")
  /\ LET files == SetToSeq(DOMAIN NewContents(t)) IN
     Set(t, IF Stageable(t)
            THEN [To(t, "files") EXCEPT
                    !.todo = [i \in DOMAIN files |-> Change(files[i], NewContents(t)[files[i]])]]
            ELSE Failed(t, "restore"))
  /\ UNCHANGED <<data, tenantLock, storeLock, asked, faults, history>>

\* The second batch of a removal: the endpoints that remain.
StagePjsip(t) ==
  /\ At(t, "stage2")
  /\ Set(t, [To(t, "files") EXCEPT !.todo = <<Change(Pjsip, RenderPjsip(Remaining(t)))>>])
  /\ UNCHANGED <<data, tenantLock, storeLock, asked, faults, history>>

\* os.replace, os.link (not over a file) or unlink (not of a missing one).
Writable(t, c) == CASE Op(t).kind = "provision" -> conf[c.file] = Absent
                    [] Op(t).kind = "remove" /\ c.new = Absent -> conf[c.file] # Absent
                    [] OTHER -> TRUE

WriteFile(t) ==
  LET c == Head(th[t].todo)
      next == CASE Len(th[t].todo) > 1 -> "files"
                [] Len(th[t].todo) = 1 /\ Op(t).kind = "remove" /\ c.file # Pjsip -> "stage2"
                [] OTHER -> "login"
  IN  /\ At(t, "files")
      /\ \/ /\ NoFault /\ Writable(t, c)
            /\ conf' = [conf EXCEPT ![c.file] = c.new]
            /\ Set(t, [To(t, next) EXCEPT !.todo = Tail(@), !.undo = <<c>> \o @])
         \/ /\ IF Writable(t, c) THEN Fault ELSE NoFault
            /\ Set(t, Failed(t, "restore"))
            /\ UNCHANGED conf
      /\ UNCHANGED <<registry, store, running, dids, maps, tenantLock, storeLock,
                     asked, history>>

----------------------------------------------------------------------------
(* AMI: one connection, the AstDB actions, the reload.  An action that     *)
(* fails may have been applied.                                            *)

Login(t) ==
  /\ At(t, "login")
  /\ \/ NoFault /\ Set(t, [To(t, IF th[t].acts = <<>> THEN "pjsip" ELSE "act")
                             EXCEPT !.logged = TRUE])
     \/ Fault /\ Set(t, Failed(t, "restore"))
  /\ UNCHANGED <<data, tenantLock, storeLock, asked, history>>

Act(t) ==
  LET a == Head(th[t].acts) IN
  /\ At(t, "act")
  /\ \/ /\ NoFault /\ Accepted(a) /\ Apply(a)
        /\ Set(t, [To(t, IF Len(th[t].acts) = 1 THEN "pjsip" ELSE "act")
                     EXCEPT !.acts = Tail(@)])
     \/ /\ IF Accepted(a) THEN Fault ELSE NoFault
        /\ Set(t, Failed(t, "restore"))
        /\ \/ UNCHANGED <<dids, maps>>
           \/ Accepted(a) /\ Apply(a)
  /\ UNCHANGED <<registry, store, conf, running, tenantLock, storeLock, asked, history>>

AfterReload(t) ==
  CASE Op(t).kind \in ExtensionKinds -> "answer"
    [] Op(t).kind = "remove" /\ Remaining(t) # th[t].exts -> "store"
    [] OTHER -> "registry"

ReloadPjsip(t) ==
  /\ At(t, "pjsip")
  /\ \/ NoFault /\ running' = AfterPjsip /\ Set(t, To(t, "rest"))
     \/ Fault /\ running' \in {running, AfterPjsip} /\ Set(t, Failed(t, "restore"))
  /\ UNCHANGED <<registry, store, conf, dids, maps, tenantLock, storeLock, asked, history>>

ReloadRest(t) ==
  /\ At(t, "rest")
  /\ \/ NoFault /\ running' = AfterAll /\ Set(t, To(t, AfterReload(t)))
     \/ Fault /\ running' \in {running, AfterAll} /\ Set(t, Failed(t, "restore"))
  /\ UNCHANGED <<registry, store, conf, dids, maps, tenantLock, storeLock, asked, history>>

----------------------------------------------------------------------------
(* The wizard's files of records, and the end of its context managers.     *)

SaveStore(t) ==
  /\ At(t, "store")
  /\ \/ /\ NoFault /\ store' = Remaining(t)
        /\ Set(t, [To(t, "registry") EXCEPT !.saving = {"store"}])
     \/ /\ Fault /\ UNCHANGED store
        /\ Set(t, [Failed(t, "restore") EXCEPT !.saving = {"store"}])
  /\ UNCHANGED <<registry, conf, running, dids, maps, tenantLock, storeLock, asked, history>>

NewRegistry(t) == IF Op(t).kind = "provision" THEN registry \cup {Rec(Op(t))}
                                             ELSE registry \ {Rec(Op(t))}

SaveRegistry(t) ==
  /\ At(t, "registry")
  /\ \/ /\ NoFault /\ registry' = NewRegistry(t)
        /\ Set(t, [To(t, IF Op(t).kind = "provision" THEN "tidy" ELSE "answer")
                     EXCEPT !.saving = @ \cup {"registry"}])
     \/ /\ Fault /\ UNCHANGED registry
        /\ Set(t, [Failed(t, "restore") EXCEPT !.saving = @ \cup {"registry"}])
  /\ UNCHANGED <<store, conf, running, dids, maps, tenantLock, storeLock, asked, history>>

\* The staged copies go after the tenant is registered; an error there is an
\* error of the request, with the files of the tenant in place.
Tidy(t) ==
  /\ At(t, "tidy")
  /\ \/ NoFault /\ Set(t, To(t, "answer")) /\ UNCHANGED history
     \/ Fault /\ Set(t, Failed(t, "unregistry")) /\ Note({"restore"})
  /\ UNCHANGED <<data, tenantLock, storeLock, asked>>

----------------------------------------------------------------------------
(* Compensation.                                                           *)

\* A file that cannot be put back: the batch goes on with the others and
\* raises; only retired_config_files raises what remove_tenant reports; the
\* removal of new files stops at the first it cannot remove.
RestoreFile(t) ==
  LET c == Head(th[t].undo) IN
  /\ At(t, "restore") /\ th[t].undo # <<>>
  /\ \/ /\ NoFault /\ conf' = [conf EXCEPT ![c.file] = c.old]
        /\ Set(t, [th[t] EXCEPT !.undo = Tail(@)])
        /\ UNCHANGED history
     \/ /\ Fault /\ UNCHANGED conf /\ Note({"restore"})
        /\ Set(t, [th[t] EXCEPT
             !.undo = IF Op(t).kind = "provision" THEN <<>> ELSE Tail(@),
             !.told = @ \/ (Op(t).kind = "remove" /\ c.file # Pjsip)])
  /\ UNCHANGED <<registry, store, running, dids, maps, tenantLock, storeLock, asked>>

Restored(t) ==
  /\ At(t, "restore") /\ th[t].undo = <<>>
  /\ Set(t, To(t, CASE Op(t).kind \notin ExtensionKinds -> "unregistry"
                    [] Op(t).kind \in ExtensionKinds /\ th[t].logged -> "again"
                    [] OTHER -> "answer"))
  /\ UNCHANGED <<data, tenantLock, storeLock, asked, faults, history>>

\* The reload of an extension handler's compensation, on the same connection.
ReloadAgain(t) ==
  /\ At(t, "again")
  /\ running' \in {running, AfterPjsip, AfterAll}
  /\ Set(t, To(t, "answer"))
  /\ UNCHANGED <<registry, store, conf, dids, maps, tenantLock, storeLock,
                 asked, faults, history>>

\* restore_registry and save_store(old): under the locks, so what the request
\* read at its start is what they were.
OldRegistry(t) == IF Op(t).kind = "provision" THEN registry \ {Rec(Op(t))}
                                             ELSE registry \cup {Rec(Op(t))}

RestoreRegistry(t) ==
  /\ At(t, "unregistry")
  /\ \/ /\ NoFault /\ Set(t, To(t, "unstore"))
        /\ registry' = IF "registry" \in th[t].saving THEN OldRegistry(t) ELSE registry
     \/ /\ "registry" \in th[t].saving /\ Fault /\ UNCHANGED registry
        /\ Set(t, [To(t, "unstore") EXCEPT !.told = TRUE])
  /\ UNCHANGED <<store, conf, running, dids, maps, tenantLock, storeLock, asked, history>>

RestoreStore(t) ==
  LET next == IF th[t].logged THEN "relogin" ELSE "answer" IN
  /\ At(t, "unstore")
  /\ \/ /\ NoFault /\ Set(t, To(t, next))
        /\ store' = IF "store" \in th[t].saving THEN th[t].exts ELSE store
     \/ /\ "store" \in th[t].saving /\ Fault /\ UNCHANGED store
        /\ Set(t, [To(t, next) EXCEPT !.told = TRUE])
  /\ UNCHANGED <<registry, conf, running, dids, maps, tenantLock, storeLock, asked, history>>

\* A new connection takes the DID back and reloads; any failure is told.
\* Mutant: an error of the last compensation is not told.
TellNobody(t) == To(t, "answer")

Tell(t) == [To(t, "answer") EXCEPT !.told = TRUE]
UndoAct(t) == IF Op(t).kind = "provision" THEN UnregisterDid(Rec(Op(t)))
                                          ELSE RegisterDid(Rec(Op(t)))

LoginAgain(t) ==
  /\ At(t, "relogin")
  /\ \/ NoFault /\ Set(t, To(t, "react"))
     \/ Fault /\ Set(t, Tell(t))
  /\ UNCHANGED <<data, tenantLock, storeLock, asked, history>>

UndoDid(t) ==
  LET a == UndoAct(t) IN
  /\ At(t, "react")
  /\ \/ NoFault /\ Accepted(a) /\ Apply(a) /\ Set(t, To(t, "repjsip"))
     \/ /\ IF Accepted(a) THEN Fault ELSE NoFault
        /\ Set(t, Tell(t))
        /\ \/ UNCHANGED <<dids, maps>>
           \/ Accepted(a) /\ Apply(a)
  /\ UNCHANGED <<registry, store, conf, running, tenantLock, storeLock, asked, history>>

UndoReload(t) ==
  /\ \/ /\ At(t, "repjsip")
        /\ \/ NoFault /\ running' = AfterPjsip /\ Set(t, To(t, "rerest"))
           \/ Fault /\ running' \in {running, AfterPjsip} /\ Set(t, Tell(t))
     \/ /\ At(t, "rerest")
        /\ \/ NoFault /\ running' = AfterAll /\ Set(t, To(t, "answer"))
           \/ Fault /\ running' \in {running, AfterAll} /\ Set(t, Tell(t))
  /\ UNCHANGED <<registry, store, conf, dids, maps, tenantLock, storeLock, asked, history>>

----------------------------------------------------------------------------
Answer(t) ==
  LET kind == Op(t).kind IN
  /\ At(t, "answer")
  /\ Set(t, Idle)
  /\ tenantLock' = IF tenantLock = t THEN None ELSE tenantLock
  /\ storeLock' = IF storeLock = t THEN None ELSE storeLock
  /\ Note(CASE kind \in ExtensionKinds -> IF th[t].ok THEN {} ELSE {"failure"}
            [] kind = "remove" -> {"partial" : x \in history \cap {"failure"}} \cup
                 (IF (th[t].ok \/ th[t].told) /\ Remaining(t) # th[t].exts THEN {"orphan"} ELSE {}) \cup
                 (IF ~th[t].ok /\ store # th[t].exts THEN {"failure"} ELSE {})
            [] OTHER -> {})
  /\ UNCHANGED <<data, asked, faults>>

\* The process dies and starts again; files, AstDB and Asterisk stay.
Crash ==
  /\ Busy # {} /\ Fault /\ Note({"crash"})
  /\ th' = [t \in Threads |-> Idle]
  /\ tenantLock' = None /\ storeLock' = None
  /\ UNCHANGED <<data, asked>>

Step(t) ==
  \/ ReadPrevious(t) \/ ReadKnown(t) \/ SaveExtension(t) \/ LoadStore(t) \/ Render(t)
  \/ Lock(t) \/ Stage(t) \/ StagePjsip(t) \/ WriteFile(t)
  \/ Login(t) \/ Act(t) \/ ReloadPjsip(t) \/ ReloadRest(t)
  \/ SaveStore(t) \/ SaveRegistry(t) \/ Tidy(t)
  \/ RestoreFile(t) \/ Restored(t) \/ ReloadAgain(t)
  \/ RestoreRegistry(t) \/ RestoreStore(t) \/ LoginAgain(t) \/ UndoDid(t) \/ UndoReload(t)
  \/ Answer(t)

Next == Crash \/ \E t \in Threads : Receive(t) \/ Step(t)

Spec == Init /\ [][Next]_vars
----------------------------------------------------------------------------
AtRest == Busy = {}
Never(labels) == history \cap labels = {}

\* No two extensions share a name or a number of a tenant, whatever the order
\* in which two handlers read, validate and save (store.py, its lock).
NumbersAreUnique ==
  \A e, f \in store : e # f => e.name # f.name /\ Line(e) # Line(f)

\* The files are those of one version of the extensions, and of the known tenants.
Published(files) == {[name |-> b.endpoint, number |-> b.callerid, tenant |-> b.context]
                      : b \in files[Pjsip]}
Agree(files, known) ==
  /\ \A f \in DynamicFiles(known) : files[f] = RenderAll(Published(files), known)[f]
  /\ \A w \in WizardTenants : files[Infra(w)] = IF w \in known THEN RenderTenant(w) ELSE Absent
  /\ \A w \in WizardTenants \ known : files[Dynamic(w)] = Absent

\* Whatever step of a publication or of the wizard fails, the files left are
\* those of one version of the extensions: no endpoint without its dialplan,
\* no file of a tenant that is not registered, none missing of one that is.
FilesAgree ==
  AtRest /\ Never({"overlap", "crash", "restore", "partial"}) =>
    Agree(conf, KnownTenants(registry))

\* An answer of success means that Asterisk runs what the files say and, for
\* an extension, that the files say what the store says.
SuccessIsWhole ==
  \A t \in Threads : At(t, "answer") /\ th[t].ok /\ Never({"overlap", "crash"}) =>
    /\ \A f \in Files : running[f] = conf[f]
    /\ Op(t).kind \in ExtensionKinds =>
         \A f \in DynamicFiles(KnownTenants(registry)) :
           conf[f] = RenderAll(store, KnownTenants(registry))[f]

\* The wizard does a request entirely, or undoes it entirely, or says that it
\* could not (rollback_incomplete): catalog, DID and extensions.
SagasAreAtomic ==
  \A t \in Threads : At(t, "answer") /\ Op(t).kind \in TenantKinds /\ ~th[t].told =>
    LET op     == Op(t)
        exists == (op.kind = "provision") = th[t].ok
        routed == op.did \in DOMAIN dids /\ dids[op.did] = op.tenant
    IN  /\ (Rec(op) \in registry) = exists
        /\ th[t].logged => routed = exists
        /\ op.kind = "remove" => store = IF exists THEN th[t].exts ELSE Remaining(t)

\* AstDB maps the numbers of the extensions of the store and no others, when
\* no publication has failed: a renumbered or deleted one leaves nothing.
MapsFollowStore ==
  AtRest /\ Never({"overlap", "crash", "failure", "orphan"}) =>
    /\ DOMAIN maps = {Line(e) : e \in store}
    /\ \A e \in store : maps[Line(e)] = e.name

\* manual-82-ramais-tenants-dinamicos.md: removing a tenant cleans its files, extensions and AstDB mappings.
RemovedTenantsLeaveNoMapping ==
  AtRest /\ Never({"overlap", "crash", "failure"}) =>
    DOMAIN maps \subseteq {Line(e) : e \in store}
=============================================================================
