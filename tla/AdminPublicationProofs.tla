------------------------ MODULE AdminPublicationProofs ------------------------
(***************************************************************************)
(* The extension store has no two extensions of one name or number, and    *)
(* the tenant wizard does a request entirely, undoes it entirely or says   *)
(* that it could not; AstDB maps the numbers of the stored extensions: for *)
(* any number of threads, requests and faults.                             *)
(*                                                                         *)
(* IInv says of a wizard at work, step by step, what it has changed so far *)
(* and what it has put back.  Only the wizard changes the catalog and the  *)
(* DIDs, and it has its lock while it does; the store changes only while   *)
(* no removal has its lock.  So a step of one thread leaves what IInv says *)
(* of the others (OneMoves), and each lemma is about the thread that steps. *)
(***************************************************************************)
EXTENDS AdminPublication, FiniteSetTheorems, SequenceTheorems, TLAPS

\* The records of extensions_store.json and of tenants.json, and the AstDB actions of an
\* extension handler.
Stored == [name : Names \cup {None}, number : Numbers \cup {None}, tenant : Tenants \cup {None}]
Registered == [id : Tenants \cup {None}, did : Dids \cup {None}]
Mapping == [family : {"map"}, put : BOOLEAN, key : (Tenants \cup {None}) \X (Numbers \cup {None}),
            val : Names \cup {None}]

\* Extensions as the store holds them.
Distinct(exts) == \A e, f \in exts : e # f => e.name # f.name /\ Line(e) # Line(f)
Extensible(exts) == exts \in SUBSET Stored /\ IsFiniteSet(exts) /\ Distinct(exts)

\* The record of a thread has its twelve fields, and a request while it is at work.  What todo
\* and undo say of the files plays no part.
Twelve(r) ==
  r \in [pc : {r.pc}, op : {r.op}, prev : {r.prev}, known : {r.known}, exts : {r.exts},
         todo : {r.todo}, undo : {r.undo}, acts : {r.acts}, logged : {r.logged},
         saving : {r.saving}, told : {r.told}, ok : {r.ok}]
Whole(r) == Twelve(r) /\ {r.logged, r.told, r.ok} \subseteq BOOLEAN /\ (r.pc # "idle" => r.op \in Request)

ForExtensions == {"previous", "known", "save", "load", "render", "again"}
ForTenants == {"lock", "stage2", "store", "registry", "tidy", "unregistry", "unstore", "relogin",
               "react", "repjsip", "rerest"}
\* Which requests come where, and what an extension handler asks of AstDB.
Placed(r) ==
  /\ r.pc \in ForExtensions => r.op.kind \in ExtensionKinds
  /\ r.pc \in ForTenants => r.op.kind \in TenantKinds
  /\ r.pc \in {"stage2", "store"} => r.op.kind = "remove"
  /\ r.pc = "tidy" => r.op.kind = "provision"
  /\ Extensible(r.prev) /\ Extensible(r.exts)
  /\ r.pc # "idle" /\ r.op.kind \in ExtensionKinds => r.acts \in Seq(Mapping)
  /\ r.pc = "act" => r.acts # <<>>
  /\ r.pc = "lock" => r.ok /\ ~r.told /\ ~r.logged /\ r.saving = {}

TypeOK ==
  /\ th = [t \in Threads |-> th[t]]
  /\ \A t \in Threads : Whole(th[t]) /\ Placed(th[t])
  /\ Extensible(store)
  /\ registry \subseteq Registered

----------------------------------------------------------------------------
\* The wizard at work: it has the lock of the wizard and, to remove, of the store.
AtWork(t) == th[t].pc \notin {"idle", "lock"} /\ Op(t).kind \in TenantKinds
Locked(t) == tenantLock = t /\ (Op(t).kind = "remove" => storeLock = t)

\* The tenant is in the catalog; its DID leads to it; a request not begun, and a request done.
Present(t) == Rec(Op(t)) \in registry
Routed(t) == Op(t).did \in DOMAIN dids /\ dids[Op(t).did] = Op(t).tenant
Undone(t) == Present(t) <=> Op(t).kind = "remove"
Done(t) == Present(t) <=> Op(t).kind = "provision"

Forward == {"stage", "files", "stage2", "login", "act", "pjsip", "rest", "store", "registry", "tidy"}
Backward == {"restore", "unregistry", "unstore", "relogin", "react", "repjsip", "rerest"}
\* On the way nothing has failed, on the way back something has.
Outcome(t) ==
  /\ th[t].pc \in Forward => th[t].ok /\ ~th[t].told
  /\ th[t].pc \in Backward => ~th[t].ok
  /\ th[t].pc \in Forward \cup Backward \cup {"answer"}
  /\ "store" \in th[t].saving => Op(t).kind = "remove"

\* The catalog: as before until it is saved, and again once it is restored.
Catalog(t) ==
  LET pc == th[t].pc
      saved == "registry" \in th[t].saving
  IN  /\ pc \in Forward \ {"tidy"} => Undone(t) /\ ~saved
      /\ pc = "tidy" => Done(t) /\ saved
      /\ pc \in {"restore", "unregistry"} /\ ~saved => Undone(t)
      /\ pc \in Backward \ {"restore", "unregistry"} /\ ~th[t].told => Undone(t)
      /\ pc = "answer" /\ th[t].ok => Done(t)
      /\ pc = "answer" /\ ~th[t].ok /\ ~th[t].told => Undone(t)

\* The extensions, the same.
Extensions(t) ==
  LET pc == th[t].pc
      saved == "store" \in th[t].saving
  IN  Op(t).kind = "remove" =>
      /\ pc \in Forward \ {"registry"} => store = th[t].exts /\ ~saved
      /\ pc = "registry" => store = Remaining(t) /\ (saved \/ store = th[t].exts)
      /\ pc \in {"restore", "unregistry", "unstore"} /\ ~saved => store = th[t].exts
      /\ pc \in {"relogin", "react", "repjsip", "rerest"} /\ ~th[t].told => store = th[t].exts
      /\ pc = "answer" /\ th[t].ok => store = Remaining(t)
      /\ pc = "answer" /\ ~th[t].ok /\ ~th[t].told => store = th[t].exts

\* The DID: one action on the way, its opposite on the way back.
Routing(t) ==
  LET pc == th[t].pc IN
  /\ pc \in {"stage", "files", "stage2", "login", "act"} =>
       th[t].acts = <<IF Op(t).kind = "provision" THEN RegisterDid(Rec(Op(t)))
                                                  ELSE UnregisterDid(Rec(Op(t)))>>
  /\ pc \in {"pjsip", "rest", "store", "registry", "tidy"} => Routed(t) <=> Op(t).kind = "provision"
  /\ pc \in {"repjsip", "rerest"} => Routed(t) <=> Op(t).kind = "remove"
  /\ pc = "answer" /\ th[t].ok => Routed(t) <=> Op(t).kind = "provision"
  /\ pc = "answer" /\ ~th[t].ok /\ ~th[t].told /\ th[t].logged => Routed(t) <=> Op(t).kind = "remove"

\* What a request of the wizard has done so far; what holds throughout.
Saga(t) == AtWork(t) => Locked(t) /\ Outcome(t) /\ Catalog(t) /\ Extensions(t) /\ Routing(t)
IInv == TypeOK /\ \A t \in Threads : Saga(t)

----------------------------------------------------------------------------
\* Before the first request every thread is idle and the store and the catalog are empty.
LEMMA InitOK == Init => IInv
<1>. SUFFICES ASSUME Init PROVE IInv
  OBVIOUS
<1>1. IsFiniteSet({})
  BY FS_EmptySet
<1>. QED
  BY <1>1
     DEF Init, Idle, IInv, TypeOK, Extensible, Distinct, Twelve, Whole, Placed, ForExtensions,
         ForTenants, Saga, AtWork

\* What a step that only moves keeps of the record of its thread.
Keeps(r, s) == /\ Twelve(s) /\ s.op = r.op /\ s.prev = r.prev /\ s.exts = r.exts
               /\ s.acts = r.acts /\ s.logged = r.logged /\ s.saving = r.saving /\ s.told = r.told

\* A step that only moves keeps the rest of the record.
LEMMA Moved ==
  ASSUME NEW r, Twelve(r), NEW p, NEW s, s = [r EXCEPT !.pc = p]
  PROVE  Keeps(r, s) /\ s.pc = p /\ s.ok = r.ok
BY DEF Twelve, Keeps

\* A step that fails keeps the rest of the record but its success.
LEMMA MovedFailed ==
  ASSUME NEW r, Twelve(r), NEW p, NEW s, s = [r EXCEPT !.pc = p, !.ok = FALSE]
  PROVE  Keeps(r, s) /\ s.pc = p /\ s.ok = FALSE
BY DEF Twelve, Keeps

\* A step of one thread that changes the catalog or the DIDs only with the lock of the
\* wizard, and the store only while no other has its lock, leaves the others' sagas alone.
LEMMA OneMoves ==
  ASSUME IInv, NEW t \in Threads, NEW r, th' = [th EXCEPT ![t] = r], Whole(r), Placed(r),
         Extensible(store'), registry' \subseteq Registered,
         Saga(t)',
         (registry' = registry /\ dids' = dids) \/ AtWork(t),
         store' = store \/ storeLock \in {None, t},
         tenantLock' = tenantLock \/ tenantLock \in {None, t},
         storeLock' = storeLock \/ storeLock \in {None, t}
  PROVE  IInv'
<1>1. TypeOK'
  BY DEF IInv, TypeOK
<1>2. ASSUME NEW u \in Threads, u # t PROVE Saga(u)'
  <2>. SUFFICES ASSUME AtWork(u)' PROVE Saga(u)'
    BY DEF Saga
  <2>1. th'[u] = th[u]
    BY <1>2 DEF IInv, TypeOK
  <2>2. AtWork(u) /\ Locked(u) /\ Outcome(u) /\ Catalog(u) /\ Extensions(u) /\ Routing(u)
    BY <2>1 DEF AtWork, Op, IInv, Saga
  <2>3. ~AtWork(t) /\ registry' = registry /\ dids' = dids /\ tenantLock' = tenantLock
    BY <1>2, <2>2, PublicationAssumption DEF Locked, IInv, Saga
  <2>4. Op(u).kind = "remove" => store' = store /\ storeLock' = storeLock
    BY <1>2, <2>2, PublicationAssumption DEF Locked
  <2>5. Locked(u)' /\ Outcome(u)' /\ Catalog(u)' /\ Routing(u)'
    BY <2>1, <2>2, <2>3, <2>4
       DEF Locked, Outcome, Catalog, Routing, Undone, Done, Present, Routed, Op, Rec
  <2>6. Extensions(u)'
    BY <2>1, <2>2, <2>4 DEF Extensions, Remaining, Op
  <2>. QED
    BY <2>5, <2>6 DEF Saga
<1>. QED
  BY <1>1, <1>2 DEF IInv

\* The record a step gives its thread is what the thread then has.
LEMMA Given ==
  ASSUME IInv, NEW t \in Threads, NEW s, Set(t, s)
  PROVE  th' = [th EXCEPT ![t] = s] /\ th'[t] = s
BY DEF IInv, TypeOK, Set

\* An extension handler that changes neither catalog, DIDs nor locks.
LEMMA HandlerMoves ==
  ASSUME IInv, NEW t \in Threads, NEW s, Set(t, s), Whole(s), Placed(s),
         s.pc # "idle" => s.op.kind \in ExtensionKinds,
         Extensible(store'), store' = store \/ storeLock = None,
         UNCHANGED <<registry, dids, tenantLock, storeLock>>
  PROVE  IInv'
<1>1. th'[t] = s
  BY Given
<1>2. ExtensionKinds \cap TenantKinds = {}
  BY DEF ExtensionKinds, TenantKinds
<1>3. Saga(t)'
  BY <1>1, <1>2 DEF Saga, AtWork, Op
<1>4. registry' \subseteq Registered
  BY DEF IInv, TypeOK
<1>. QED
  BY <1>3, <1>4, OneMoves DEF Set

\* The look at the record before the change (the handlers of update and delete).
LEMMA ReadPreviousOK ==
  ASSUME IInv, NEW t \in Threads, ReadPrevious(t)
  PROVE  IInv'
<1>. DEFINE p == IF Op(t).kind = "update" THEN "known" ELSE "save"
            prev == {e \in store : e.name = Op(t).name}
            s == [th[t] EXCEPT !.prev = prev, !.pc = p]
<1>1. Whole(th[t]) /\ Placed(th[t]) /\ th[t].pc = "previous"
  BY DEF IInv, TypeOK, ReadPrevious, At
<1>2. /\ Twelve(s) /\ s.pc = p /\ s.op = th[t].op /\ s.prev = prev /\ s.exts = th[t].exts
      /\ s.acts = th[t].acts /\ s.logged = th[t].logged /\ s.told = th[t].told /\ s.ok = th[t].ok
  BY <1>1 DEF Whole, Twelve
<1>3. Extensible(prev)
  BY FS_Subset DEF IInv, TypeOK, Extensible, Distinct
<1>. HIDE DEF s, prev
<1>4. Whole(s) /\ Placed(s) /\ s.op.kind \in ExtensionKinds
  BY <1>1, <1>2, <1>3 DEF Whole, Placed, ForExtensions, ForTenants
<1>5. Set(t, s) /\ UNCHANGED <<store, registry, dids, tenantLock, storeLock>>
  BY DEF ReadPrevious, data, s, prev
<1>. QED
  BY <1>4, <1>5, HandlerMoves DEF IInv, TypeOK

\* The reading of the known tenants.
LEMMA ReadKnownOK ==
  ASSUME IInv, NEW t \in Threads, ReadKnown(t)
  PROVE  IInv'
<1>. DEFINE s == [To(t, "save") EXCEPT !.known = KnownTenants(registry)]
<1>1. Whole(th[t]) /\ Placed(th[t]) /\ th[t].pc = "known"
  BY DEF IInv, TypeOK, ReadKnown, At
<1>2. Keeps(th[t], s) /\ s.pc = "save" /\ s.ok = th[t].ok
  BY <1>1 DEF Whole, Twelve, Keeps, To
<1>. HIDE DEF s
<1>4. Whole(s) /\ Placed(s) /\ s.op.kind \in ExtensionKinds
  BY <1>1, <1>2 DEF Whole, Placed, ForExtensions, ForTenants, Keeps
<1>5. Set(t, s) /\ UNCHANGED <<store, registry, dids, tenantLock, storeLock>>
  BY DEF ReadKnown, data, s
<1>. QED
  BY <1>4, <1>5, HandlerMoves DEF IInv, TypeOK

\* A finite set put in sequence is a sequence of its elements.
LEMMA SequenceOf ==
  ASSUME NEW S, IsFiniteSet(S)
  PROVE  SetToSeq(S) \in Seq(S)
<1>1. Cardinality(S) \in Nat /\ ExistsBijection(1..Cardinality(S), S)
  BY FS_CardinalityType
<1>2. \E f \in [1..Cardinality(S) -> S] : IsInjective(f)
  BY <1>1 DEF ExistsBijection, Bijection, Injection, IsInjective
<1>3. SetToSeq(S) \in [1..Cardinality(S) -> S]
  BY <1>2 DEF SetToSeq
<1>. QED
  BY <1>1, <1>3

\* What takes the mappings of extensions away are AstDB actions of the mappings.
LEMMA UnregistersMap ==
  ASSUME NEW S \in SUBSET Stored, IsFiniteSet(S), NEW left, left = SetToSeq(S)
  PROVE  [i \in DOMAIN left |-> UnregisterMapping(left[i])] \in Seq(Mapping)
<1>1. left \in Seq(S)
  BY SequenceOf
<1>2. \A e \in S : UnregisterMapping(e) \in Mapping
  BY DEF UnregisterMapping, Mapping, Stored, Line
<1>. QED
  BY <1>1, <1>2

\* An extension handler asks AstDB to change mappings, never a DID.
LEMMA MappingsOnly ==
  ASSUME NEW t \in Threads, Op(t) \in Request, Op(t).kind \in ExtensionKinds,
         th[t].prev \in SUBSET Stored, IsFiniteSet(th[t].prev)
  PROVE  MappingActs(t) \in Seq(Mapping)
<1>. DEFINE S == {e \in th[t].prev : Op(t).kind = "delete" \/ Line(e) # Line(Op(t))}
            new == IF Op(t).kind = "delete" THEN <<>> ELSE <<RegisterMapping(Ext(Op(t)))>>
            left == SetToSeq(S)
            old == [i \in DOMAIN left |-> UnregisterMapping(left[i])]
<1>1. S \in SUBSET Stored /\ IsFiniteSet(S)
  BY FS_Subset
<1>2. old \in Seq(Mapping)
  BY <1>1, UnregistersMap
<1>3. RegisterMapping(Ext(Op(t))) \in Mapping
  BY DEF RegisterMapping, Ext, Mapping, Request, Line
<1>4. new \in Seq(Mapping)
  BY <1>3
<1>5. MappingActs(t) = old \o new
  BY DEF MappingActs
<1>. HIDE DEF old, new
<1>. QED
  BY <1>2, <1>4, <1>5

\* add, update and delete_extension: a save that is admitted keeps names and numbers unique,
\* since it is compared with the store it replaces, under the lock.
LEMMA SaveExtensionOK ==
  ASSUME IInv, NEW t \in Threads, SaveExtension(t)
  PROVE  IInv'
<1>. DEFINE s == [To(t, "load") EXCEPT !.acts = MappingActs(t)]
            new == IF Op(t).kind = "delete" THEN {} ELSE {Ext(Op(t))}
<1>1. /\ Whole(th[t]) /\ Placed(th[t]) /\ th[t].pc = "save"
      /\ Op(t) \in Request /\ Op(t).kind \in ExtensionKinds
  BY DEF IInv, TypeOK, SaveExtension, At, Op, Whole, Placed, ForExtensions
<1>2. UNCHANGED <<registry, dids, tenantLock, storeLock>> /\ storeLock = None
  BY DEF SaveExtension
<1>3. CASE Admitted(t)
  <2>1. Set(t, s) /\ store' = (store \ Mine(t)) \cup new
    BY <1>3 DEF SaveExtension
  <2>2. /\ Twelve(s) /\ s.pc = "load" /\ s.op = th[t].op /\ s.prev = th[t].prev
        /\ s.exts = th[t].exts /\ s.acts = MappingActs(t) /\ s.logged = th[t].logged
        /\ s.told = th[t].told /\ s.ok = th[t].ok
    BY <1>1 DEF Whole, Twelve, To
  <2>3. MappingActs(t) \in Seq(Mapping)
    BY <1>1, MappingsOnly DEF Placed, Extensible
  <2>. HIDE DEF s
  <2>4. Whole(s) /\ Placed(s) /\ s.op.kind \in ExtensionKinds
    BY <1>1, <2>2, <2>3 DEF Whole, Placed, ForExtensions, ForTenants, Op
  <2>5. store' \in SUBSET Stored
    BY <1>1, <2>1 DEF IInv, TypeOK, Extensible, Ext, Request, Stored
  <2>6. IsFiniteSet(store \ Mine(t)) /\ IsFiniteSet(new)
    BY FS_Subset, FS_EmptySet, FS_Singleton DEF IInv, TypeOK, Extensible
  <2>7. IsFiniteSet(store')
    BY <2>1, <2>6, FS_Union
  <2>8. \A e \in store \ Mine(t) : Op(t).kind # "delete" =>
          e.name # Ext(Op(t)).name /\ Line(e) # Line(Ext(Op(t)))
    BY <1>1, <1>3 DEF Admitted, ValidExtension, ExtensionKinds
  <2>9. Distinct(store')
    BY <2>1, <2>8 DEF IInv, TypeOK, Extensible, Distinct
  <2>. QED
    BY <1>2, <2>1, <2>4, <2>5, <2>7, <2>9, HandlerMoves DEF Extensible
<1>4. CASE ~Admitted(t)
  <2>1. Set(t, Idle) /\ store' = store
    BY <1>4 DEF SaveExtension
  <2>2. Whole(Idle) /\ Placed(Idle) /\ Idle.pc = "idle"
    BY FS_EmptySet
       DEF Idle, Whole, Twelve, Placed, ForExtensions, ForTenants, Extensible, Distinct
  <2>. QED
    BY <1>2, <2>1, <2>2, HandlerMoves DEF IInv, TypeOK
<1>. QED
  BY <1>3, <1>4

\* The record of an idle thread is well formed.
LEMMA IdleOK == Whole(Idle) /\ Placed(Idle) /\ Idle.pc = "idle"
BY FS_EmptySet DEF Idle, Whole, Twelve, Placed, ForExtensions, ForTenants, Extensible, Distinct

\* The load of the store to publish.
LEMMA LoadStoreOK ==
  ASSUME IInv, NEW t \in Threads, LoadStore(t)
  PROVE  IInv'
<1>. DEFINE s == [To(t, "render") EXCEPT !.exts = store]
<1>1. Whole(th[t]) /\ Placed(th[t]) /\ th[t].pc = "load"
  BY DEF IInv, TypeOK, LoadStore, At
<1>2. /\ Twelve(s) /\ s.pc = "render" /\ s.op = th[t].op /\ s.prev = th[t].prev /\ s.exts = store
      /\ s.acts = th[t].acts /\ s.logged = th[t].logged /\ s.told = th[t].told /\ s.ok = th[t].ok
  BY <1>1 DEF Whole, Twelve, To
<1>. HIDE DEF s
<1>3. Whole(s) /\ Placed(s) /\ s.op.kind \in ExtensionKinds
  BY <1>1, <1>2 DEF Whole, Placed, ForExtensions, ForTenants, IInv, TypeOK
<1>4. Set(t, s) /\ UNCHANGED <<store, registry, dids, tenantLock, storeLock>>
  BY DEF LoadStore, data, s
<1>. QED
  BY <1>3, <1>4, HandlerMoves DEF IInv, TypeOK

\* The rendering of the extensions, or its refusal.
LEMMA RenderOK ==
  ASSUME IInv, NEW t \in Threads, Render(t)
  PROVE  IInv'
<1>. DEFINE known == KnownTenants(registry)
            s == [To(t, "stage") EXCEPT !.known = known]
            f == Failed(t, "answer")
<1>1. Whole(th[t]) /\ Placed(th[t]) /\ th[t].pc = "render"
  BY DEF IInv, TypeOK, Render, At
<1>2. Keeps(th[t], s) /\ s.pc = "stage" /\ s.ok = th[t].ok
  BY <1>1 DEF Whole, Twelve, Keeps, To
<1>3. Keeps(th[t], f) /\ f.pc = "answer" /\ f.ok = FALSE
  BY <1>1 DEF Whole, Twelve, Keeps, Failed
<1>4. Set(t, s) \/ Set(t, f)
  BY DEF Render
<1>5. UNCHANGED <<store, registry, dids, tenantLock, storeLock>>
  BY DEF Render, data
<1>. HIDE DEF s, f
<1>6. Whole(s) /\ Placed(s) /\ s.op.kind \in ExtensionKinds
  BY <1>1, <1>2 DEF Whole, Placed, ForExtensions, ForTenants, Keeps
<1>7. Whole(f) /\ Placed(f) /\ f.op.kind \in ExtensionKinds
  BY <1>1, <1>3 DEF Whole, Placed, ForExtensions, ForTenants, Keeps
<1>. QED
  BY <1>4, <1>5, <1>6, <1>7, HandlerMoves DEF IInv, TypeOK

\* The reload that compensates a publication of extensions.
LEMMA ReloadAgainOK ==
  ASSUME IInv, NEW t \in Threads, ReloadAgain(t)
  PROVE  IInv'
<1>. DEFINE s == To(t, "answer")
<1>1. Whole(th[t]) /\ Placed(th[t]) /\ th[t].pc = "again"
  BY DEF IInv, TypeOK, ReloadAgain, At
<1>2. Keeps(th[t], s) /\ s.pc = "answer" /\ s.ok = th[t].ok
  BY <1>1, Moved DEF Whole, To
<1>. HIDE DEF s
<1>3. Whole(s) /\ Placed(s) /\ s.op.kind \in ExtensionKinds
  BY <1>1, <1>2 DEF Whole, Placed, ForExtensions, ForTenants, Keeps
<1>4. Set(t, s) /\ UNCHANGED <<store, registry, dids, tenantLock, storeLock>>
  BY DEF ReloadAgain, s
<1>. QED
  BY <1>3, <1>4, HandlerMoves DEF IInv, TypeOK

\* A request arrives: a handler, or a wizard that has not its lock yet.
LEMMA ReceiveOK ==
  ASSUME IInv, NEW t \in Threads, Receive(t)
  PROVE  IInv'
<1>1. PICK op \in Requests :
        Set(t, [Idle EXCEPT !.op = op, !.pc =
                  CASE op.kind = "create" -> "known"
                    [] op.kind \in {"update", "delete"} -> "previous"
                    [] OTHER -> "lock"])
  BY DEF Receive
<1>. DEFINE p == CASE op.kind = "create" -> "known"
                   [] op.kind \in {"update", "delete"} -> "previous"
                   [] OTHER -> "lock"
            s == [Idle EXCEPT !.op = op, !.pc = p]
<1>2. /\ Twelve(s) /\ s.pc = p /\ s.op = op /\ s.prev = {} /\ s.exts = {}
      /\ s.acts = <<>> /\ s.logged = FALSE /\ s.told = FALSE /\ s.ok = TRUE /\ s.saving = {}
  BY DEF Twelve, Idle
<1>3. op \in Request
  BY PublicationAssumption
<1>4. p \in {"known", "previous"} => op.kind \in ExtensionKinds
  BY DEF ExtensionKinds
<1>5. p \notin {"known", "previous"} => p = "lock" /\ op.kind \in TenantKinds
  BY <1>3 DEF Request, ExtensionKinds, TenantKinds
<1>6. Set(t, s) /\ UNCHANGED <<store, registry, dids, tenantLock, storeLock>>
  BY <1>1 DEF Receive, data
<1>. HIDE DEF s, p
<1>7. Whole(s) /\ Placed(s)
  <2>1. Extensible({}) /\ <<>> \in Seq(Mapping)
    BY FS_EmptySet DEF Extensible, Distinct
  <2>2. p \in {"known", "previous", "lock"}
    BY <1>5
  <2>3. Whole(s)
    BY <1>2, <1>3 DEF Whole
  <2>4. Placed(s)
    BY <1>2, <1>4, <1>5, <2>1, <2>2 DEF Placed, ForExtensions, ForTenants
  <2>. QED
    BY <2>3, <2>4
<1>8. th'[t] = s
  BY <1>6, Given
<1>9. Saga(t)'
  BY <1>2, <1>4, <1>5, <1>8 DEF Saga, AtWork, Op, ExtensionKinds, TenantKinds
<1>. QED
  BY <1>6, <1>7, <1>9, OneMoves DEF Set, IInv, TypeOK

\* An answer releases what its thread holds.
LEMMA AnswerOK ==
  ASSUME IInv, NEW t \in Threads, Answer(t)
  PROVE  IInv'
<1>1. Set(t, Idle) /\ UNCHANGED <<store, registry, dids>>
  BY DEF Answer, data
<1>2. th'[t] = Idle
  BY <1>1, Given
<1>3. Saga(t)'
  BY <1>2, IdleOK DEF Saga, AtWork
<1>4. /\ tenantLock' = tenantLock \/ tenantLock \in {None, t}
      /\ storeLock' = storeLock \/ storeLock \in {None, t}
  BY DEF Answer
<1>. QED
  BY <1>1, <1>3, <1>4, IdleOK, OneMoves DEF Set, IInv, TypeOK

\* A restart leaves no request and no lock.
LEMMA CrashOK ==
  ASSUME IInv, Crash
  PROVE  IInv'
<1>1. th' = [t \in Threads |-> Idle] /\ UNCHANGED <<store, registry>>
  BY DEF Crash, data
<1>2. \A t \in Threads : th'[t] = Idle
  BY <1>1
<1>3. TypeOK'
  BY <1>1, <1>2, IdleOK DEF IInv, TypeOK
<1>4. \A t \in Threads : Saga(t)'
  BY <1>2, IdleOK DEF Saga, AtWork
<1>. QED
  BY <1>3, <1>4 DEF IInv

\* The wizard at work, which keeps its locks.
LEMMA WizardMoves ==
  ASSUME IInv, NEW t \in Threads, AtWork(t), NEW s, Set(t, s), Whole(s), Placed(s),
         s.op = th[t].op, s.pc \notin {"idle", "lock"},
         Outcome(t)', Catalog(t)', Extensions(t)', Routing(t)',
         registry' \subseteq Registered, Extensible(store'), store' = store \/ Op(t).kind = "remove",
         UNCHANGED <<tenantLock, storeLock>>
  PROVE  IInv'
<1>1. th'[t] = s
  BY Given
<1>2. Locked(t)
  BY DEF IInv, Saga
<1>3. Saga(t)'
  BY <1>1, <1>2 DEF Saga, Locked, Op
<1>4. store' = store \/ storeLock \in {None, t}
  BY <1>2 DEF Locked
<1>. QED
  BY <1>3, <1>4, OneMoves DEF Set

\* provision_tenant takes the lock of the wizard; the tenant is not in the catalog.
LEMMA LockProvision ==
  ASSUME IInv, NEW t \in Threads, Lock(t), Op(t).kind = "provision"
  PROVE  IInv'
<1>. DEFINE op == Op(t)
            s == [To(t, "stage") EXCEPT !.acts = <<RegisterDid(Rec(op))>>]
<1>1. Whole(th[t]) /\ Placed(th[t]) /\ th[t].pc = "lock"
  BY DEF IInv, TypeOK, Lock, At
<1>2. UNCHANGED <<registry, dids, store, storeLock>> /\ tenantLock = None
  BY DEF Lock, data
<1>3. CASE Set(t, Idle) /\ UNCHANGED tenantLock
  <2>1. Saga(t)'
    BY <1>3, Given, IdleOK DEF Saga, AtWork
  <2>. QED
    BY <1>2, <1>3, <2>1, IdleOK, OneMoves DEF Set, IInv, TypeOK
<1>4. CASE Set(t, s) /\ tenantLock' = t /\ ValidCreation(Rec(op), registry)
  <2>1. /\ Twelve(s) /\ s.pc = "stage" /\ s.op = op /\ s.prev = th[t].prev /\ s.exts = th[t].exts
        /\ s.acts = <<RegisterDid(Rec(op))>> /\ s.saving = {}
        /\ s.logged = FALSE /\ s.told = FALSE /\ s.ok = TRUE
    BY <1>1 DEF Whole, Twelve, To, Op, Placed
  <2>2. Set(t, s)
    BY <1>4
  <2>. HIDE DEF s
  <2>3. th'[t] = s
    BY <2>2, Given
  <2>4. Whole(s) /\ Placed(s)
    BY <1>1, <2>1 DEF Whole, Placed, ForExtensions, ForTenants, ExtensionKinds, Op
  <2>5. Rec(op) \notin registry
    BY <1>4 DEF ValidCreation
  <2>6. Saga(t)'
    BY <1>2, <1>4, <2>1, <2>3, <2>5
       DEF Saga, Locked, Outcome, Catalog, Extensions, Routing, Undone, Present, Op,
           Forward, Backward
  <2>. QED
    BY <1>2, <1>4, <2>2, <2>4, <2>6, OneMoves DEF Set, IInv, TypeOK
<1>. QED
  BY <1>3, <1>4 DEF Lock

\* remove_tenant takes both locks; the tenant is in the catalog, and what it reads of it and of
\* the store stays so.
LEMMA LockRemove ==
  ASSUME IInv, NEW t \in Threads, Lock(t), Op(t).kind = "remove"
  PROVE  IInv'
<1>. DEFINE op == Op(t)
            s == [To(t, "stage") EXCEPT !.exts = store, !.op.did = OldRec(t).did,
                                        !.acts = <<UnregisterDid(OldRec(t))>>]
<1>1. Whole(th[t]) /\ Placed(th[t]) /\ th[t].pc = "lock"
  BY DEF IInv, TypeOK, Lock, At
<1>2. UNCHANGED <<registry, dids, store>> /\ tenantLock = None /\ storeLock = None
  BY DEF Lock, data
<1>3. CASE Set(t, Idle) /\ UNCHANGED <<tenantLock, storeLock>>
  <2>1. Saga(t)'
    BY <1>3, Given, IdleOK DEF Saga, AtWork
  <2>. QED
    BY <1>2, <1>3, <2>1, IdleOK, OneMoves DEF Set, IInv, TypeOK
<1>4. CASE Set(t, s) /\ tenantLock' = t /\ storeLock' = t /\ ValidRemoval(op.tenant, registry)
  <2>. DEFINE old == OldRec(t)
  <2>1. old \in registry /\ old.id = op.tenant
    BY <1>4 DEF ValidRemoval, OldRec
  <2>2. old \in Registered
    BY <2>1 DEF IInv, TypeOK
  <2>3. op \in Request
    BY <1>1 DEF Whole, Op
  <2>. HIDE DEF old
  <2>4. [op EXCEPT !.did = old.did] \in Request /\ [op EXCEPT !.did = old.did].kind = "remove"
        /\ Rec([op EXCEPT !.did = old.did]) = old
    BY <2>1, <2>2, <2>3 DEF Request, Registered, Rec
  <2>5. /\ Twelve(s) /\ s.pc = "stage" /\ s.op = [op EXCEPT !.did = old.did]
        /\ s.prev = th[t].prev /\ s.exts = store
        /\ s.acts = <<UnregisterDid(old)>> /\ s.saving = {}
        /\ s.logged = FALSE /\ s.told = FALSE /\ s.ok = TRUE
    BY <1>1 DEF Whole, Twelve, To, Op, Placed, old
  <2>6. Set(t, s)
    BY <1>4
  <2>. HIDE DEF s
  <2>7. th'[t] = s
    BY <2>6, Given
  <2>8. Whole(s) /\ Placed(s)
    BY <1>1, <2>4, <2>5 DEF Whole, Placed, ForExtensions, ForTenants, ExtensionKinds, IInv, TypeOK
  <2>9. Saga(t)'
    BY <1>2, <1>4, <2>1, <2>4, <2>5, <2>7
       DEF Saga, Locked, Outcome, Catalog, Extensions, Routing, Undone, Present, Op,
           Forward, Backward
  <2>. QED
    BY <1>2, <1>4, <2>6, <2>8, <2>9, OneMoves DEF Set, IInv, TypeOK
<1>. QED
  BY <1>3, <1>4 DEF Lock

\* Where the wizard is when it is not where a handler may be too.
LEMMA WizardAt ==
  ASSUME IInv, NEW t \in Threads, th[t].pc \notin {"idle", "lock"}, Op(t).kind \in TenantKinds
  PROVE  /\ AtWork(t) /\ Whole(th[t]) /\ Placed(th[t]) /\ Op(t) = th[t].op
         /\ Locked(t) /\ Outcome(t) /\ Catalog(t) /\ Extensions(t) /\ Routing(t)
         /\ Op(t).kind \in {"provision", "remove"} /\ Op(t).kind \notin ExtensionKinds
BY DEF IInv, TypeOK, AtWork, Saga, Op, TenantKinds, ExtensionKinds

\* What asking AstDB for the DID of the request, or for its removal, does to its route.
LEMMA DidApplied ==
  ASSUME NEW t \in Threads, NEW a, Apply(a),
         a = RegisterDid(Rec(Op(t))) \/ a = UnregisterDid(Rec(Op(t)))
  PROVE  (Op(t).did \in DOMAIN dids' /\ dids'[Op(t).did] = Op(t).tenant) <=> a.put
BY DEF Apply, RegisterDid, UnregisterDid, Rec, Written, With, Without

\* The second batch of a removal is prepared.
LEMMA StagePjsipOK ==
  ASSUME IInv, NEW t \in Threads, StagePjsip(t)
  PROVE  IInv'
<1>. DEFINE s == [To(t, "files") EXCEPT !.todo = <<Change(Pjsip, RenderPjsip(Remaining(t)))>>]
<1>1. th[t].pc = "stage2" /\ Op(t).kind = "remove"
  BY DEF IInv, TypeOK, StagePjsip, At, Placed, Op
<1>2. /\ AtWork(t) /\ Whole(th[t]) /\ Placed(th[t]) /\ Op(t) = th[t].op
      /\ Locked(t) /\ Outcome(t) /\ Catalog(t) /\ Extensions(t) /\ Routing(t)
      /\ Op(t).kind \notin ExtensionKinds
  BY <1>1, WizardAt DEF TenantKinds
<1>3. Keeps(th[t], s) /\ s.pc = "files" /\ s.ok = th[t].ok
  BY <1>2 DEF Whole, Twelve, Keeps, To
<1>4. Set(t, s) /\ UNCHANGED <<store, registry, dids, tenantLock, storeLock>>
  BY DEF StagePjsip, data
<1>. HIDE DEF s
<1>5. th'[t] = s
  BY <1>4, Given
<1>6. Whole(s) /\ Placed(s)
  BY <1>1, <1>2, <1>3 DEF Whole, Placed, ForExtensions, ForTenants, Keeps
<1>7. Outcome(t)' /\ Catalog(t)' /\ Extensions(t)' /\ Routing(t)'
  BY <1>1, <1>2, <1>3, <1>4, <1>5
     DEF Keeps, Outcome, Catalog, Extensions, Routing, Undone, Done, Present, Routed, Op, Rec,
         Remaining, Forward, Backward
<1>. QED
  BY <1>2, <1>3, <1>4, <1>6, <1>7, WizardMoves DEF Keeps, IInv, TypeOK

\* The extensions of the removed tenant leave the store, or its save fails.
LEMMA SaveStoreOK ==
  ASSUME IInv, NEW t \in Threads, SaveStore(t)
  PROVE  IInv'
<1>. DEFINE s == [To(t, "registry") EXCEPT !.saving = {"store"}]
            f == [Failed(t, "restore") EXCEPT !.saving = {"store"}]
<1>1. th[t].pc = "store" /\ Op(t).kind = "remove"
  BY DEF IInv, TypeOK, SaveStore, At, Placed, Op
<1>2. /\ AtWork(t) /\ Whole(th[t]) /\ Placed(th[t]) /\ Op(t) = th[t].op
      /\ Locked(t) /\ Outcome(t) /\ Catalog(t) /\ Extensions(t) /\ Routing(t)
      /\ Op(t).kind \notin ExtensionKinds
  BY <1>1, WizardAt DEF TenantKinds
<1>3. /\ Twelve(s) /\ s.op = th[t].op /\ s.prev = th[t].prev /\ s.exts = th[t].exts
      /\ s.acts = th[t].acts /\ s.logged = th[t].logged /\ s.told = th[t].told
      /\ s.saving = {"store"} /\ s.pc = "registry" /\ s.ok = th[t].ok
  BY <1>2 DEF Whole, Twelve, To
<1>4. /\ Twelve(f) /\ f.op = th[t].op /\ f.prev = th[t].prev /\ f.exts = th[t].exts
      /\ f.acts = th[t].acts /\ f.logged = th[t].logged /\ f.told = th[t].told
      /\ f.saving = {"store"} /\ f.pc = "restore" /\ f.ok = FALSE
  BY <1>2 DEF Whole, Twelve, Failed
<1>5. UNCHANGED <<registry, dids, tenantLock, storeLock>> /\ registry' \subseteq Registered
  BY DEF SaveStore, IInv, TypeOK
<1>6. CASE store' = Remaining(t) /\ Set(t, s)
  <2>. HIDE DEF s, f
  <2>1. th'[t] = s
    BY <1>6, Given
  <2>2. Whole(s) /\ Placed(s)
    BY <1>1, <1>2, <1>3 DEF Whole, Placed, ForExtensions, ForTenants
  <2>3. Extensible(store')
    BY <1>2, <1>6, FS_Subset DEF Placed, Extensible, Distinct, Remaining
  <2>4. Outcome(t)' /\ Catalog(t)' /\ Extensions(t)' /\ Routing(t)'
    BY <1>1, <1>2, <1>3, <1>5, <1>6, <2>1
       DEF Outcome, Catalog, Extensions, Routing, Undone, Done, Present, Routed, Op, Rec,
           Remaining, Forward, Backward
  <2>. QED
    BY <1>1, <1>2, <1>3, <1>5, <1>6, <2>2, <2>3, <2>4, WizardMoves
<1>7. CASE store' = store /\ Set(t, f)
  <2>. HIDE DEF s, f
  <2>1. th'[t] = f
    BY <1>7, Given
  <2>2. Whole(f) /\ Placed(f)
    BY <1>1, <1>2, <1>4 DEF Whole, Placed, ForExtensions, ForTenants
  <2>3. Outcome(t)' /\ Catalog(t)' /\ Extensions(t)' /\ Routing(t)'
    BY <1>1, <1>2, <1>4, <1>5, <1>7, <2>1
       DEF Outcome, Catalog, Extensions, Routing, Undone, Done, Present, Routed, Op, Rec,
           Remaining, Forward, Backward
  <2>. QED
    BY <1>2, <1>4, <1>5, <1>7, <2>2, <2>3, WizardMoves DEF IInv, TypeOK
<1>. QED
  BY <1>6, <1>7 DEF SaveStore

\* The catalog has the tenant, or no longer, or its save fails.
LEMMA SaveRegistryOK ==
  ASSUME IInv, NEW t \in Threads, SaveRegistry(t)
  PROVE  IInv'
<1>. DEFINE p == IF Op(t).kind = "provision" THEN "tidy" ELSE "answer"
            s == [To(t, p) EXCEPT !.saving = @ \cup {"registry"}]
            f == [Failed(t, "restore") EXCEPT !.saving = @ \cup {"registry"}]
<1>1. th[t].pc = "registry" /\ Op(t).kind \in TenantKinds
  BY DEF IInv, TypeOK, SaveRegistry, At, Placed, ForTenants, Op
<1>2. /\ AtWork(t) /\ Whole(th[t]) /\ Placed(th[t]) /\ Op(t) = th[t].op
      /\ Locked(t) /\ Outcome(t) /\ Catalog(t) /\ Extensions(t) /\ Routing(t)
      /\ Op(t).kind \in {"provision", "remove"} /\ Op(t).kind \notin ExtensionKinds
  BY <1>1, WizardAt
<1>3. /\ Twelve(s) /\ s.op = th[t].op /\ s.prev = th[t].prev /\ s.exts = th[t].exts
      /\ s.acts = th[t].acts /\ s.logged = th[t].logged /\ s.told = th[t].told
      /\ s.saving = th[t].saving \cup {"registry"} /\ s.pc = p /\ s.ok = th[t].ok
  BY <1>2 DEF Whole, Twelve, To
<1>4. /\ Twelve(f) /\ f.op = th[t].op /\ f.prev = th[t].prev /\ f.exts = th[t].exts
      /\ f.acts = th[t].acts /\ f.logged = th[t].logged /\ f.told = th[t].told
      /\ f.saving = th[t].saving \cup {"registry"} /\ f.pc = "restore" /\ f.ok = FALSE
  BY <1>2 DEF Whole, Twelve, Failed
<1>5. UNCHANGED <<store, dids, tenantLock, storeLock>> /\ Extensible(store')
  BY DEF SaveRegistry, IInv, TypeOK
<1>6. CASE registry' = NewRegistry(t) /\ Set(t, s)
  <2>. HIDE DEF s, f
  <2>1. th'[t] = s
    BY <1>6, Given
  <2>2. Whole(s) /\ Placed(s)
    BY <1>1, <1>2, <1>3 DEF Whole, Placed, ForExtensions, ForTenants
  <2>3. registry' \subseteq Registered
    BY <1>1, <1>2, <1>6 DEF Whole, IInv, TypeOK, NewRegistry, Rec, Request, Registered
  <2>4. Rec(Op(t)) \in registry' <=> Op(t).kind = "provision"
    BY <1>2, <1>6 DEF NewRegistry
  <2>5. Outcome(t)' /\ Catalog(t)' /\ Extensions(t)' /\ Routing(t)'
    BY <1>1, <1>2, <1>3, <1>5, <1>6, <2>1, <2>4
       DEF Outcome, Catalog, Extensions, Routing, Undone, Done, Present, Routed, Op,
           Remaining, Forward, Backward
  <2>. QED
    BY <1>2, <1>3, <1>5, <1>6, <2>2, <2>3, <2>5, WizardMoves
<1>7. CASE registry' = registry /\ Set(t, f)
  <2>. HIDE DEF s, f
  <2>1. th'[t] = f
    BY <1>7, Given
  <2>2. Whole(f) /\ Placed(f)
    BY <1>1, <1>2, <1>4 DEF Whole, Placed, ForExtensions, ForTenants
  <2>3. Outcome(t)' /\ Catalog(t)' /\ Extensions(t)' /\ Routing(t)'
    BY <1>1, <1>2, <1>4, <1>5, <1>7, <2>1
       DEF Outcome, Catalog, Extensions, Routing, Undone, Done, Present, Routed, Op, Rec,
           Remaining, Forward, Backward
  <2>. QED
    BY <1>2, <1>4, <1>5, <1>7, <2>2, <2>3, WizardMoves DEF IInv, TypeOK
<1>. QED
  BY <1>6, <1>7 DEF SaveRegistry

\* The staged copies are removed; a failure there undoes the provisioning.
LEMMA TidyOK ==
  ASSUME IInv, NEW t \in Threads, Tidy(t)
  PROVE  IInv'
<1>. DEFINE s == To(t, "answer")
            f == Failed(t, "unregistry")
<1>1. th[t].pc = "tidy" /\ Op(t).kind \in TenantKinds /\ Op(t).kind = "provision"
  BY DEF IInv, TypeOK, Tidy, At, Placed, ForTenants, Op
<1>2. /\ AtWork(t) /\ Whole(th[t]) /\ Placed(th[t]) /\ Op(t) = th[t].op
      /\ Locked(t) /\ Outcome(t) /\ Catalog(t) /\ Extensions(t) /\ Routing(t)
      /\ Op(t).kind \in {"provision", "remove"} /\ Op(t).kind \notin ExtensionKinds
  BY <1>1, WizardAt
<1>3. /\ Twelve(s) /\ s.pc = "answer" /\ s.op = th[t].op /\ s.prev = th[t].prev
      /\ s.exts = th[t].exts
      /\ s.acts = th[t].acts /\ s.logged = th[t].logged /\ s.told = th[t].told
      /\ s.saving = th[t].saving /\ s.ok = th[t].ok
  BY <1>2 DEF Whole, Twelve, To
<1>4. /\ Twelve(f) /\ f.pc = "unregistry" /\ f.op = th[t].op /\ f.prev = th[t].prev
      /\ f.exts = th[t].exts
      /\ f.acts = th[t].acts /\ f.logged = th[t].logged /\ f.told = th[t].told
      /\ f.saving = th[t].saving /\ f.ok = FALSE
  BY <1>2 DEF Whole, Twelve, Failed
<1>5. UNCHANGED <<store, registry, dids, tenantLock, storeLock>>
  BY DEF Tidy, data
<1>6. CASE Set(t, s)
  <2>. HIDE DEF s, f
  <2>1. th'[t] = s
    BY <1>6, Given
  <2>2. Whole(s) /\ Placed(s)
    BY <1>1, <1>2, <1>3 DEF Whole, Placed, ForExtensions, ForTenants
  <2>3. Outcome(t)' /\ Catalog(t)' /\ Extensions(t)' /\ Routing(t)'
    BY <1>1, <1>2, <1>3, <1>5, <1>6, <2>1
       DEF Outcome, Catalog, Extensions, Routing, Undone, Done, Present, Routed, Op, Rec,
           Remaining, Forward, Backward
  <2>. QED
    BY <1>1, <1>2, <1>3, <1>5, <1>6, <2>2, <2>3, WizardMoves DEF IInv, TypeOK
<1>7. CASE Set(t, f)
  <2>. HIDE DEF s, f
  <2>1. th'[t] = f
    BY <1>7, Given
  <2>2. Whole(f) /\ Placed(f)
    BY <1>1, <1>2, <1>4 DEF Whole, Placed, ForExtensions, ForTenants
  <2>3. Outcome(t)' /\ Catalog(t)' /\ Extensions(t)' /\ Routing(t)'
    BY <1>1, <1>2, <1>4, <1>5, <1>7, <2>1
       DEF Outcome, Catalog, Extensions, Routing, Undone, Done, Present, Routed, Op, Rec,
           Remaining, Forward, Backward
  <2>. QED
    BY <1>1, <1>2, <1>4, <1>5, <1>7, <2>2, <2>3, WizardMoves DEF IInv, TypeOK
<1>. QED
  BY <1>6, <1>7 DEF Tidy

\* restore_registry: the catalog is as it was, or the failure is told.
LEMMA RestoreRegistryOK ==
  ASSUME IInv, NEW t \in Threads, RestoreRegistry(t)
  PROVE  IInv'
<1>. DEFINE s == To(t, "unstore")
            f == [To(t, "unstore") EXCEPT !.told = TRUE]
            old == IF "registry" \in th[t].saving THEN OldRegistry(t) ELSE registry
<1>1. th[t].pc = "unregistry" /\ Op(t).kind \in TenantKinds
  BY DEF IInv, TypeOK, RestoreRegistry, At, Placed, ForTenants, Op
<1>2. /\ AtWork(t) /\ Whole(th[t]) /\ Placed(th[t]) /\ Op(t) = th[t].op
      /\ Locked(t) /\ Outcome(t) /\ Catalog(t) /\ Extensions(t) /\ Routing(t)
      /\ Op(t).kind \in {"provision", "remove"} /\ Op(t).kind \notin ExtensionKinds
  BY <1>1, WizardAt
<1>3. /\ Twelve(s) /\ s.pc = "unstore" /\ s.op = th[t].op /\ s.prev = th[t].prev
      /\ s.exts = th[t].exts
      /\ s.acts = th[t].acts /\ s.logged = th[t].logged /\ s.told = th[t].told
      /\ s.saving = th[t].saving /\ s.ok = th[t].ok
  BY <1>2 DEF Whole, Twelve, To
<1>4. /\ Twelve(f) /\ f.pc = "unstore" /\ f.op = th[t].op /\ f.prev = th[t].prev
      /\ f.exts = th[t].exts
      /\ f.acts = th[t].acts /\ f.logged = th[t].logged /\ f.told = TRUE
      /\ f.saving = th[t].saving /\ f.ok = th[t].ok
  BY <1>2 DEF Whole, Twelve, To
<1>5. UNCHANGED <<store, dids, tenantLock, storeLock>>
  BY DEF RestoreRegistry, data
<1>6. CASE registry' = old /\ Set(t, s)
  <2>. HIDE DEF s, f
  <2>1. th'[t] = s
    BY <1>6, Given
  <2>2. Whole(s) /\ Placed(s)
    BY <1>1, <1>2, <1>3 DEF Whole, Placed, ForExtensions, ForTenants
  <2>3. registry' \subseteq Registered
    BY <1>1, <1>2, <1>6 DEF Whole, IInv, TypeOK, OldRegistry, Rec, Request, Registered
  <2>4. Rec(Op(t)) \in registry' <=> Op(t).kind = "remove"
    BY <1>1, <1>2, <1>6 DEF OldRegistry, Catalog, Undone, Present
  <2>5. Outcome(t)' /\ Catalog(t)' /\ Extensions(t)' /\ Routing(t)'
    BY <1>1, <1>2, <1>3, <1>5, <1>6, <2>1, <2>3, <2>4
       DEF Outcome, Catalog, Extensions, Routing, Undone, Done, Present, Routed, Op, Rec,
           Remaining, Forward, Backward
  <2>. QED
    BY <1>1, <1>2, <1>3, <1>5, <1>6, <2>2, <2>3, <2>4, <2>5, WizardMoves DEF IInv, TypeOK
<1>7. CASE registry' = registry /\ Set(t, f)
  <2>. HIDE DEF s, f
  <2>1. th'[t] = f
    BY <1>7, Given
  <2>2. Whole(f) /\ Placed(f)
    BY <1>1, <1>2, <1>4 DEF Whole, Placed, ForExtensions, ForTenants
  <2>3. Outcome(t)' /\ Catalog(t)' /\ Extensions(t)' /\ Routing(t)'
    BY <1>1, <1>2, <1>4, <1>5, <1>7, <2>1
       DEF Outcome, Catalog, Extensions, Routing, Undone, Done, Present, Routed, Op, Rec,
           Remaining, Forward, Backward
  <2>. QED
    BY <1>1, <1>2, <1>4, <1>5, <1>7, <2>2, <2>3, WizardMoves DEF IInv, TypeOK
<1>. QED
  BY <1>6, <1>7 DEF RestoreRegistry

\* save_store with the snapshot: the store is as it was, or the failure is told.
LEMMA RestoreStoreOK ==
  ASSUME IInv, NEW t \in Threads, RestoreStore(t)
  PROVE  IInv'
<1>. DEFINE p == IF th[t].logged THEN "relogin" ELSE "answer"
            s == To(t, p)
            f == [To(t, p) EXCEPT !.told = TRUE]
            old == IF "store" \in th[t].saving THEN th[t].exts ELSE store
<1>1. th[t].pc = "unstore" /\ Op(t).kind \in TenantKinds
  BY DEF IInv, TypeOK, RestoreStore, At, Placed, ForTenants, Op
<1>2. /\ AtWork(t) /\ Whole(th[t]) /\ Placed(th[t]) /\ Op(t) = th[t].op
      /\ Locked(t) /\ Outcome(t) /\ Catalog(t) /\ Extensions(t) /\ Routing(t)
      /\ Op(t).kind \in {"provision", "remove"} /\ Op(t).kind \notin ExtensionKinds
  BY <1>1, WizardAt
<1>3. /\ Twelve(s) /\ s.pc = p /\ s.op = th[t].op /\ s.prev = th[t].prev /\ s.exts = th[t].exts
      /\ s.acts = th[t].acts /\ s.logged = th[t].logged /\ s.told = th[t].told
      /\ s.saving = th[t].saving /\ s.ok = th[t].ok
  BY <1>2 DEF Whole, Twelve, To
<1>4. /\ Twelve(f) /\ f.pc = p /\ f.op = th[t].op /\ f.prev = th[t].prev /\ f.exts = th[t].exts
      /\ f.acts = th[t].acts /\ f.logged = th[t].logged /\ f.told = TRUE
      /\ f.saving = th[t].saving /\ f.ok = th[t].ok
  BY <1>2 DEF Whole, Twelve, To
<1>5. UNCHANGED <<registry, dids, tenantLock, storeLock>>
  BY DEF RestoreStore, data
<1>6. CASE store' = old /\ Set(t, s)
  <2>. HIDE DEF s, f
  <2>1. th'[t] = s
    BY <1>6, Given
  <2>2. Whole(s) /\ Placed(s)
    BY <1>1, <1>2, <1>3 DEF Whole, Placed, ForExtensions, ForTenants
  <2>3. Extensible(store') /\ (store' = store \/ Op(t).kind = "remove")
    BY <1>2, <1>6 DEF IInv, TypeOK, Placed, Outcome
  <2>4. Outcome(t)' /\ Catalog(t)' /\ Extensions(t)' /\ Routing(t)'
    BY <1>1, <1>2, <1>3, <1>5, <1>6, <2>1, <2>3
       DEF Outcome, Catalog, Extensions, Routing, Undone, Done, Present, Routed, Op, Rec,
           Remaining, Forward, Backward
  <2>. QED
    BY <1>1, <1>2, <1>3, <1>5, <1>6, <2>2, <2>3, <2>4, WizardMoves DEF IInv, TypeOK
<1>7. CASE store' = store /\ Set(t, f)
  <2>. HIDE DEF s, f
  <2>1. th'[t] = f
    BY <1>7, Given
  <2>2. Whole(f) /\ Placed(f)
    BY <1>1, <1>2, <1>4 DEF Whole, Placed, ForExtensions, ForTenants
  <2>3. Outcome(t)' /\ Catalog(t)' /\ Extensions(t)' /\ Routing(t)'
    BY <1>1, <1>2, <1>4, <1>5, <1>7, <2>1
       DEF Outcome, Catalog, Extensions, Routing, Undone, Done, Present, Routed, Op, Rec,
           Remaining, Forward, Backward
  <2>. QED
    BY <1>1, <1>2, <1>4, <1>5, <1>7, <2>2, <2>3, WizardMoves DEF IInv, TypeOK
<1>. QED
  BY <1>6, <1>7 DEF RestoreStore

\* The connection that compensates, or a failure that is told.
LEMMA LoginAgainOK ==
  ASSUME IInv, NEW t \in Threads, LoginAgain(t)
  PROVE  IInv'
<1>. DEFINE s == To(t, "react")
            f == Tell(t)
<1>1. th[t].pc = "relogin" /\ Op(t).kind \in TenantKinds
  BY DEF IInv, TypeOK, LoginAgain, At, Placed, ForTenants, Op
<1>2. /\ AtWork(t) /\ Whole(th[t]) /\ Placed(th[t]) /\ Op(t) = th[t].op
      /\ Locked(t) /\ Outcome(t) /\ Catalog(t) /\ Extensions(t) /\ Routing(t)
      /\ Op(t).kind \in {"provision", "remove"} /\ Op(t).kind \notin ExtensionKinds
  BY <1>1, WizardAt
<1>3. /\ Twelve(s) /\ s.pc = "react" /\ s.op = th[t].op /\ s.prev = th[t].prev
      /\ s.exts = th[t].exts
      /\ s.acts = th[t].acts /\ s.logged = th[t].logged /\ s.told = th[t].told
      /\ s.saving = th[t].saving /\ s.ok = th[t].ok
  BY <1>2 DEF Whole, Twelve, To
<1>4. /\ Twelve(f) /\ f.pc = "answer" /\ f.op = th[t].op /\ f.prev = th[t].prev
      /\ f.exts = th[t].exts
      /\ f.acts = th[t].acts /\ f.logged = th[t].logged /\ f.told = TRUE
      /\ f.saving = th[t].saving /\ f.ok = th[t].ok
  BY <1>2 DEF Whole, Twelve, To, Tell
<1>5. UNCHANGED <<store, registry, dids, tenantLock, storeLock>>
  BY DEF LoginAgain, data
<1>6. CASE Set(t, s)
  <2>. HIDE DEF s, f
  <2>1. th'[t] = s
    BY <1>6, Given
  <2>2. Whole(s) /\ Placed(s)
    BY <1>1, <1>2, <1>3 DEF Whole, Placed, ForExtensions, ForTenants
  <2>3. Outcome(t)' /\ Catalog(t)' /\ Extensions(t)' /\ Routing(t)'
    BY <1>1, <1>2, <1>3, <1>5, <1>6, <2>1
       DEF Outcome, Catalog, Extensions, Routing, Undone, Done, Present, Routed, Op, Rec,
           Remaining, Forward, Backward
  <2>. QED
    BY <1>1, <1>2, <1>3, <1>5, <1>6, <2>2, <2>3, WizardMoves DEF IInv, TypeOK
<1>7. CASE Set(t, f)
  <2>. HIDE DEF s, f
  <2>1. th'[t] = f
    BY <1>7, Given
  <2>2. Whole(f) /\ Placed(f)
    BY <1>1, <1>2, <1>4 DEF Whole, Placed, ForExtensions, ForTenants
  <2>3. Outcome(t)' /\ Catalog(t)' /\ Extensions(t)' /\ Routing(t)'
    BY <1>1, <1>2, <1>4, <1>5, <1>7, <2>1
       DEF Outcome, Catalog, Extensions, Routing, Undone, Done, Present, Routed, Op, Rec,
           Remaining, Forward, Backward
  <2>. QED
    BY <1>1, <1>2, <1>4, <1>5, <1>7, <2>2, <2>3, WizardMoves DEF IInv, TypeOK
<1>. QED
  BY <1>6, <1>7 DEF LoginAgain

\* The opposite of the action on the DID, or a failure that is told.
LEMMA UndoDidOK ==
  ASSUME IInv, NEW t \in Threads, UndoDid(t)
  PROVE  IInv'
<1>. DEFINE a == UndoAct(t)
            s == To(t, "repjsip")
            f == Tell(t)
<1>1. th[t].pc = "react" /\ Op(t).kind \in TenantKinds
  BY DEF IInv, TypeOK, UndoDid, At, Placed, ForTenants, Op
<1>2. /\ AtWork(t) /\ Whole(th[t]) /\ Placed(th[t]) /\ Op(t) = th[t].op
      /\ Locked(t) /\ Outcome(t) /\ Catalog(t) /\ Extensions(t) /\ Routing(t)
      /\ Op(t).kind \in {"provision", "remove"} /\ Op(t).kind \notin ExtensionKinds
  BY <1>1, WizardAt
<1>3. /\ Twelve(s) /\ s.pc = "repjsip" /\ s.op = th[t].op /\ s.prev = th[t].prev
      /\ s.exts = th[t].exts
      /\ s.acts = th[t].acts /\ s.logged = th[t].logged /\ s.told = th[t].told
      /\ s.saving = th[t].saving /\ s.ok = th[t].ok
  BY <1>2 DEF Whole, Twelve, To
<1>4. /\ Twelve(f) /\ f.pc = "answer" /\ f.op = th[t].op /\ f.prev = th[t].prev
      /\ f.exts = th[t].exts
      /\ f.acts = th[t].acts /\ f.logged = th[t].logged /\ f.told = TRUE
      /\ f.saving = th[t].saving /\ f.ok = th[t].ok
  BY <1>2 DEF Whole, Twelve, To, Tell
<1>5. UNCHANGED <<store, registry, tenantLock, storeLock>>
  BY DEF UndoDid, data
<1>6. CASE Apply(a) /\ Set(t, s)
  <2>. HIDE DEF s, f
  <2>1. th'[t] = s
    BY <1>6, Given
  <2>2. Whole(s) /\ Placed(s)
    BY <1>1, <1>2, <1>3 DEF Whole, Placed, ForExtensions, ForTenants
  <2>3. (Op(t).did \in DOMAIN dids' /\ dids'[Op(t).did] = Op(t).tenant) <=> Op(t).kind = "remove"
    BY <1>2, <1>6, DidApplied DEF UndoAct, RegisterDid, UnregisterDid
  <2>4. Outcome(t)' /\ Catalog(t)' /\ Extensions(t)' /\ Routing(t)'
    BY <1>1, <1>2, <1>3, <1>5, <1>6, <2>1, <2>3
       DEF Outcome, Catalog, Extensions, Routing, Undone, Done, Present, Routed, Op, Rec,
           Remaining, Forward, Backward
  <2>. QED
    BY <1>1, <1>2, <1>3, <1>5, <1>6, <2>2, <2>3, <2>4, WizardMoves DEF IInv, TypeOK
<1>7. CASE Set(t, f)
  <2>. HIDE DEF s, f
  <2>1. th'[t] = f
    BY <1>7, Given
  <2>2. Whole(f) /\ Placed(f)
    BY <1>1, <1>2, <1>4 DEF Whole, Placed, ForExtensions, ForTenants
  <2>3. Outcome(t)' /\ Catalog(t)' /\ Extensions(t)' /\ Routing(t)'
    BY <1>1, <1>2, <1>4, <1>5, <1>7, <2>1
       DEF Outcome, Catalog, Extensions, Routing, Undone, Done, Present, Routed, Op, Rec,
           Remaining, Forward, Backward
  <2>. QED
    BY <1>1, <1>2, <1>4, <1>5, <1>7, <2>2, <2>3, WizardMoves DEF IInv, TypeOK
<1>. QED
  BY <1>6, <1>7 DEF UndoDid

\* The files are prepared, or the request fails before any is written.
LEMMA StageOK ==
  ASSUME IInv, NEW t \in Threads, Stage(t)
  PROVE  IInv'
<1>1. th[t].pc = "stage"
  BY DEF Stage, At
<1>2. /\ Whole(th[t]) /\ Placed(th[t]) /\ Op(t) = th[t].op
      /\ Op(t).kind \in ExtensionKinds \/ Op(t).kind \in TenantKinds
      /\ ExtensionKinds \cap TenantKinds = {}
  BY <1>1 DEF IInv, TypeOK, Whole, Op, Request, ExtensionKinds, TenantKinds
<1>3. PICK todo : Set(t, [To(t, "files") EXCEPT !.todo = todo]) \/ Set(t, Failed(t, "restore"))
  BY DEF Stage
<1>. DEFINE s == [To(t, "files") EXCEPT !.todo = todo]
            f == Failed(t, "restore")
<1>4. /\ Twelve(s) /\ s.pc = "files" /\ s.op = th[t].op /\ s.prev = th[t].prev
      /\ s.exts = th[t].exts
      /\ s.acts = th[t].acts /\ s.logged = th[t].logged /\ s.told = th[t].told
      /\ s.saving = th[t].saving /\ s.ok = th[t].ok
  BY <1>2 DEF Whole, Twelve, To
<1>5. /\ Twelve(f) /\ f.pc = "restore" /\ f.op = th[t].op /\ f.prev = th[t].prev
      /\ f.exts = th[t].exts
      /\ f.acts = th[t].acts /\ f.logged = th[t].logged /\ f.told = th[t].told
      /\ f.saving = th[t].saving /\ f.ok = FALSE
  BY <1>2 DEF Whole, Twelve, Failed
<1>6. UNCHANGED <<store, registry, dids, tenantLock, storeLock>>
  BY DEF Stage, data
<1>7. Set(t, s) \/ Set(t, f)
  BY <1>3
<1>. HIDE DEF s, f
<1>8. Whole(s) /\ Placed(s)
  BY <1>1, <1>2, <1>4 DEF Whole, Placed, ForExtensions, ForTenants
<1>9. Whole(f) /\ Placed(f)
  BY <1>1, <1>2, <1>5 DEF Whole, Placed, ForExtensions, ForTenants
<1>10. CASE Op(t).kind \in ExtensionKinds
  BY <1>2, <1>4, <1>5, <1>6, <1>7, <1>8, <1>9, <1>10, HandlerMoves DEF IInv, TypeOK
<1>11. CASE Op(t).kind \in TenantKinds
  <2>1. /\ AtWork(t) /\ Locked(t) /\ Outcome(t) /\ Catalog(t) /\ Extensions(t) /\ Routing(t)
        /\ Op(t).kind \in {"provision", "remove"} /\ Op(t).kind \notin ExtensionKinds
    BY <1>1, <1>11, WizardAt
  <2>2. CASE Set(t, s)
    <3>1. th'[t] = s
      BY <2>2, Given
    <3>2. Outcome(t)' /\ Catalog(t)' /\ Extensions(t)' /\ Routing(t)'
      BY <1>1, <1>2, <1>4, <1>6, <2>1, <3>1
         DEF Outcome, Catalog, Extensions, Routing, Undone, Done, Present, Routed, Op, Rec,
           Remaining, Forward, Backward
    <3>. QED
      BY <1>1, <1>2, <1>4, <1>6, <1>8, <2>1, <2>2, <3>2, WizardMoves DEF IInv, TypeOK
  <2>3. CASE Set(t, f)
    <3>1. th'[t] = f
      BY <2>3, Given
    <3>2. Outcome(t)' /\ Catalog(t)' /\ Extensions(t)' /\ Routing(t)'
      BY <1>1, <1>2, <1>5, <1>6, <2>1, <3>1
         DEF Outcome, Catalog, Extensions, Routing, Undone, Done, Present, Routed, Op, Rec,
           Remaining, Forward, Backward
    <3>. QED
      BY <1>1, <1>2, <1>5, <1>6, <1>9, <2>1, <2>3, <3>2, WizardMoves DEF IInv, TypeOK
  <2>. QED
    BY <1>7, <2>2, <2>3
<1>. QED
  BY <1>2, <1>10, <1>11

\* A file is written, or fails.
LEMMA WriteFileOK ==
  ASSUME IInv, NEW t \in Threads, WriteFile(t)
  PROVE  IInv'
<1>1. th[t].pc = "files"
  BY DEF WriteFile, At
<1>2. /\ Whole(th[t]) /\ Placed(th[t]) /\ Op(t) = th[t].op
      /\ Op(t).kind \in ExtensionKinds \/ Op(t).kind \in TenantKinds
      /\ ExtensionKinds \cap TenantKinds = {}
  BY <1>1 DEF IInv, TypeOK, Whole, Op, Request, ExtensionKinds, TenantKinds
<1>. DEFINE c == Head(th[t].todo)
            p == CASE Len(th[t].todo) > 1 -> "files"
                   [] Len(th[t].todo) = 1 /\ Op(t).kind = "remove" /\ c.file # Pjsip -> "stage2"
                   [] OTHER -> "login"
            s == [To(t, p) EXCEPT !.todo = Tail(@), !.undo = <<c>> \o @]
            f == Failed(t, "restore")
<1>4. /\ Twelve(s) /\ s.pc = p /\ s.op = th[t].op /\ s.prev = th[t].prev /\ s.exts = th[t].exts
      /\ s.acts = th[t].acts /\ s.logged = th[t].logged /\ s.told = th[t].told
      /\ s.saving = th[t].saving /\ s.ok = th[t].ok
  BY <1>2 DEF Whole, Twelve, To
<1>5. /\ Twelve(f) /\ f.pc = "restore" /\ f.op = th[t].op /\ f.prev = th[t].prev
      /\ f.exts = th[t].exts
      /\ f.acts = th[t].acts /\ f.logged = th[t].logged /\ f.told = th[t].told
      /\ f.saving = th[t].saving /\ f.ok = FALSE
  BY <1>2 DEF Whole, Twelve, Failed
<1>6. p \in {"files", "stage2", "login"} /\ (p = "stage2" => Op(t).kind = "remove")
  OBVIOUS
<1>7. UNCHANGED <<store, registry, dids, tenantLock, storeLock>>
  BY DEF WriteFile, data
<1>8. Set(t, s) \/ Set(t, f)
  BY DEF WriteFile
<1>. HIDE DEF c, p, s, f
<1>9. Whole(s) /\ Placed(s)
  BY <1>1, <1>2, <1>4, <1>6 DEF Whole, Placed, ForExtensions, ForTenants, TenantKinds
<1>10. Whole(f) /\ Placed(f)
  BY <1>1, <1>2, <1>5, <1>6 DEF Whole, Placed, ForExtensions, ForTenants
<1>11. CASE Op(t).kind \in ExtensionKinds
  BY <1>2, <1>4, <1>5, <1>7, <1>8, <1>9, <1>10, <1>11, HandlerMoves DEF IInv, TypeOK
<1>12. CASE Op(t).kind \in TenantKinds
  <2>1. /\ AtWork(t) /\ Locked(t) /\ Outcome(t) /\ Catalog(t) /\ Extensions(t) /\ Routing(t)
        /\ Op(t).kind \in {"provision", "remove"} /\ Op(t).kind \notin ExtensionKinds
    BY <1>1, <1>12, WizardAt
  <2>2. CASE Set(t, s)
    <3>1. th'[t] = s
      BY <2>2, Given
    <3>2. Outcome(t)' /\ Catalog(t)' /\ Extensions(t)' /\ Routing(t)'
      BY <1>1, <1>2, <1>4, <1>7, <2>1, <3>1, <1>6
         DEF Outcome, Catalog, Extensions, Routing, Undone, Done, Present, Routed, Op, Rec,
           Remaining, Forward, Backward
    <3>. QED
      BY <1>1, <1>2, <1>4, <1>7, <1>9, <2>1, <2>2, <3>2, <1>6, WizardMoves DEF IInv, TypeOK
  <2>3. CASE Set(t, f)
    <3>1. th'[t] = f
      BY <2>3, Given
    <3>2. Outcome(t)' /\ Catalog(t)' /\ Extensions(t)' /\ Routing(t)'
      BY <1>1, <1>2, <1>5, <1>7, <2>1, <3>1, <1>6
         DEF Outcome, Catalog, Extensions, Routing, Undone, Done, Present, Routed, Op, Rec,
           Remaining, Forward, Backward
    <3>. QED
      BY <1>1, <1>2, <1>5, <1>7, <1>10, <2>1, <2>3, <3>2, <1>6, WizardMoves DEF IInv, TypeOK
  <2>. QED
    BY <1>8, <2>2, <2>3
<1>. QED
  BY <1>2, <1>11, <1>12

\* The connection to Asterisk: a wizard has its one action before it, so it goes on to act.
LEMMA LoginOK ==
  ASSUME IInv, NEW t \in Threads, Login(t)
  PROVE  IInv'
<1>1. th[t].pc = "login"
  BY DEF Login, At
<1>2. /\ Whole(th[t]) /\ Placed(th[t]) /\ Op(t) = th[t].op
      /\ Op(t).kind \in ExtensionKinds \/ Op(t).kind \in TenantKinds
      /\ ExtensionKinds \cap TenantKinds = {}
  BY <1>1 DEF IInv, TypeOK, Whole, Op, Request, ExtensionKinds, TenantKinds
<1>. DEFINE p == IF th[t].acts = <<>> THEN "pjsip" ELSE "act"
            s == [To(t, p) EXCEPT !.logged = TRUE]
            f == Failed(t, "restore")
<1>3. /\ Twelve(s) /\ s.pc = p /\ s.op = th[t].op /\ s.prev = th[t].prev /\ s.exts = th[t].exts
      /\ s.acts = th[t].acts /\ s.logged = TRUE /\ s.told = th[t].told
      /\ s.saving = th[t].saving /\ s.ok = th[t].ok
  BY <1>2 DEF Whole, Twelve, To
<1>4. /\ Twelve(f) /\ f.pc = "restore" /\ f.op = th[t].op /\ f.prev = th[t].prev
      /\ f.exts = th[t].exts
      /\ f.acts = th[t].acts /\ f.logged = th[t].logged /\ f.told = th[t].told
      /\ f.saving = th[t].saving /\ f.ok = FALSE
  BY <1>2 DEF Whole, Twelve, Failed
<1>5. p \in {"pjsip", "act"} /\ (p = "act" <=> th[t].acts # <<>>)
  OBVIOUS
<1>6. UNCHANGED <<store, registry, dids, tenantLock, storeLock>>
  BY DEF Login, data
<1>7. Set(t, s) \/ Set(t, f)
  BY DEF Login
<1>. HIDE DEF p, s, f
<1>8. Whole(s) /\ Placed(s)
  BY <1>1, <1>2, <1>3, <1>5 DEF Whole, Placed, ForExtensions, ForTenants
<1>9. Whole(f) /\ Placed(f)
  BY <1>1, <1>2, <1>4, <1>5 DEF Whole, Placed, ForExtensions, ForTenants
<1>10. CASE Op(t).kind \in ExtensionKinds
  BY <1>2, <1>3, <1>4, <1>6, <1>7, <1>8, <1>9, <1>10, HandlerMoves DEF IInv, TypeOK
<1>11. CASE Op(t).kind \in TenantKinds
  <2>1. /\ AtWork(t) /\ Locked(t) /\ Outcome(t) /\ Catalog(t) /\ Extensions(t) /\ Routing(t)
        /\ Op(t).kind \in {"provision", "remove"} /\ Op(t).kind \notin ExtensionKinds
    BY <1>1, <1>11, WizardAt
  <2>2. CASE Set(t, s)
    <3>1. th'[t] = s
      BY <2>2, Given
    <3>a. th[t].acts # <<>>
      BY <1>1, <2>1 DEF Routing
    <3>b. p = "act"
      BY <1>5, <3>a
    <3>2. Outcome(t)' /\ Catalog(t)' /\ Extensions(t)' /\ Routing(t)'
      BY <1>1, <1>2, <1>3, <1>6, <2>1, <3>1, <3>b
         DEF Outcome, Catalog, Extensions, Routing, Undone, Done, Present, Routed, Op, Rec,
           Remaining, Forward, Backward
    <3>. QED
      BY <1>1, <1>2, <1>3, <1>6, <1>8, <2>1, <2>2, <3>2, <1>5, WizardMoves DEF IInv, TypeOK
  <2>3. CASE Set(t, f)
    <3>1. th'[t] = f
      BY <2>3, Given
    <3>2. Outcome(t)' /\ Catalog(t)' /\ Extensions(t)' /\ Routing(t)'
      BY <1>1, <1>2, <1>4, <1>6, <2>1, <3>1, <1>5
         DEF Outcome, Catalog, Extensions, Routing, Undone, Done, Present, Routed, Op, Rec,
           Remaining, Forward, Backward
    <3>. QED
      BY <1>1, <1>2, <1>4, <1>6, <1>9, <2>1, <2>3, <3>2, <1>5, WizardMoves DEF IInv, TypeOK
  <2>. QED
    BY <1>7, <2>2, <2>3
<1>. QED
  BY <1>2, <1>10, <1>11

\* The first reload.
LEMMA ReloadPjsipOK ==
  ASSUME IInv, NEW t \in Threads, ReloadPjsip(t)
  PROVE  IInv'
<1>1. th[t].pc = "pjsip"
  BY DEF ReloadPjsip, At
<1>2. /\ Whole(th[t]) /\ Placed(th[t]) /\ Op(t) = th[t].op
      /\ Op(t).kind \in ExtensionKinds \/ Op(t).kind \in TenantKinds
      /\ ExtensionKinds \cap TenantKinds = {}
  BY <1>1 DEF IInv, TypeOK, Whole, Op, Request, ExtensionKinds, TenantKinds
<1>. DEFINE s == To(t, "rest")
            f == Failed(t, "restore")
<1>3. /\ Twelve(s) /\ s.pc = "rest" /\ s.op = th[t].op /\ s.prev = th[t].prev
      /\ s.exts = th[t].exts
      /\ s.acts = th[t].acts /\ s.logged = th[t].logged /\ s.told = th[t].told
      /\ s.saving = th[t].saving /\ s.ok = th[t].ok
  BY <1>2 DEF Whole, Twelve, To
<1>4. /\ Twelve(f) /\ f.pc = "restore" /\ f.op = th[t].op /\ f.prev = th[t].prev
      /\ f.exts = th[t].exts
      /\ f.acts = th[t].acts /\ f.logged = th[t].logged /\ f.told = th[t].told
      /\ f.saving = th[t].saving /\ f.ok = FALSE
  BY <1>2 DEF Whole, Twelve, Failed
<1>5. UNCHANGED <<store, registry, dids, tenantLock, storeLock>>
  BY DEF ReloadPjsip, data
<1>6. Set(t, s) \/ Set(t, f)
  BY DEF ReloadPjsip
<1>. HIDE DEF s, f
<1>7. Whole(s) /\ Placed(s)
  BY <1>1, <1>2, <1>3 DEF Whole, Placed, ForExtensions, ForTenants
<1>8. Whole(f) /\ Placed(f)
  BY <1>1, <1>2, <1>4 DEF Whole, Placed, ForExtensions, ForTenants
<1>9. CASE Op(t).kind \in ExtensionKinds
  BY <1>2, <1>3, <1>4, <1>5, <1>6, <1>7, <1>8, <1>9, HandlerMoves DEF IInv, TypeOK
<1>10. CASE Op(t).kind \in TenantKinds
  <2>1. /\ AtWork(t) /\ Locked(t) /\ Outcome(t) /\ Catalog(t) /\ Extensions(t) /\ Routing(t)
        /\ Op(t).kind \in {"provision", "remove"} /\ Op(t).kind \notin ExtensionKinds
    BY <1>1, <1>10, WizardAt
  <2>2. CASE Set(t, s)
    <3>1. th'[t] = s
      BY <2>2, Given
    <3>2. Outcome(t)' /\ Catalog(t)' /\ Extensions(t)' /\ Routing(t)'
      BY <1>1, <1>2, <1>3, <1>5, <2>1, <3>1
         DEF Outcome, Catalog, Extensions, Routing, Undone, Done, Present, Routed, Op, Rec,
           Remaining, Forward, Backward
    <3>. QED
      BY <1>1, <1>2, <1>3, <1>5, <1>7, <2>1, <2>2, <3>2, WizardMoves DEF IInv, TypeOK
  <2>3. CASE Set(t, f)
    <3>1. th'[t] = f
      BY <2>3, Given
    <3>2. Outcome(t)' /\ Catalog(t)' /\ Extensions(t)' /\ Routing(t)'
      BY <1>1, <1>2, <1>4, <1>5, <2>1, <3>1
         DEF Outcome, Catalog, Extensions, Routing, Undone, Done, Present, Routed, Op, Rec,
           Remaining, Forward, Backward
    <3>. QED
      BY <1>1, <1>2, <1>4, <1>5, <1>8, <2>1, <2>3, <3>2, WizardMoves DEF IInv, TypeOK
  <2>. QED
    BY <1>6, <2>2, <2>3
<1>. QED
  BY <1>2, <1>9, <1>10

\* The other reloads; a removal that takes no extension away goes on to the catalog.
LEMMA ReloadRestOK ==
  ASSUME IInv, NEW t \in Threads, ReloadRest(t)
  PROVE  IInv'
<1>1. th[t].pc = "rest"
  BY DEF ReloadRest, At
<1>2. /\ Whole(th[t]) /\ Placed(th[t]) /\ Op(t) = th[t].op
      /\ Op(t).kind \in ExtensionKinds \/ Op(t).kind \in TenantKinds
      /\ ExtensionKinds \cap TenantKinds = {}
  BY <1>1 DEF IInv, TypeOK, Whole, Op, Request, ExtensionKinds, TenantKinds
<1>. DEFINE p == AfterReload(t)
            s == To(t, p)
            f == Failed(t, "restore")
<1>3. /\ Twelve(s) /\ s.pc = p /\ s.op = th[t].op /\ s.prev = th[t].prev /\ s.exts = th[t].exts
      /\ s.acts = th[t].acts /\ s.logged = th[t].logged /\ s.told = th[t].told
      /\ s.saving = th[t].saving /\ s.ok = th[t].ok
  BY <1>2 DEF Whole, Twelve, To
<1>4. /\ Twelve(f) /\ f.pc = "restore" /\ f.op = th[t].op /\ f.prev = th[t].prev
      /\ f.exts = th[t].exts
      /\ f.acts = th[t].acts /\ f.logged = th[t].logged /\ f.told = th[t].told
      /\ f.saving = th[t].saving /\ f.ok = FALSE
  BY <1>2 DEF Whole, Twelve, Failed
<1>5. /\ Op(t).kind \in ExtensionKinds => p = "answer"
      /\ Op(t).kind \in TenantKinds =>
           \/ p = "store" /\ Op(t).kind = "remove"
           \/ p = "registry" /\ (Op(t).kind = "remove" => Remaining(t) = th[t].exts)
  <2>1. Op(t).kind \in ExtensionKinds => p = "answer"
    BY DEF AfterReload, ExtensionKinds
  <2>2. ASSUME Op(t).kind = "remove"
        PROVE  p = "store" \/ (p = "registry" /\ Remaining(t) = th[t].exts)
    BY <2>2 DEF AfterReload, ExtensionKinds
  <2>3. Op(t).kind = "provision" => p = "registry"
    BY DEF AfterReload, ExtensionKinds
  <2>. HIDE DEF p
  <2>. QED
    BY <2>1, <2>2, <2>3 DEF TenantKinds
<1>6. UNCHANGED <<store, registry, dids, tenantLock, storeLock>>
  BY DEF ReloadRest, data
<1>7. Set(t, s) \/ Set(t, f)
  BY DEF ReloadRest
<1>. HIDE DEF p, s, f
<1>8. Whole(s) /\ Placed(s)
  BY <1>1, <1>2, <1>3, <1>5 DEF Whole, Placed, ForExtensions, ForTenants
<1>9. Whole(f) /\ Placed(f)
  BY <1>1, <1>2, <1>4, <1>5 DEF Whole, Placed, ForExtensions, ForTenants
<1>10. CASE Op(t).kind \in ExtensionKinds
  BY <1>2, <1>3, <1>4, <1>6, <1>7, <1>8, <1>9, <1>10, HandlerMoves DEF IInv, TypeOK
<1>11. CASE Op(t).kind \in TenantKinds
  <2>1. /\ AtWork(t) /\ Locked(t) /\ Outcome(t) /\ Catalog(t) /\ Extensions(t) /\ Routing(t)
        /\ Op(t).kind \in {"provision", "remove"} /\ Op(t).kind \notin ExtensionKinds
    BY <1>1, <1>11, WizardAt
  <2>2. CASE Set(t, s)
    <3>1. th'[t] = s
      BY <2>2, Given
    <3>2. Outcome(t)' /\ Catalog(t)' /\ Extensions(t)' /\ Routing(t)'
      BY <1>1, <1>2, <1>3, <1>6, <2>1, <3>1, <1>5
         DEF Outcome, Catalog, Extensions, Routing, Undone, Done, Present, Routed, Op, Rec,
           Remaining, Forward, Backward
    <3>. QED
      BY <1>1, <1>2, <1>3, <1>6, <1>8, <2>1, <2>2, <3>2, <1>5, WizardMoves DEF IInv, TypeOK
  <2>3. CASE Set(t, f)
    <3>1. th'[t] = f
      BY <2>3, Given
    <3>2. Outcome(t)' /\ Catalog(t)' /\ Extensions(t)' /\ Routing(t)'
      BY <1>1, <1>2, <1>4, <1>6, <2>1, <3>1, <1>5
         DEF Outcome, Catalog, Extensions, Routing, Undone, Done, Present, Routed, Op, Rec,
           Remaining, Forward, Backward
    <3>. QED
      BY <1>1, <1>2, <1>4, <1>6, <1>9, <2>1, <2>3, <3>2, <1>5, WizardMoves DEF IInv, TypeOK
  <2>. QED
    BY <1>7, <2>2, <2>3
<1>. QED
  BY <1>2, <1>10, <1>11

\* All files are put back.
LEMMA RestoredOK ==
  ASSUME IInv, NEW t \in Threads, Restored(t)
  PROVE  IInv'
<1>1. th[t].pc = "restore"
  BY DEF Restored, At
<1>2. /\ Whole(th[t]) /\ Placed(th[t]) /\ Op(t) = th[t].op
      /\ Op(t).kind \in ExtensionKinds \/ Op(t).kind \in TenantKinds
      /\ ExtensionKinds \cap TenantKinds = {}
  BY <1>1 DEF IInv, TypeOK, Whole, Op, Request, ExtensionKinds, TenantKinds
<1>. DEFINE p == CASE Op(t).kind \notin ExtensionKinds -> "unregistry"
                   [] Op(t).kind \in ExtensionKinds /\ th[t].logged -> "again"
                   [] OTHER -> "answer"
            s == To(t, p)
<1>3. /\ Twelve(s) /\ s.pc = p /\ s.op = th[t].op /\ s.prev = th[t].prev /\ s.exts = th[t].exts
      /\ s.acts = th[t].acts /\ s.logged = th[t].logged /\ s.told = th[t].told
      /\ s.saving = th[t].saving /\ s.ok = th[t].ok
  BY <1>2 DEF Whole, Twelve, To
<1>4. /\ Op(t).kind \in ExtensionKinds => p \in {"again", "answer"}
      /\ Op(t).kind \in TenantKinds => p = "unregistry"
  <2>1. Op(t).kind \in TenantKinds => Op(t).kind \notin ExtensionKinds
    BY DEF ExtensionKinds, TenantKinds
  <2>2. Op(t).kind \in ExtensionKinds => p \in {"again", "answer"}
    OBVIOUS
  <2>3. Op(t).kind \notin ExtensionKinds => p = "unregistry"
    OBVIOUS
  <2>. QED
    BY <2>1, <2>2, <2>3
<1>5. UNCHANGED <<store, registry, dids, tenantLock, storeLock>>
  BY DEF Restored, data
<1>6. Set(t, s)
  BY DEF Restored
<1>. HIDE DEF p, s
<1>7. Whole(s) /\ Placed(s)
  BY <1>1, <1>2, <1>3, <1>4 DEF Whole, Placed, ForExtensions, ForTenants
<1>8. CASE Op(t).kind \in ExtensionKinds
  BY <1>2, <1>3, <1>5, <1>6, <1>7, <1>8, HandlerMoves DEF IInv, TypeOK
<1>9. CASE Op(t).kind \in TenantKinds
  <2>1. /\ AtWork(t) /\ Locked(t) /\ Outcome(t) /\ Catalog(t) /\ Extensions(t) /\ Routing(t)
        /\ Op(t).kind \in {"provision", "remove"} /\ Op(t).kind \notin ExtensionKinds
    BY <1>1, <1>9, WizardAt
  <2>2. CASE Set(t, s)
    <3>1. th'[t] = s
      BY <2>2, Given
    <3>2. Outcome(t)' /\ Catalog(t)' /\ Extensions(t)' /\ Routing(t)'
      BY <1>1, <1>2, <1>3, <1>5, <2>1, <3>1, <1>4
         DEF Outcome, Catalog, Extensions, Routing, Undone, Done, Present, Routed, Op, Rec,
           Remaining, Forward, Backward
    <3>. QED
      BY <1>1, <1>2, <1>3, <1>5, <1>7, <2>1, <2>2, <3>2, <1>4, WizardMoves DEF IInv, TypeOK
  <2>. QED
    BY <1>6, <2>2
<1>. QED
  BY <1>2, <1>8, <1>9

\* One file is put back, or not; of a removal the second is told.
LEMMA RestoreFileOK ==
  ASSUME IInv, NEW t \in Threads, RestoreFile(t)
  PROVE  IInv'
<1>1. th[t].pc = "restore"
  BY DEF RestoreFile, At
<1>2. /\ Whole(th[t]) /\ Placed(th[t]) /\ Op(t) = th[t].op
      /\ Op(t).kind \in ExtensionKinds \/ Op(t).kind \in TenantKinds
      /\ ExtensionKinds \cap TenantKinds = {}
  BY <1>1 DEF IInv, TypeOK, Whole, Op, Request, ExtensionKinds, TenantKinds
<1>. DEFINE told == th[t].told \/ (Op(t).kind = "remove" /\ Head(th[t].undo).file # Pjsip)
            s == [th[t] EXCEPT !.undo = Tail(@)]
            f == [th[t] EXCEPT !.undo = IF Op(t).kind = "provision" THEN <<>> ELSE Tail(@),
                               !.told = told]
<1>3. told \in BOOLEAN
  OBVIOUS
<1>4. /\ Twelve(s) /\ s.pc = "restore" /\ s.op = th[t].op /\ s.prev = th[t].prev
      /\ s.exts = th[t].exts
      /\ s.acts = th[t].acts /\ s.logged = th[t].logged /\ s.told = th[t].told
      /\ s.saving = th[t].saving /\ s.ok = th[t].ok
  BY <1>1, <1>2 DEF Whole, Twelve
<1>5. /\ Twelve(f) /\ f.pc = "restore" /\ f.op = th[t].op /\ f.prev = th[t].prev
      /\ f.exts = th[t].exts
      /\ f.acts = th[t].acts /\ f.logged = th[t].logged /\ f.told = told
      /\ f.saving = th[t].saving /\ f.ok = th[t].ok
  BY <1>1, <1>2 DEF Whole, Twelve
<1>6. UNCHANGED <<store, registry, dids, tenantLock, storeLock>>
  BY DEF RestoreFile, data
<1>7. Set(t, s) \/ Set(t, f)
  BY DEF RestoreFile
<1>. HIDE DEF told, s, f
<1>8. Whole(s) /\ Placed(s)
  BY <1>1, <1>2, <1>4 DEF Whole, Placed, ForExtensions, ForTenants
<1>9. Whole(f) /\ Placed(f)
  BY <1>1, <1>2, <1>3, <1>5 DEF Whole, Placed, ForExtensions, ForTenants
<1>10. CASE Op(t).kind \in ExtensionKinds
  BY <1>2, <1>4, <1>5, <1>6, <1>7, <1>8, <1>9, <1>10, HandlerMoves DEF IInv, TypeOK
<1>11. CASE Op(t).kind \in TenantKinds
  <2>1. /\ AtWork(t) /\ Locked(t) /\ Outcome(t) /\ Catalog(t) /\ Extensions(t) /\ Routing(t)
        /\ Op(t).kind \in {"provision", "remove"} /\ Op(t).kind \notin ExtensionKinds
    BY <1>1, <1>11, WizardAt
  <2>2. CASE Set(t, s)
    <3>1. th'[t] = s
      BY <2>2, Given
    <3>2. Outcome(t)' /\ Catalog(t)' /\ Extensions(t)' /\ Routing(t)'
      BY <1>1, <1>2, <1>4, <1>6, <2>1, <3>1
         DEF Outcome, Catalog, Extensions, Routing, Undone, Done, Present, Routed, Op, Rec,
           Remaining, Forward, Backward
    <3>. QED
      BY <1>1, <1>2, <1>4, <1>6, <1>8, <2>1, <2>2, <3>2, WizardMoves DEF IInv, TypeOK
  <2>3. CASE Set(t, f)
    <3>1. th'[t] = f
      BY <2>3, Given
    <3>2. Outcome(t)' /\ Catalog(t)' /\ Extensions(t)' /\ Routing(t)'
      BY <1>1, <1>2, <1>5, <1>6, <2>1, <3>1
         DEF Outcome, Catalog, Extensions, Routing, Undone, Done, Present, Routed, Op, Rec,
           Remaining, Forward, Backward
    <3>. QED
      BY <1>1, <1>2, <1>5, <1>6, <1>9, <2>1, <2>3, <3>2, WizardMoves DEF IInv, TypeOK
  <2>. QED
    BY <1>7, <2>2, <2>3
<1>. QED
  BY <1>2, <1>10, <1>11

\* An action of AstDB: of a handler it leaves the DIDs alone, of the wizard it is the one
\* that routes the DID or takes it away, and a failure leaves either.
LEMMA ActOK ==
  ASSUME IInv, NEW t \in Threads, Act(t)
  PROVE  IInv'
<1>1. th[t].pc = "act"
  BY DEF Act, At
<1>2. /\ Whole(th[t]) /\ Placed(th[t]) /\ Op(t) = th[t].op
      /\ Op(t).kind \in ExtensionKinds \/ Op(t).kind \in TenantKinds
      /\ ExtensionKinds \cap TenantKinds = {}
  BY <1>1 DEF IInv, TypeOK, Whole, Op, Request, ExtensionKinds, TenantKinds
<1>. DEFINE a == Head(th[t].acts)
            left == Tail(th[t].acts)
            p == IF Len(th[t].acts) = 1 THEN "pjsip" ELSE "act"
            s == [To(t, p) EXCEPT !.acts = Tail(@)]
            f == Failed(t, "restore")
<1>3. /\ Twelve(s) /\ s.pc = p /\ s.op = th[t].op /\ s.prev = th[t].prev /\ s.exts = th[t].exts
      /\ s.acts = left /\ s.logged = th[t].logged /\ s.told = th[t].told
      /\ s.saving = th[t].saving /\ s.ok = th[t].ok
  BY <1>2 DEF Whole, Twelve, To
<1>4. /\ Twelve(f) /\ f.pc = "restore" /\ f.op = th[t].op /\ f.prev = th[t].prev
      /\ f.exts = th[t].exts
      /\ f.acts = th[t].acts /\ f.logged = th[t].logged /\ f.told = th[t].told
      /\ f.saving = th[t].saving /\ f.ok = FALSE
  BY <1>2 DEF Whole, Twelve, Failed
<1>5. UNCHANGED <<store, registry, tenantLock, storeLock>>
  BY DEF Act
<1>6. \/ Apply(a) /\ Set(t, s)
      \/ (dids' = dids \/ Apply(a)) /\ Set(t, f)
  BY DEF Act
<1>7. p \in {"pjsip", "act"}
  OBVIOUS
<1>. HIDE DEF s, f
<1>8. Whole(s) /\ Whole(f) /\ Placed(f)
  BY <1>1, <1>2, <1>3, <1>4 DEF Whole, Placed, ForExtensions, ForTenants
<1>9. CASE Op(t).kind \in ExtensionKinds
  <2>1. th[t].acts \in Seq(Mapping) /\ th[t].acts # <<>>
    BY <1>1, <1>2, <1>9 DEF Placed
  <2>a. a \in Mapping /\ left \in Seq(Mapping) /\ Len(left) = Len(th[t].acts) - 1
    BY <2>1, HeadTailProperties
  <2>b. Len(th[t].acts) # 1 => left # <<>>
    <3>1. Len(th[t].acts) \in Nat /\ Len(<<>>) = 0
      BY <2>1, EmptySeq
    <3>2. ASSUME Len(th[t].acts) # 1, left = <<>> PROVE FALSE
      <4>1. Len(left) = Len(<<>>)
        BY <3>2
      <4>. HIDE DEF left
      <4>2. Len(th[t].acts) - 1 = 0
        BY <2>a, <3>1, <4>1
      <4>. QED
        BY <3>1, <3>2, <4>2
    <3>. QED
      BY <3>2
  <2>2. a \in Mapping /\ left \in Seq(Mapping) /\ (p = "act" => left # <<>>)
    BY <2>a, <2>b
  <2>3. Apply(a) => dids' = dids
    BY <2>2 DEF Mapping, Apply
  <2>. HIDE DEF a, left, p
  <2>4. Placed(s)
    BY <1>1, <1>2, <1>3, <1>7, <2>2 DEF Placed, ForExtensions, ForTenants
  <2>. QED
    BY <1>2, <1>3, <1>4, <1>5, <1>6, <1>8, <1>9, <2>3, <2>4, HandlerMoves DEF IInv, TypeOK
<1>10. CASE Op(t).kind \in TenantKinds
  <2>1. /\ AtWork(t) /\ Locked(t) /\ Outcome(t) /\ Catalog(t) /\ Extensions(t) /\ Routing(t)
        /\ Op(t).kind \in {"provision", "remove"} /\ Op(t).kind \notin ExtensionKinds
    BY <1>1, <1>10, WizardAt
  <2>. DEFINE did == IF Op(t).kind = "provision" THEN RegisterDid(Rec(Op(t)))
                                                 ELSE UnregisterDid(Rec(Op(t)))
  <2>2. th[t].acts = <<did>>
    BY <1>1, <2>1 DEF Routing
  <2>3. a = did /\ p = "pjsip"
    BY <2>2
  <2>. HIDE DEF a, left, p, did
  <2>4. Placed(s)
    BY <1>2, <1>3, <2>1, <2>3 DEF Placed, ForExtensions, ForTenants
  <2>5. CASE Apply(a) /\ Set(t, s)
    <3>1. th'[t] = s
      BY <2>5, Given
    <3>2. (Op(t).did \in DOMAIN dids' /\ dids'[Op(t).did] = Op(t).tenant) <=> Op(t).kind = "provision"
      BY <2>1, <2>3, <2>5, DidApplied DEF did, RegisterDid, UnregisterDid
    <3>3. Outcome(t)' /\ Catalog(t)' /\ Extensions(t)' /\ Routing(t)'
      BY <1>1, <1>2, <1>3, <1>5, <2>1, <2>3, <3>1, <3>2
         DEF Outcome, Catalog, Extensions, Routing, Undone, Done, Present, Routed, Op, Rec,
           Remaining, Forward, Backward
    <3>. QED
      BY <1>1, <1>2, <1>3, <1>5, <1>8, <2>1, <2>3, <2>4, <2>5, <3>3, WizardMoves DEF IInv, TypeOK
  <2>6. CASE Set(t, f)
    <3>1. th'[t] = f
      BY <2>6, Given
    <3>2. Outcome(t)' /\ Catalog(t)' /\ Extensions(t)' /\ Routing(t)'
      BY <1>1, <1>2, <1>4, <1>5, <2>1, <3>1
         DEF Outcome, Catalog, Extensions, Routing, Undone, Done, Present, Routed, Op, Rec,
           Remaining, Forward, Backward
    <3>. QED
      BY <1>1, <1>2, <1>4, <1>5, <1>8, <2>1, <2>6, <3>2, WizardMoves DEF IInv, TypeOK
  <2>. QED
    BY <1>6, <2>5, <2>6
<1>. QED
  BY <1>2, <1>9, <1>10

\* The reloads that compensate, or a failure that is told.
LEMMA UndoReloadOK ==
  ASSUME IInv, NEW t \in Threads, UndoReload(t)
  PROVE  IInv'
<1>. DEFINE p == IF th[t].pc = "repjsip" THEN "rerest" ELSE "answer"
            s == To(t, p)
            f == Tell(t)
<1>1. th[t].pc \in {"repjsip", "rerest"} /\ Op(t).kind \in TenantKinds
  BY DEF IInv, TypeOK, UndoReload, At, Placed, ForTenants, Op
<1>2. /\ AtWork(t) /\ Whole(th[t]) /\ Placed(th[t]) /\ Op(t) = th[t].op
      /\ Locked(t) /\ Outcome(t) /\ Catalog(t) /\ Extensions(t) /\ Routing(t)
      /\ Op(t).kind \in {"provision", "remove"} /\ Op(t).kind \notin ExtensionKinds
  BY <1>1, WizardAt
<1>3. /\ Twelve(s) /\ s.pc = p /\ s.op = th[t].op /\ s.prev = th[t].prev /\ s.exts = th[t].exts
      /\ s.acts = th[t].acts /\ s.logged = th[t].logged /\ s.told = th[t].told
      /\ s.saving = th[t].saving /\ s.ok = th[t].ok
  BY <1>2 DEF Whole, Twelve, To
<1>4. /\ Twelve(f) /\ f.pc = "answer" /\ f.op = th[t].op /\ f.prev = th[t].prev
      /\ f.exts = th[t].exts
      /\ f.acts = th[t].acts /\ f.logged = th[t].logged /\ f.told = TRUE
      /\ f.saving = th[t].saving /\ f.ok = th[t].ok
  BY <1>2 DEF Whole, Twelve, To, Tell
<1>5. UNCHANGED <<store, registry, dids, tenantLock, storeLock>>
  BY DEF UndoReload
<1>6. Set(t, s) \/ Set(t, f)
  BY DEF UndoReload, At
<1>7. p \in {"rerest", "answer"}
  OBVIOUS
<1>. HIDE DEF p, s, f
<1>8. Whole(s) /\ Placed(s)
  BY <1>1, <1>2, <1>3, <1>7 DEF Whole, Placed, ForExtensions, ForTenants
<1>9. Whole(f) /\ Placed(f)
  BY <1>1, <1>2, <1>4 DEF Whole, Placed, ForExtensions, ForTenants
<1>10. CASE Set(t, s)
  <2>1. th'[t] = s
    BY <1>10, Given
  <2>2. Outcome(t)' /\ Catalog(t)' /\ Extensions(t)' /\ Routing(t)'
    BY <1>1, <1>2, <1>3, <1>5, <1>7, <2>1
       DEF Outcome, Catalog, Extensions, Routing, Undone, Done, Present, Routed, Op, Rec,
           Remaining, Forward, Backward
  <2>. QED
    BY <1>1, <1>2, <1>3, <1>5, <1>7, <1>8, <1>10, <2>2, WizardMoves DEF IInv, TypeOK
<1>11. CASE Set(t, f)
  <2>1. th'[t] = f
    BY <1>11, Given
  <2>2. Outcome(t)' /\ Catalog(t)' /\ Extensions(t)' /\ Routing(t)'
    BY <1>1, <1>2, <1>4, <1>5, <2>1
       DEF Outcome, Catalog, Extensions, Routing, Undone, Done, Present, Routed, Op, Rec,
           Remaining, Forward, Backward
  <2>. QED
    BY <1>1, <1>2, <1>4, <1>5, <1>9, <1>11, <2>2, WizardMoves DEF IInv, TypeOK
<1>. QED
  BY <1>6, <1>10, <1>11

----------------------------------------------------------------------------
\* Every step keeps the invariant.
LEMMA NextOK ==
  ASSUME IInv, [Next]_vars
  PROVE  IInv'
<1>1. CASE Crash
  BY <1>1, CrashOK
<1>2. ASSUME NEW t \in Threads, Receive(t) PROVE IInv'
  BY <1>2, ReceiveOK
<1>3. ASSUME NEW t \in Threads, Step(t) PROVE IInv'
  <2>1. CASE ReadPrevious(t) \/ ReadKnown(t) \/ SaveExtension(t) \/ LoadStore(t) \/ Render(t)
    BY <2>1, ReadPreviousOK, ReadKnownOK, SaveExtensionOK, LoadStoreOK, RenderOK
  <2>2. CASE Lock(t)
    <3>1. Op(t).kind \in {"provision", "remove"}
      BY <2>2 DEF Lock
    <3>. QED
      BY <2>2, <3>1, LockProvision, LockRemove
  <2>3. CASE Stage(t) \/ StagePjsip(t) \/ WriteFile(t)
    BY <2>3, StageOK, StagePjsipOK, WriteFileOK
  <2>4. CASE Login(t) \/ Act(t) \/ ReloadPjsip(t) \/ ReloadRest(t)
    BY <2>4, LoginOK, ActOK, ReloadPjsipOK, ReloadRestOK
  <2>5. CASE SaveStore(t) \/ SaveRegistry(t) \/ Tidy(t)
    BY <2>5, SaveStoreOK, SaveRegistryOK, TidyOK
  <2>6. CASE RestoreFile(t) \/ Restored(t) \/ ReloadAgain(t)
    BY <2>6, RestoreFileOK, RestoredOK, ReloadAgainOK
  <2>7. CASE RestoreRegistry(t) \/ RestoreStore(t) \/ LoginAgain(t) \/ UndoDid(t) \/ UndoReload(t)
    BY <2>7, RestoreRegistryOK, RestoreStoreOK, LoginAgainOK, UndoDidOK, UndoReloadOK
  <2>8. CASE Answer(t)
    BY <2>8, AnswerOK
  <2>. QED
    BY <1>3, <2>1, <2>2, <2>3, <2>4, <2>5, <2>6, <2>7, <2>8 DEF Step
<1>4. CASE UNCHANGED vars
  <2>1. UNCHANGED <<store, registry, dids, th, tenantLock, storeLock>>
    BY <1>4 DEF vars, data
  <2>2. TypeOK'
    BY <2>1 DEF IInv, TypeOK
  <2>3. ASSUME NEW t \in Threads PROVE Saga(t)'
    BY <2>1 DEF IInv, Saga, AtWork, Locked, Outcome, Catalog, Extensions, Routing, Undone, Done,
                Present, Routed, Op, Rec, Remaining
  <2>. QED
    BY <2>2, <2>3 DEF IInv
<1>. QED
  BY <1>1, <1>2, <1>3, <1>4 DEF Next

\* A wizard that answers without telling of an incomplete compensation has done its request
\* or undone it.
LEMMA AnsweredWhole ==
  ASSUME IInv, NEW t \in Threads, At(t, "answer"), Op(t).kind \in TenantKinds, ~th[t].told,
         NEW exists, exists = ((Op(t).kind = "provision") = th[t].ok)
  PROVE  /\ Present(t) = exists
         /\ th[t].logged => Routed(t) = exists
         /\ Op(t).kind = "remove" => store = IF exists THEN th[t].exts ELSE Remaining(t)
<1>1. th[t].pc = "answer"
  BY DEF At
<1>2. /\ Whole(th[t]) /\ Catalog(t) /\ Extensions(t) /\ Routing(t)
      /\ Op(t).kind \in {"provision", "remove"}
  BY <1>1, WizardAt
<1>3. Present(t) \in BOOLEAN /\ Routed(t) \in BOOLEAN /\ th[t].ok \in BOOLEAN
  BY <1>2 DEF Present, Routed, Whole
<1>4. CASE th[t].ok
  <2>1. exists <=> Op(t).kind = "provision"
    BY <1>3, <1>4
  <2>2. Present(t) <=> Op(t).kind = "provision"
    BY <1>1, <1>2, <1>4 DEF Catalog, Done
  <2>3. Routed(t) <=> Op(t).kind = "provision"
    BY <1>1, <1>2, <1>4 DEF Routing
  <2>4. Op(t).kind = "remove" => store = Remaining(t)
    BY <1>1, <1>2, <1>4 DEF Extensions
  <2>. QED
    BY <1>3, <2>1, <2>2, <2>3, <2>4
<1>5. CASE ~th[t].ok
  <2>1. exists <=> Op(t).kind = "remove"
    BY <1>2, <1>3, <1>5
  <2>2. Present(t) <=> Op(t).kind = "remove"
    BY <1>1, <1>2, <1>5 DEF Catalog, Undone
  <2>3. th[t].logged => (Routed(t) <=> Op(t).kind = "remove")
    BY <1>1, <1>2, <1>5 DEF Routing
  <2>4. Op(t).kind = "remove" => store = th[t].exts
    BY <1>1, <1>2, <1>5 DEF Extensions
  <2>. QED
    BY <1>3, <2>1, <2>2, <2>3, <2>4
<1>. QED
  BY <1>4, <1>5

----------------------------------------------------------------------------
\* The records are well formed, and a wizard at work is as far as its step says.
THEOREM Invariance == Spec => []IInv
<1>. QED
  BY InitOK, NextOK, PTL DEF Spec

\* provision_tenant and remove_tenant: an answer that does not tell of an incomplete rollback is
\* of a request that is in the catalog, the DIDs and the store entirely, or not at all.
THEOREM SagasAtomic == Spec => []SagasAreAtomic
<1>1. IInv => SagasAreAtomic
  BY AnsweredWhole DEF SagasAreAtomic, Present, Routed
<1>. QED
  BY Invariance, <1>1, PTL

\* However many handlers and removals save the extension store, and whatever fails or is restored,
\* no two extensions in it have one name, or one number of a tenant.
THEOREM NumbersUnique == Spec => []NumbersAreUnique
<1>1. IInv => NumbersAreUnique
  BY DEF IInv, TypeOK, Extensible, Distinct, NumbersAreUnique
<1>. QED
  BY Invariance, <1>1, PTL

----------------------------------------------------------------------------
(***************************************************************************)
(* AstDB maps the numbers of the extensions of the store and no others, as *)
(* long as no publication failed, no two requests met and nothing crashed. *)
(*                                                                         *)
(* A handler that has saved has still to change the maps: the actions that *)
(* are left in its record, applied to the maps, give those of the store.   *)
(* A removal leaves the maps alone, and the store has either the           *)
(* extensions it found or those that remain.                               *)
(***************************************************************************)

\* The maps are those of some extensions.
Mapped(m, exts) == DOMAIN m = {Line(e) : e \in exts} /\ \A e \in exts : m[Line(e)] = e.name

\* The actions that are left lead from the maps to those of some extensions.
Led(m, acts, exts) ==
  /\ acts \in Seq(Mapping) /\ Len(acts) <= 2
  /\ Len(acts) = 0 => Mapped(m, exts)
  /\ Len(acts) = 1 => Mapped(Written(m, acts[1]), exts)
  /\ Len(acts) = 2 => Mapped(Written(Written(m, acts[1]), acts[2]), exts)

\* What a handler of an extension has done so far.
Follows(r, m, exts) ==
  /\ r.pc = "previous" => r.op.kind # "create"
  /\ r.pc \in {"previous", "known", "save", "pjsip", "rest"} => Mapped(m, exts)
  /\ r.pc \in {"known", "save"} =>
       r.prev = IF r.op.kind = "create" THEN {} ELSE {e \in exts : e.name = r.op.name}
  /\ r.pc \in {"load", "render", "stage", "files", "login", "act"} => Led(m, r.acts, exts)
  /\ r.pc \in {"restore", "again"} => ~r.ok
  /\ r.pc = "answer" /\ r.ok => Mapped(m, exts)

Handling(t) == th[t].pc # "idle" /\ Op(t).kind \in ExtensionKinds
Removing(t) == AtWork(t) /\ Op(t).kind = "remove"
Calm == Never({"overlap", "crash", "failure", "orphan"})

MapsOK ==
  Calm =>
    /\ \A t \in Threads : Handling(t) =>
         /\ Follows(th[t], maps, store)
         /\ \A u \in Threads \ {t} : th[u].pc = "idle"
    /\ \A t \in Threads : Removing(t) =>
         Mapped(maps, th[t].exts) /\ store \in {th[t].exts, Remaining(t)}
    /\ (\A t \in Threads : ~Handling(t) /\ ~Removing(t)) => Mapped(maps, store)
MInv == IInv /\ MapsOK

----------------------------------------------------------------------------
(* Maps and sets of extensions.                                            *)

\* A number that is registered.
LEMMA RegisterMaps ==
  ASSUME NEW m, NEW S, NEW x, Mapped(m, S), Distinct(S \cup {x})
  PROVE  Mapped(Written(m, RegisterMapping(x)), S \cup {x})
<1>1. Written(m, RegisterMapping(x)) = With(m, Line(x), x.name)
  BY DEF Written, RegisterMapping
<1>. DEFINE w == With(m, Line(x), x.name)
<1>2. DOMAIN w = DOMAIN m \cup {Line(x)} /\ \A l \in DOMAIN w : w[l] = IF l = Line(x) THEN x.name ELSE m[l]
  BY DEF With
<1>. HIDE DEF w
<1>3. \A e \in S : Line(e) = Line(x) => e.name = x.name
  BY DEF Distinct
<1>4. DOMAIN w = {Line(e) : e \in S \cup {x}}
  BY <1>2 DEF Mapped
<1>5. \A e \in S \cup {x} : w[Line(e)] = e.name
  BY <1>2, <1>3, <1>4 DEF Mapped
<1>. QED
  BY <1>1, <1>4, <1>5 DEF Mapped, w

\* A number that is taken away.
LEMMA UnregisterMaps ==
  ASSUME NEW m, NEW S, NEW e \in S, Mapped(m, S), Distinct(S)
  PROVE  Mapped(Written(m, UnregisterMapping(e)), S \ {e})
<1>1. Written(m, UnregisterMapping(e)) = Without(m, Line(e))
  BY DEF Written, UnregisterMapping
<1>. DEFINE w == Without(m, Line(e))
<1>2. DOMAIN w = DOMAIN m \ {Line(e)} /\ \A l \in DOMAIN w : w[l] = m[l]
  BY DEF Without
<1>. HIDE DEF w
<1>3. \A x \in S \ {e} : Line(x) # Line(e)
  BY DEF Distinct
<1>4. DOMAIN w = {Line(x) : x \in S \ {e}}
  BY <1>2, <1>3 DEF Mapped
<1>5. \A x \in S \ {e} : w[Line(x)] = x.name
  BY <1>2, <1>4 DEF Mapped
<1>. QED
  BY <1>1, <1>4, <1>5 DEF Mapped, w

\* An extension that keeps its number.
LEMMA ReplaceMaps ==
  ASSUME NEW m, NEW S, NEW e \in S, NEW x, Line(x) = Line(e), Mapped(m, S),
         Distinct((S \ {e}) \cup {x})
  PROVE  Mapped(Written(m, RegisterMapping(x)), (S \ {e}) \cup {x})
<1>1. Written(m, RegisterMapping(x)) = With(m, Line(x), x.name)
  BY DEF Written, RegisterMapping
<1>. DEFINE w == With(m, Line(x), x.name)
            R == (S \ {e}) \cup {x}
<1>2. DOMAIN w = DOMAIN m \cup {Line(x)} /\ \A l \in DOMAIN w : w[l] = IF l = Line(x) THEN x.name ELSE m[l]
  BY DEF With
<1>. HIDE DEF w
<1>3. \A y \in R : Line(y) = Line(x) => y.name = x.name
  BY DEF Distinct
<1>4. DOMAIN w = {Line(y) : y \in R}
  BY <1>2 DEF Mapped
<1>5. \A y \in R : w[Line(y)] = y.name
  BY <1>2, <1>3, <1>4 DEF Mapped
<1>. QED
  BY <1>1, <1>4, <1>5 DEF Mapped, w

\* The sequences of no and of one element.
LEMMA SmallSequences ==
  /\ SetToSeq({}) = <<>>
  /\ \A e : SetToSeq({e}) = <<e>>
<1>1. SetToSeq({}) = <<>>
  <2>1. IsFiniteSet({}) /\ Cardinality({}) = 0
    BY FS_EmptySet
  <2>2. SetToSeq({}) \in Seq({})
    BY <2>1, SequenceOf
  <2>. QED BY <2>2
<1>2. ASSUME NEW e PROVE SetToSeq({e}) = <<e>>
  <2>1. IsFiniteSet({e}) /\ Cardinality({e}) = 1
    BY FS_Singleton
  <2>2. <<e>> \in [1..1 -> {e}] /\ IsInjective(<<e>>)
    BY DEF IsInjective
  <2>3. SetToSeq({e}) \in [1..1 -> {e}]
    BY <2>1, <2>2 DEF SetToSeq
  <2>. QED BY <2>3
<1>. QED
  BY <1>1, <1>2

----------------------------------------------------------------------------
(* One thread steps.                                                       *)

\* A request is of an extension or of a tenant, and not of both.
LEMMA Kinds ==
  ASSUME IInv, NEW t \in Threads
  PROVE  /\ Whole(th[t]) /\ Placed(th[t])
         /\ ExtensionKinds \cap TenantKinds = {}
         /\ th[t].pc # "idle" => Op(t).kind \in ExtensionKinds \cup TenantKinds
  BY DEF IInv, TypeOK, Whole, Op, Request, ExtensionKinds, TenantKinds

\* A thread at work: a handler takes the maps where they should go, the wizard leaves them.
LEMMA Moves ==
  ASSUME MInv, NEW t \in Threads, NEW s, Set(t, s), th[t].pc # "idle",
         s.pc \notin {"idle", "lock"}, s.op = th[t].op, history \subseteq history',
         Handling(t) => (Follows(th[t], maps, store) => Follows(s, maps', store')),
         ~Handling(t) => /\ maps' = maps /\ s.exts = th[t].exts /\ th[t].pc # "lock"
                         /\ \/ store' = store
                            \/ Removing(t) /\ store' \in {th[t].exts, Remaining(t)}
  PROVE  MapsOK'
<1>1. th'[t] = s /\ \A u \in Threads \ {t} : th'[u] = th[u]
  BY Given DEF Set, MInv, IInv, TypeOK
<1>2. ASSUME Calm' PROVE Calm
  BY <1>2 DEF Calm, Never
<1>3. \A u \in Threads \ {t} : /\ Handling(u)' = Handling(u) /\ Removing(u)' = Removing(u)
                               /\ Remaining(u)' = Remaining(u)
  BY <1>1 DEF Handling, Removing, AtWork, Op, Remaining
<1>4. Handling(t)' = Handling(t)
  BY <1>1 DEF Handling, Op
<1>5. CASE Handling(t)
  <2>1. \A u \in Threads : Calm => ~Removing(u) /\ (u # t => ~Handling(u))
    BY <1>5, Kinds DEF MInv, MapsOK, Removing, Handling, AtWork, Op, ExtensionKinds, TenantKinds
  <2>2. ~Removing(t)'
    BY <1>1, <1>5 DEF Removing, Handling, AtWork, Op, ExtensionKinds, TenantKinds
  <2>3. SUFFICES ASSUME Calm' PROVE MapsOK'
    BY DEF MapsOK
  <2>4. Follows(th'[t], maps', store') /\ \A u \in Threads \ {t} : th'[u].pc = "idle"
    BY <1>1, <1>2, <1>5, <2>3 DEF MInv, MapsOK
  <2>. QED
    BY <1>2, <1>3, <1>4, <1>5, <2>1, <2>2, <2>3, <2>4 DEF MapsOK
<1>6. CASE ~Handling(t)
  <2>1. SUFFICES ASSUME Calm' PROVE MapsOK'
    BY DEF MapsOK
  <2>2. Calm
    BY <1>2, <2>1
  <2>3. \A u \in Threads : ~Handling(u)
    BY <1>6, <2>2 DEF MInv, MapsOK
  <2>4. /\ maps' = maps /\ s.exts = th[t].exts /\ th[t].pc # "lock"
        /\ store' = store \/ (Removing(t) /\ store' \in {th[t].exts, Remaining(t)})
    BY <1>6
  <2>5. Removing(t)' = Removing(t) /\ Remaining(t)' = Remaining(t) /\ th'[t].exts = th[t].exts
    BY <1>1, <2>4 DEF Removing, AtWork, Op, Remaining
  <2>6. \A u \in Threads \ {t} : Removing(u) => ~Removing(t)
    BY WizardAt DEF MInv, Removing, AtWork, Locked
  <2>7. \A u \in Threads : Removing(u)' =>
          Mapped(maps', th'[u].exts) /\ store' \in {th'[u].exts, Remaining(u)'}
    BY <1>1, <1>3, <2>2, <2>4, <2>5, <2>6 DEF MInv, MapsOK
  <2>8. (\A u \in Threads : ~Handling(u)' /\ ~Removing(u)') => Mapped(maps', store')
    BY <1>3, <2>2, <2>3, <2>4, <2>5 DEF MInv, MapsOK
  <2>. QED
    BY <1>3, <1>4, <1>6, <2>3, <2>7, <2>8 DEF MapsOK
<1>. QED
  BY <1>5, <1>6

\* The ways of a handler that neither change the maps nor what is to become of them.
Passage(r, s) ==
  \/ r.pc = "known" /\ s.pc = "save" /\ s.prev = r.prev
  \/ r.pc \in {"load", "render", "stage", "files"} /\ s.pc \in {"render", "stage", "files", "login"}
  \/ r.pc = "login" /\ s.pc = "act"
  \/ r.pc = "login" /\ s.pc = "pjsip" /\ r.acts = <<>>
  \/ r.pc = "pjsip" /\ s.pc = "rest"
  \/ r.pc = "rest" /\ s.pc = "answer"
  \/ s.pc \in {"restore", "again", "answer"} /\ ~s.ok

LEMMA PassageFollows ==
  ASSUME NEW r, NEW s, NEW m, NEW S, Follows(r, m, S), s.op = r.op, s.acts = r.acts, Passage(r, s)
  PROVE  Follows(s, m, S)
  BY DEF Follows, Passage, Led

\* Such a step of a handler, or any step of the wizard that leaves the store.
LEMMA Passes ==
  ASSUME MInv, NEW t \in Threads, NEW s, Set(t, s), th[t].pc \notin {"idle", "lock"},
         s.pc \notin {"idle", "lock"}, s.op = th[t].op, history \subseteq history',
         UNCHANGED <<maps, store>>,
         Op(t).kind \in ExtensionKinds => s.acts = th[t].acts /\ Passage(th[t], s),
         Op(t).kind \notin ExtensionKinds => s.exts = th[t].exts
  PROVE  MapsOK'
<1>1. Handling(t) => (Follows(th[t], maps, store) => Follows(s, maps', store'))
  BY PassageFollows DEF Handling
<1>2. ~Handling(t) => s.exts = th[t].exts
  BY DEF Handling
<1>. QED
  BY <1>1, <1>2, Moves

----------------------------------------------------------------------------
(* Each of the steps.                                                      *)

\* Nothing is mapped at first.
LEMMA InitMaps == Init => MInv
<1>. SUFFICES ASSUME Init PROVE MInv
  OBVIOUS
<1>1. \A t \in Threads : ~Handling(t) /\ ~Removing(t)
  BY DEF Init, Idle, Handling, Removing, AtWork
<1>2. Mapped(maps, store)
  BY DEF Init, Mapped
<1>. QED
  BY <1>1, <1>2, InitOK DEF MInv, MapsOK

\* A request arrives; one of an extension while another is in progress is an overlap.
LEMMA ReceiveMaps ==
  ASSUME MInv, NEW t \in Threads, Receive(t)
  PROVE  MapsOK'
<1>1. PICK op \in Requests :
        /\ At(t, "idle")
        /\ Set(t, [Idle EXCEPT !.op = op, !.pc =
                     CASE op.kind = "create" -> "known"
                       [] op.kind \in {"update", "delete"} -> "previous"
                       [] OTHER -> "lock"])
        /\ Note({"overlap" : u \in {u \in Busy : {op.kind, Op(u).kind} \cap ExtensionKinds # {}}})
        /\ UNCHANGED <<store, maps>>
  BY DEF Receive, data
<1>. DEFINE p == CASE op.kind = "create" -> "known"
                   [] op.kind \in {"update", "delete"} -> "previous"
                   [] OTHER -> "lock"
            s == [Idle EXCEPT !.op = op, !.pc = p]
<1>2. s.pc = p /\ s.op = op /\ s.prev = {}
  BY DEF Idle
<1>3. op \in Request
  BY PublicationAssumption
<1>4. /\ op.kind \in ExtensionKinds => p \in {"known", "previous"} /\ (p = "known" <=> op.kind = "create")
      /\ op.kind \notin ExtensionKinds => p = "lock"
  BY DEF ExtensionKinds
<1>5. Set(t, s)
  BY <1>1
<1>. HIDE DEF p, s
<1>6. th'[t] = s /\ \A u \in Threads \ {t} : th'[u] = th[u]
  BY <1>5, Given DEF Set, MInv, IInv, TypeOK
<1>7. SUFFICES ASSUME Calm' PROVE MapsOK'
  BY DEF MapsOK
<1>8. Calm /\ \A u \in Busy : op.kind \notin ExtensionKinds /\ Op(u).kind \notin ExtensionKinds
  BY <1>1, <1>7 DEF Calm, Never, Note
<1>9. \A u \in Threads \ {t} : /\ Handling(u)' = Handling(u) /\ Removing(u)' = Removing(u)
                               /\ Remaining(u)' = Remaining(u)
  BY <1>6 DEF Handling, Removing, AtWork, Op, Remaining
<1>10. \A u \in Threads : ~Handling(u)
  BY <1>8 DEF Busy, At, Handling
<1>11. ~Removing(t) /\ ~Removing(t)' /\ (Handling(t)' <=> op.kind \in ExtensionKinds)
  BY <1>1, <1>2, <1>4, <1>6 DEF Removing, AtWork, At, Handling, Op, ExtensionKinds, TenantKinds
<1>12. CASE op.kind \in ExtensionKinds
  <2>1. \A u \in Threads : th[u].pc = "idle" /\ ~Removing(u)
    BY <1>8, <1>12 DEF Busy, At, Removing, AtWork
  <2>2. Mapped(maps', store')
    BY <1>1, <1>8, <1>10, <2>1 DEF MInv, MapsOK
  <2>3. Follows(s, maps', store')
    BY <1>2, <1>4, <1>12, <2>2 DEF Follows
  <2>. QED
    BY <1>6, <1>9, <1>10, <1>11, <1>12, <2>1, <2>3 DEF MapsOK
<1>13. CASE op.kind \notin ExtensionKinds
  BY <1>1, <1>6, <1>8, <1>9, <1>10, <1>11, <1>13 DEF MInv, MapsOK
<1>. QED
  BY <1>12, <1>13

\* The look at the record before the change.
LEMMA ReadPreviousMaps ==
  ASSUME MInv, NEW t \in Threads, ReadPrevious(t)
  PROVE  MapsOK'
<1>. DEFINE p == IF Op(t).kind = "update" THEN "known" ELSE "save"
            prev == {e \in store : e.name = Op(t).name}
            s == [th[t] EXCEPT !.prev = prev, !.pc = p]
<1>1. Whole(th[t]) /\ th[t].pc = "previous" /\ Op(t).kind \in ExtensionKinds
  BY Kinds DEF MInv, ReadPrevious, At, Placed, ForExtensions, Op
<1>2. s.pc = p /\ s.op = th[t].op /\ s.prev = prev
  BY <1>1 DEF Whole, Twelve
<1>3. Set(t, s) /\ UNCHANGED <<store, maps, history>> /\ p \in {"known", "save"}
  BY DEF ReadPrevious, data
<1>. HIDE DEF p, s
<1>4. Follows(th[t], maps, store) => Follows(s, maps', store')
  BY <1>1, <1>2, <1>3 DEF Follows, Op
<1>. QED
  BY <1>1, <1>2, <1>3, <1>4, Moves DEF Handling

\* The reading of the known tenants.
LEMMA ReadKnownMaps ==
  ASSUME MInv, NEW t \in Threads, ReadKnown(t)
  PROVE  MapsOK'
<1>. DEFINE s == [To(t, "save") EXCEPT !.known = KnownTenants(registry)]
<1>1. Whole(th[t]) /\ th[t].pc = "known" /\ Op(t).kind \in ExtensionKinds
  BY Kinds DEF MInv, ReadKnown, At, Placed, ForExtensions, Op
<1>2. Keeps(th[t], s) /\ s.pc = "save" /\ s.ok = th[t].ok
  BY <1>1 DEF Whole, Twelve, Keeps, To
<1>3. Set(t, s) /\ UNCHANGED <<store, maps, history>>
  BY DEF ReadKnown, data
<1>. HIDE DEF s
<1>. QED
  BY <1>1, <1>2, <1>3, Passes DEF Passage, Keeps

\* The load of the store to publish.
LEMMA LoadStoreMaps ==
  ASSUME MInv, NEW t \in Threads, LoadStore(t)
  PROVE  MapsOK'
<1>. DEFINE s == [To(t, "render") EXCEPT !.exts = store]
<1>1. Whole(th[t]) /\ th[t].pc = "load" /\ Op(t).kind \in ExtensionKinds
  BY Kinds DEF MInv, LoadStore, At, Placed, ForExtensions, Op
<1>2. s.pc = "render" /\ s.op = th[t].op /\ s.acts = th[t].acts
  BY <1>1 DEF Whole, Twelve, To
<1>3. Set(t, s) /\ UNCHANGED <<store, maps, history>>
  BY DEF LoadStore, data
<1>. HIDE DEF s
<1>. QED
  BY <1>1, <1>2, <1>3, Passes DEF Passage

\* The rendering of the extensions, or its refusal.
LEMMA RenderMaps ==
  ASSUME MInv, NEW t \in Threads, Render(t)
  PROVE  MapsOK'
<1>. DEFINE known == KnownTenants(registry)
            s == [To(t, "stage") EXCEPT !.known = known]
            f == Failed(t, "answer")
<1>1. Whole(th[t]) /\ th[t].pc = "render" /\ Op(t).kind \in ExtensionKinds
  BY Kinds DEF MInv, Render, At, Placed, ForExtensions, Op
<1>2. Keeps(th[t], s) /\ s.pc = "stage" /\ s.ok = th[t].ok
  BY <1>1 DEF Whole, Twelve, Keeps, To
<1>3. Keeps(th[t], f) /\ f.pc = "answer" /\ f.ok = FALSE
  BY <1>1 DEF Whole, Twelve, Keeps, Failed
<1>4. Set(t, s) \/ Set(t, f)
  BY DEF Render
<1>5. UNCHANGED <<store, maps, history>>
  BY DEF Render, data
<1>. HIDE DEF s, f
<1>6. CASE Set(t, s)
  BY <1>1, <1>2, <1>5, <1>6, Passes DEF Passage, Keeps
<1>7. CASE Set(t, f)
  BY <1>1, <1>3, <1>5, <1>7, Passes DEF Passage, Keeps
<1>. QED
  BY <1>4, <1>6, <1>7

\* A sequence of two.
LEMMA PairOf ==
  ASSUME NEW y, NEW z
  PROVE  <<y>> \o <<z>> = <<y, z>>
<1>1. <<y>> \in Seq({y, z}) /\ <<z>> \in Seq({y, z}) /\ <<y, z>> \in Seq({y, z})
  OBVIOUS
<1>2. Len(<<y>>) = 1 /\ Len(<<z>>) = 1 /\ Len(<<y, z>>) = 2
  OBVIOUS
<1>3. <<y>>[1] = y /\ <<z>>[1] = z /\ <<y, z>>[1] = y /\ <<y, z>>[2] = z
  OBVIOUS
<1>. DEFINE u == <<y>>
            v == <<z>>
            w == <<y, z>>
<1>. HIDE DEF u, v, w
<1>4. u \o v \in Seq({y, z}) /\ Len(u \o v) = 2 /\ \A i \in 1..2 : (u \o v)[i] = IF i <= 1 THEN u[i] ELSE v[i - 1]
  BY <1>1, <1>2, ConcatProperties DEF u, v
<1>5. (u \o v)[1] = w[1] /\ (u \o v)[2] = w[2]
  BY <1>3, <1>4 DEF u, v, w
<1>6. \A i \in 1..Len(u \o v) : (u \o v)[i] = w[i]
  BY <1>4, <1>5
<1>7. w \in Seq({y, z}) /\ Len(u \o v) = Len(w)
  BY <1>1, <1>2, <1>4 DEF w
<1>8. u \o v = w
  BY <1>4, <1>6, <1>7, SeqEqual
<1>. QED
  BY <1>8 DEF u, v, w

\* The actions of a change that was admitted lead to the maps of the store that it makes.
LEMMA ActsLead ==
  ASSUME MInv, NEW t \in Threads, th[t].pc = "save", Op(t).kind \in ExtensionKinds, Admitted(t),
         Mapped(maps, store),
         th[t].prev = IF Op(t).kind = "create" THEN {} ELSE Mine(t),
         NEW after, Distinct(after),
         after = (store \ Mine(t)) \cup (IF Op(t).kind = "delete" THEN {} ELSE {Ext(Op(t))})
  PROVE  Led(maps, MappingActs(t), after)
<1>. DEFINE x == Ext(Op(t))
            S == {e \in th[t].prev : Op(t).kind = "delete" \/ Line(e) # Line(Op(t))}
            left == SetToSeq(S)
            old == [i \in DOMAIN left |-> UnregisterMapping(left[i])]
            new == IF Op(t).kind = "delete" THEN <<>> ELSE <<RegisterMapping(x)>>
<1>1. MappingActs(t) = old \o new
  BY DEF MappingActs
<1>2. Distinct(store) /\ Op(t) \in Request
  BY Kinds DEF MInv, IInv, TypeOK, Extensible, Whole, Op
<1>3. MappingActs(t) \in Seq(Mapping)
  BY <1>2, Kinds, MappingsOnly DEF MInv, Placed, Extensible
<1>4. Line(Op(t)) = Line(x)
  BY DEF Line, Ext
<1>5. CASE Op(t).kind = "create"
  <2>1. S = {} /\ Mine(t) = {}
    BY <1>5 DEF Admitted, ValidExtension, Mine, Ext
  <2>2. MappingActs(t) = <<RegisterMapping(x)>>
    <3>1. old = <<>>
      BY <2>1, SmallSequences
    <3>2. new = <<RegisterMapping(x)>>
      BY <1>5
    <3>. HIDE DEF old, new
    <3>. QED BY <1>1, <3>1, <3>2
  <2>3. after = store \cup {x}
    BY <1>5, <2>1
  <2>. HIDE DEF x
  <2>4. Mapped(Written(maps, RegisterMapping(x)), after)
    BY <2>3, RegisterMaps
  <2>. QED BY <1>3, <2>2, <2>4 DEF Led
<1>6. CASE Op(t).kind # "create"
  <2>1. PICK e \in store : Mine(t) = {e} /\ th[t].prev = {e}
    <3>1. Mine(t) # {}
      BY <1>6 DEF Admitted
    <3>2. PICK e \in store : e \in Mine(t)
      BY <3>1 DEF Mine
    <3>3. Mine(t) = {e}
      BY <1>2, <3>2 DEF Mine, Distinct
    <3>. QED BY <1>6, <3>3
  <2>2. CASE Op(t).kind = "delete"
    <3>1. MappingActs(t) = <<UnregisterMapping(e)>>
      <4>1. S = {e}
        BY <2>1, <2>2
      <4>2. old = <<UnregisterMapping(e)>>
        <5>1. left = <<e>>
          BY <4>1, SmallSequences
        <5>. HIDE DEF left
        <5>. QED BY <5>1
      <4>3. new = <<>>
        BY <2>2
      <4>. HIDE DEF old, new
      <4>. QED BY <1>1, <4>2, <4>3
    <3>2. after = store \ {e}
      BY <2>1, <2>2
    <3>3. Mapped(Written(maps, UnregisterMapping(e)), after)
      BY <1>2, <3>2, UnregisterMaps
    <3>. QED BY <1>3, <3>1, <3>3 DEF Led
  <2>3. CASE Op(t).kind # "delete" /\ Line(e) = Line(x)
    <3>1. MappingActs(t) = <<RegisterMapping(x)>>
      <4>1. S = {}
        BY <1>4, <2>1, <2>3
      <4>2. old = <<>>
        <5>1. left = <<>>
          BY <4>1, SmallSequences
        <5>. HIDE DEF left
        <5>. QED BY <5>1
      <4>3. new = <<RegisterMapping(x)>>
        BY <2>3
      <4>. HIDE DEF old, new
      <4>. QED BY <1>1, <4>2, <4>3
    <3>2. after = (store \ {e}) \cup {x}
      BY <2>1, <2>3
    <3>. HIDE DEF x
    <3>3. Mapped(Written(maps, RegisterMapping(x)), after)
      BY <2>3, <3>2, ReplaceMaps
    <3>. QED BY <1>3, <3>1, <3>3 DEF Led
  <2>4. CASE Op(t).kind # "delete" /\ Line(e) # Line(x)
    <3>1. MappingActs(t) = <<UnregisterMapping(e), RegisterMapping(x)>>
      <4>1. S = {e}
        BY <1>4, <2>1, <2>4
      <4>2. old = <<UnregisterMapping(e)>>
        <5>1. left = <<e>>
          BY <4>1, SmallSequences
        <5>. HIDE DEF left
        <5>. QED BY <5>1
      <4>3. new = <<RegisterMapping(x)>>
        BY <2>4
      <4>. HIDE DEF old, new
      <4>. QED BY <1>1, <4>2, <4>3, PairOf
    <3>2. after = (store \ {e}) \cup {x}
      BY <2>1, <2>4
    <3>. HIDE DEF x
    <3>3. Mapped(Written(maps, UnregisterMapping(e)), store \ {e})
      BY <1>2, UnregisterMaps
    <3>4. Mapped(Written(Written(maps, UnregisterMapping(e)), RegisterMapping(x)), after)
      BY <3>2, <3>3, RegisterMaps
    <3>. QED BY <1>3, <3>1, <3>4 DEF Led
  <2>. QED BY <2>2, <2>3, <2>4
<1>. QED
  BY <1>5, <1>6

\* A save that is admitted has its actions ahead; another ends the request.
LEMMA SaveExtensionMaps ==
  ASSUME MInv, NEW t \in Threads, SaveExtension(t)
  PROVE  MapsOK'
<1>. DEFINE s == [To(t, "load") EXCEPT !.acts = MappingActs(t)]
<1>1. Whole(th[t]) /\ th[t].pc = "save" /\ Op(t).kind \in ExtensionKinds
  BY Kinds DEF MInv, SaveExtension, At, Placed, ForExtensions, Op
<1>2. s.pc = "load" /\ s.op = th[t].op /\ s.acts = MappingActs(t)
  BY <1>1 DEF Whole, Twelve, To
<1>3. UNCHANGED <<maps, history>>
  BY DEF SaveExtension
<1>4. CASE Admitted(t)
  <2>1. Set(t, s) /\ store' = (store \ Mine(t)) \cup
                               (IF Op(t).kind = "delete" THEN {} ELSE {Ext(Op(t))})
    BY <1>4 DEF SaveExtension
  <2>2. Distinct(store')
    BY SaveExtensionOK DEF MInv, IInv, TypeOK, Extensible
  <2>. HIDE DEF s
  <2>3. Follows(th[t], maps, store) => Follows(s, maps', store')
    <3>1. SUFFICES ASSUME Follows(th[t], maps, store) PROVE Follows(s, maps', store')
      OBVIOUS
    <3>2. Mapped(maps, store) /\ th[t].prev = IF Op(t).kind = "create" THEN {} ELSE Mine(t)
      BY <1>1, <3>1 DEF Follows, Mine, Op
    <3>3. Led(maps, MappingActs(t), store')
      BY <1>1, <1>4, <2>1, <2>2, <3>2, ActsLead
    <3>. QED BY <1>2, <1>3, <3>3 DEF Follows
  <2>. QED
    BY <1>1, <1>2, <1>3, <2>1, <2>3, Moves DEF Handling
<1>5. CASE ~Admitted(t)
  <2>1. Set(t, Idle) /\ store' = store
    BY <1>5 DEF SaveExtension
  <2>2. th'[t].pc = "idle" /\ \A u \in Threads \ {t} : th'[u] = th[u]
    BY <2>1, Given DEF Set, MInv, IInv, TypeOK, Idle
  <2>3. SUFFICES ASSUME Calm' PROVE MapsOK'
    BY DEF MapsOK
  <2>4. Calm /\ Handling(t)
    BY <1>1, <1>3, <2>3 DEF Calm, Never, Handling
  <2>5. Mapped(maps, store) /\ \A u \in Threads \ {t} : th[u].pc = "idle"
    BY <1>1, <2>4 DEF MInv, MapsOK, Follows
  <2>. QED
    BY <1>3, <2>1, <2>2, <2>5 DEF MapsOK, Handling, Removing, AtWork
<1>. QED
  BY <1>4, <1>5

\* The files are prepared, or the request fails before any is written.
LEMMA StageMaps ==
  ASSUME MInv, NEW t \in Threads, Stage(t)
  PROVE  MapsOK'
<1>1. Whole(th[t]) /\ th[t].pc = "stage"
  BY Kinds DEF MInv, Stage, At
<1>2. PICK todo : Set(t, [To(t, "files") EXCEPT !.todo = todo]) \/ Set(t, Failed(t, "restore"))
  BY DEF Stage
<1>. DEFINE s == [To(t, "files") EXCEPT !.todo = todo]
            f == Failed(t, "restore")
<1>3. s.pc = "files" /\ s.op = th[t].op /\ s.exts = th[t].exts /\ s.acts = th[t].acts
  BY <1>1 DEF Whole, Twelve, To
<1>4. f.pc = "restore" /\ f.op = th[t].op /\ f.exts = th[t].exts /\ f.acts = th[t].acts /\ ~f.ok
  BY <1>1 DEF Whole, Twelve, Failed
<1>5. UNCHANGED <<store, maps, history>>
  BY DEF Stage, data
<1>6. Set(t, s) \/ Set(t, f)
  BY <1>2
<1>. HIDE DEF s, f
<1>7. CASE Set(t, s)
  BY <1>1, <1>3, <1>5, <1>7, Passes DEF Passage
<1>8. CASE Set(t, f)
  BY <1>1, <1>4, <1>5, <1>8, Passes DEF Passage
<1>. QED
  BY <1>6, <1>7, <1>8

\* A file is written, or fails.
LEMMA WriteFileMaps ==
  ASSUME MInv, NEW t \in Threads, WriteFile(t)
  PROVE  MapsOK'
<1>. DEFINE c == Head(th[t].todo)
            p == CASE Len(th[t].todo) > 1 -> "files"
                   [] Len(th[t].todo) = 1 /\ Op(t).kind = "remove" /\ c.file # Pjsip -> "stage2"
                   [] OTHER -> "login"
            s == [To(t, p) EXCEPT !.todo = Tail(@), !.undo = <<c>> \o @]
            f == Failed(t, "restore")
<1>1. Whole(th[t]) /\ th[t].pc = "files"
  BY Kinds DEF MInv, WriteFile, At
<1>2. s.pc = p /\ s.op = th[t].op /\ s.exts = th[t].exts /\ s.acts = th[t].acts
  BY <1>1 DEF Whole, Twelve, To
<1>3. f.pc = "restore" /\ f.op = th[t].op /\ f.exts = th[t].exts /\ f.acts = th[t].acts /\ ~f.ok
  BY <1>1 DEF Whole, Twelve, Failed
<1>4. p \in {"files", "stage2", "login"} /\ (p = "stage2" => Op(t).kind = "remove")
  OBVIOUS
<1>5. UNCHANGED <<store, maps, history>>
  BY DEF WriteFile, data
<1>6. Set(t, s) \/ Set(t, f)
  BY DEF WriteFile
<1>. HIDE DEF c, p, s, f
<1>7. CASE Set(t, s)
  BY <1>1, <1>2, <1>4, <1>5, <1>7, Passes DEF Passage, ExtensionKinds
<1>8. CASE Set(t, f)
  BY <1>1, <1>3, <1>5, <1>8, Passes DEF Passage
<1>. QED
  BY <1>6, <1>7, <1>8

\* The connection to Asterisk; without an action ahead the reload is next.
LEMMA LoginMaps ==
  ASSUME MInv, NEW t \in Threads, Login(t)
  PROVE  MapsOK'
<1>. DEFINE p == IF th[t].acts = <<>> THEN "pjsip" ELSE "act"
            s == [To(t, p) EXCEPT !.logged = TRUE]
            f == Failed(t, "restore")
<1>1. Whole(th[t]) /\ th[t].pc = "login"
  BY Kinds DEF MInv, Login, At
<1>2. s.pc = p /\ s.op = th[t].op /\ s.exts = th[t].exts /\ s.acts = th[t].acts
  BY <1>1 DEF Whole, Twelve, To
<1>3. f.pc = "restore" /\ f.op = th[t].op /\ f.exts = th[t].exts /\ f.acts = th[t].acts /\ ~f.ok
  BY <1>1 DEF Whole, Twelve, Failed
<1>4. p \in {"pjsip", "act"} /\ (p = "pjsip" => th[t].acts = <<>>)
  OBVIOUS
<1>5. UNCHANGED <<store, maps, history>>
  BY DEF Login, data
<1>6. Set(t, s) \/ Set(t, f)
  BY DEF Login
<1>. HIDE DEF p, s, f
<1>7. CASE Set(t, s)
  BY <1>1, <1>2, <1>4, <1>5, <1>7, Passes DEF Passage
<1>8. CASE Set(t, f)
  BY <1>1, <1>3, <1>5, <1>8, Passes DEF Passage
<1>. QED
  BY <1>6, <1>7, <1>8

\* An action of AstDB: of a handler the next of those that lead to the maps of the store.
LEMMA ActMaps ==
  ASSUME MInv, NEW t \in Threads, Act(t)
  PROVE  MapsOK'
<1>. DEFINE a == Head(th[t].acts)
            left == Tail(th[t].acts)
            p == IF Len(th[t].acts) = 1 THEN "pjsip" ELSE "act"
            s == [To(t, p) EXCEPT !.acts = Tail(@)]
            f == Failed(t, "restore")
<1>1. Whole(th[t]) /\ Placed(th[t]) /\ th[t].pc = "act"
  BY Kinds DEF MInv, Act, At
<1>2. s.pc = p /\ s.op = th[t].op /\ s.exts = th[t].exts /\ s.acts = left
  BY <1>1 DEF Whole, Twelve, To
<1>3. f.pc = "restore" /\ f.op = th[t].op /\ f.exts = th[t].exts /\ f.acts = th[t].acts /\ ~f.ok
  BY <1>1 DEF Whole, Twelve, Failed
<1>4. /\ UNCHANGED <<store, history>>
      /\ \/ Apply(a) /\ Set(t, s)
         \/ (UNCHANGED <<dids, maps>> \/ Apply(a)) /\ Set(t, f)
  BY DEF Act
<1>5. CASE Op(t).kind \in ExtensionKinds
  <2>1. th[t].acts \in Seq(Mapping) /\ th[t].acts # <<>>
    BY <1>1, <1>5 DEF Placed, Op
  <2>2. a \in Mapping /\ a = th[t].acts[1] /\ left \in Seq(Mapping)
        /\ Len(left) = Len(th[t].acts) - 1 /\ Len(th[t].acts) \in Nat
        /\ (Len(th[t].acts) = 2 => left[1] = th[t].acts[2])
    BY <2>1, HeadTailProperties
  <2>3. Apply(a) => maps' = Written(maps, a)
    BY <2>2 DEF Apply, Mapping
  <2>4. p \in {"pjsip", "act"} /\ (p = "pjsip" <=> Len(th[t].acts) = 1) /\ Len(th[t].acts) # 0
    BY <2>1
  <2>. HIDE DEF a, left, p, s, f
  <2>5. CASE Apply(a) /\ Set(t, s)
    <3>1. Follows(th[t], maps, store) => Follows(s, maps', store')
      <4>1. SUFFICES ASSUME Follows(th[t], maps, store) PROVE Follows(s, maps', store')
        OBVIOUS
      <4>2. Led(maps, th[t].acts, store)
        BY <1>1, <4>1 DEF Follows
      <4>3. Led(maps', left, store)
        <5>1. CASE Len(th[t].acts) = 1
          BY <2>2, <2>3, <2>5, <4>2, <5>1 DEF Led
        <5>2. CASE Len(th[t].acts) = 2
          BY <2>2, <2>3, <2>5, <4>2, <5>2 DEF Led
        <5>3. Len(th[t].acts) <= 2
          BY <4>2 DEF Led
        <5>4. Len(th[t].acts) = 1 \/ Len(th[t].acts) = 2
          <6>1. \A n \in Nat : n <= 2 /\ n # 0 => n = 1 \/ n = 2
            OBVIOUS
          <6>. QED BY <2>2, <2>4, <5>3, <6>1
        <5>. QED BY <5>1, <5>2, <5>4
      <4>4. p = "pjsip" => Mapped(maps', store)
        BY <2>2, <2>4, <4>3 DEF Led
      <4>. QED BY <1>2, <1>4, <2>4, <4>3, <4>4 DEF Follows
    <3>. QED
      BY <1>1, <1>2, <1>4, <1>5, <2>4, <2>5, <3>1, Moves DEF Handling
  <2>6. CASE Set(t, f)
    <3>1. Follows(th[t], maps, store) => Follows(f, maps', store')
      BY <1>3 DEF Follows
    <3>. QED
      BY <1>1, <1>3, <1>4, <1>5, <2>6, <3>1, Moves DEF Handling
  <2>. QED
    BY <1>4, <2>5, <2>6
<1>6. CASE Op(t).kind \notin ExtensionKinds
  <2>1. Routing(t) /\ Op(t).kind \in TenantKinds
    BY <1>1, <1>6, Kinds, WizardAt DEF MInv
  <2>2. a.family = "did"
    BY <1>1, <2>1 DEF Routing, RegisterDid, UnregisterDid
  <2>3. maps' = maps /\ p \in {"pjsip", "act"}
    BY <1>4, <2>2 DEF Apply
  <2>. HIDE DEF a, left, p, s, f
  <2>4. CASE Set(t, s)
    BY <1>1, <1>2, <1>4, <1>6, <2>3, <2>4, Passes
  <2>5. CASE Set(t, f)
    BY <1>1, <1>3, <1>4, <1>6, <2>3, <2>5, Passes
  <2>. QED
    BY <1>4, <2>4, <2>5
<1>. QED
  BY <1>5, <1>6

\* The first reload.
LEMMA ReloadPjsipMaps ==
  ASSUME MInv, NEW t \in Threads, ReloadPjsip(t)
  PROVE  MapsOK'
<1>. DEFINE s == To(t, "rest")
            f == Failed(t, "restore")
<1>1. Whole(th[t]) /\ th[t].pc = "pjsip"
  BY Kinds DEF MInv, ReloadPjsip, At
<1>2. s.pc = "rest" /\ s.op = th[t].op /\ s.exts = th[t].exts /\ s.acts = th[t].acts
  BY <1>1 DEF Whole, Twelve, To
<1>3. f.pc = "restore" /\ f.op = th[t].op /\ f.exts = th[t].exts /\ f.acts = th[t].acts /\ ~f.ok
  BY <1>1 DEF Whole, Twelve, Failed
<1>4. UNCHANGED <<store, maps, history>> /\ (Set(t, s) \/ Set(t, f))
  BY DEF ReloadPjsip
<1>. HIDE DEF s, f
<1>5. CASE Set(t, s)
  BY <1>1, <1>2, <1>4, <1>5, Passes DEF Passage
<1>6. CASE Set(t, f)
  BY <1>1, <1>3, <1>4, <1>6, Passes DEF Passage
<1>. QED
  BY <1>4, <1>5, <1>6

\* The other reloads.
LEMMA ReloadRestMaps ==
  ASSUME MInv, NEW t \in Threads, ReloadRest(t)
  PROVE  MapsOK'
<1>. DEFINE p == AfterReload(t)
            s == To(t, p)
            f == Failed(t, "restore")
<1>1. Whole(th[t]) /\ th[t].pc = "rest"
  BY Kinds DEF MInv, ReloadRest, At
<1>2. s.pc = p /\ s.op = th[t].op /\ s.exts = th[t].exts /\ s.acts = th[t].acts
  BY <1>1 DEF Whole, Twelve, To
<1>3. f.pc = "restore" /\ f.op = th[t].op /\ f.exts = th[t].exts /\ f.acts = th[t].acts /\ ~f.ok
  BY <1>1 DEF Whole, Twelve, Failed
<1>4. UNCHANGED <<store, maps, history>> /\ (Set(t, s) \/ Set(t, f))
  BY DEF ReloadRest
<1>5. p \in {"answer", "store", "registry"} /\ (Op(t).kind \in ExtensionKinds => p = "answer")
  BY DEF AfterReload, ExtensionKinds
<1>. HIDE DEF p, s, f
<1>6. CASE Set(t, s)
  BY <1>1, <1>2, <1>4, <1>5, <1>6, Passes DEF Passage
<1>7. CASE Set(t, f)
  BY <1>1, <1>3, <1>4, <1>7, Passes DEF Passage
<1>. QED
  BY <1>4, <1>6, <1>7

\* One file is put back, or not.
LEMMA RestoreFileMaps ==
  ASSUME MInv, NEW t \in Threads, RestoreFile(t)
  PROVE  MapsOK'
<1>. DEFINE told == th[t].told \/ (Op(t).kind = "remove" /\ Head(th[t].undo).file # Pjsip)
            s == [th[t] EXCEPT !.undo = Tail(@)]
            f == [th[t] EXCEPT !.undo = IF Op(t).kind = "provision" THEN <<>> ELSE Tail(@),
                               !.told = told]
<1>1. Whole(th[t]) /\ th[t].pc = "restore"
  BY Kinds DEF MInv, RestoreFile, At
<1>2. /\ s.pc = "restore" /\ s.op = th[t].op /\ s.exts = th[t].exts /\ s.acts = th[t].acts
      /\ s.ok = th[t].ok
  BY <1>1 DEF Whole, Twelve
<1>3. /\ f.pc = "restore" /\ f.op = th[t].op /\ f.exts = th[t].exts /\ f.acts = th[t].acts
      /\ f.ok = th[t].ok
  BY <1>1 DEF Whole, Twelve
<1>4. UNCHANGED <<store, maps>> /\ history \subseteq history' /\ (Set(t, s) \/ Set(t, f))
  BY DEF RestoreFile, Note
<1>. HIDE DEF told, s, f
<1>5. ASSUME NEW r, Set(t, r), r.pc = "restore", r.op = th[t].op, r.exts = th[t].exts,
             r.acts = th[t].acts, r.ok = th[t].ok
      PROVE  MapsOK'
  <2>1. Follows(th[t], maps, store) => Follows(r, maps', store')
    BY <1>1, <1>5 DEF Follows
  <2>. QED
    BY <1>1, <1>4, <1>5, <2>1, Moves
<1>. QED
  BY <1>2, <1>3, <1>4, <1>5

\* All files are put back.
LEMMA RestoredMaps ==
  ASSUME MInv, NEW t \in Threads, Restored(t)
  PROVE  MapsOK'
<1>. DEFINE p == CASE Op(t).kind \notin ExtensionKinds -> "unregistry"
                   [] Op(t).kind \in ExtensionKinds /\ th[t].logged -> "again"
                   [] OTHER -> "answer"
            s == To(t, p)
<1>1. Whole(th[t]) /\ th[t].pc = "restore"
  BY Kinds DEF MInv, Restored, At
<1>2. /\ s.pc = p /\ s.op = th[t].op /\ s.exts = th[t].exts /\ s.acts = th[t].acts
      /\ s.ok = th[t].ok
  BY <1>1 DEF Whole, Twelve, To
<1>3. /\ p \in {"unregistry", "again", "answer"}
      /\ Op(t).kind \in ExtensionKinds => p \in {"again", "answer"}
  OBVIOUS
<1>4. UNCHANGED <<store, maps, history>> /\ Set(t, s)
  BY DEF Restored, data
<1>. HIDE DEF p, s
<1>5. Op(t).kind \in ExtensionKinds =>
        (Follows(th[t], maps, store) => Follows(s, maps', store'))
  BY <1>1, <1>2, <1>3 DEF Follows
<1>. QED
  BY <1>1, <1>2, <1>3, <1>4, <1>5, Moves DEF Handling

\* The reload that compensates.
LEMMA ReloadAgainMaps ==
  ASSUME MInv, NEW t \in Threads, ReloadAgain(t)
  PROVE  MapsOK'
<1>. DEFINE s == To(t, "answer")
<1>1. Whole(th[t]) /\ th[t].pc = "again"
  BY Kinds DEF MInv, ReloadAgain, At
<1>2. s.pc = "answer" /\ s.op = th[t].op /\ s.exts = th[t].exts /\ s.ok = th[t].ok
  BY <1>1 DEF Whole, Twelve, To
<1>3. UNCHANGED <<store, maps, history>> /\ Set(t, s)
  BY DEF ReloadAgain
<1>. HIDE DEF s
<1>4. Follows(th[t], maps, store) => Follows(s, maps', store')
  BY <1>1, <1>2 DEF Follows
<1>. QED
  BY <1>1, <1>2, <1>3, <1>4, Moves

----------------------------------------------------------------------------
(* The steps of the wizard alone.                                          *)

\* Steps that leave the maps and the store alone.
LEMMA WizardMaps ==
  ASSUME MInv, NEW t \in Threads,
         StagePjsip(t) \/ SaveRegistry(t) \/ Tidy(t) \/ RestoreRegistry(t) \/ LoginAgain(t)
         \/ UndoDid(t) \/ UndoReload(t)
  PROVE  MapsOK'
<1>1. /\ Whole(th[t]) /\ th[t].pc \notin {"idle", "lock"} /\ Op(t).kind \in TenantKinds
      /\ Op(t).kind \notin ExtensionKinds
  BY Kinds
     DEF MInv, Placed, ForTenants, Op, ExtensionKinds, TenantKinds, At,
         StagePjsip, SaveRegistry, Tidy, RestoreRegistry, LoginAgain, UndoDid, UndoReload
<1>2. UNCHANGED <<maps, store>> /\ history \subseteq history'
  BY DEF data, Note, Apply, UndoAct, RegisterDid, UnregisterDid,
         StagePjsip, SaveRegistry, Tidy, RestoreRegistry, LoginAgain, UndoDid, UndoReload
<1>3. ASSUME NEW s, NEW p, s = To(t, p) \/ s = Failed(t, p), p \notin {"idle", "lock"}
      PROVE  s.op = th[t].op /\ s.exts = th[t].exts /\ s.pc \notin {"idle", "lock"}
  BY <1>1, <1>3 DEF Whole, Twelve, To, Failed
<1>4. ASSUME NEW s, NEW p, NEW y, p \notin {"idle", "lock"},
             \/ s = [To(t, p) EXCEPT !.saving = y] \/ s = [To(t, p) EXCEPT !.todo = y]
             \/ s = [To(t, p) EXCEPT !.told = TRUE] \/ s = [Failed(t, p) EXCEPT !.saving = y]
      PROVE  s.op = th[t].op /\ s.exts = th[t].exts /\ s.pc \notin {"idle", "lock"}
  BY <1>1, <1>4 DEF Whole, Twelve, To, Failed
<1>5. ASSUME NEW s, s = Tell(t)
      PROVE  s.op = th[t].op /\ s.exts = th[t].exts /\ s.pc \notin {"idle", "lock"}
  BY <1>1, <1>5 DEF Whole, Twelve, To, Tell
<1>6. ASSUME NEW s, Set(t, s), s.op = th[t].op, s.exts = th[t].exts, s.pc \notin {"idle", "lock"}
      PROVE  MapsOK'
  BY <1>1, <1>2, <1>6, Passes
<1>7. CASE StagePjsip(t)
  <2>. DEFINE y == <<Change(Pjsip, RenderPjsip(Remaining(t)))>>
              s == [To(t, "files") EXCEPT !.todo = y]
  <2>1. Set(t, s)
    BY <1>7 DEF StagePjsip
  <2>. HIDE DEF y
  <2>2. s.op = th[t].op /\ s.exts = th[t].exts /\ s.pc \notin {"idle", "lock"}
    BY <1>1 DEF Whole, Twelve, To
  <2>. HIDE DEF s
  <2>. QED
    BY <1>6, <2>1, <2>2
<1>8. CASE SaveRegistry(t)
  <2>. DEFINE p == IF Op(t).kind = "provision" THEN "tidy" ELSE "answer"
              y == th[t].saving \cup {"registry"}
              s == [To(t, p) EXCEPT !.saving = y]
              f == [Failed(t, "restore") EXCEPT !.saving = y]
  <2>1. To(t, p).saving = th[t].saving /\ Failed(t, "restore").saving = th[t].saving
    BY <1>1 DEF Whole, Twelve, To, Failed
  <2>2. Set(t, s) \/ Set(t, f)
    BY <1>8, <2>1 DEF SaveRegistry
  <2>3. p \notin {"idle", "lock"}
    OBVIOUS
  <2>. HIDE DEF p, y
  <2>. QED
    BY <1>4, <1>6, <2>2, <2>3
<1>9. CASE Tidy(t)
  BY <1>3, <1>6, <1>9 DEF Tidy
<1>10. CASE RestoreRegistry(t)
  <2>. DEFINE s == To(t, "unstore")
              f == [To(t, "unstore") EXCEPT !.told = TRUE]
  <2>1. Set(t, s) \/ Set(t, f)
    BY <1>10 DEF RestoreRegistry
  <2>2. CASE Set(t, s)
    BY <1>3, <1>6, <2>2
  <2>3. CASE Set(t, f)
    <3>1. f.op = th[t].op /\ f.exts = th[t].exts /\ f.pc \notin {"idle", "lock"}
      BY <1>1 DEF Whole, Twelve, To
    <3>. HIDE DEF f
    <3>. QED
      BY <1>6, <2>3, <3>1
  <2>. QED
    BY <2>1, <2>2, <2>3
<1>11. CASE LoginAgain(t)
  BY <1>3, <1>5, <1>6, <1>11 DEF LoginAgain
<1>12. CASE UndoDid(t)
  BY <1>3, <1>5, <1>6, <1>12 DEF UndoDid
<1>13. CASE UndoReload(t)
  BY <1>3, <1>5, <1>6, <1>13 DEF UndoReload
<1>. QED
  BY <1>7, <1>8, <1>9, <1>10, <1>11, <1>12, <1>13

\* A removal saves what remains of the extensions, or puts back what it found.
LEMMA StoreMaps ==
  ASSUME MInv, NEW t \in Threads, SaveStore(t) \/ RestoreStore(t)
  PROVE  MapsOK'
<1>1. /\ Whole(th[t]) /\ th[t].pc \in {"store", "unstore"} /\ Op(t).kind \in TenantKinds
      /\ Op(t).kind \notin ExtensionKinds
  BY Kinds
     DEF MInv, Placed, ForTenants, Op, ExtensionKinds, TenantKinds, At, SaveStore, RestoreStore
<1>2. AtWork(t) /\ Outcome(t) /\ (th[t].pc = "store" => Op(t).kind = "remove")
  BY <1>1, Kinds, WizardAt DEF MInv, Placed, Op
<1>3. UNCHANGED <<maps, history>>
  BY DEF SaveStore, RestoreStore
<1>4. store' = store \/ (Removing(t) /\ store' \in {th[t].exts, Remaining(t)})
  <2>1. CASE SaveStore(t)
    BY <1>1, <1>2, <2>1 DEF SaveStore, Removing, At
  <2>2. CASE RestoreStore(t)
    BY <1>1, <1>2, <2>2 DEF RestoreStore, Removing, Outcome
  <2>. QED
    BY <2>1, <2>2
<1>5. ASSUME NEW s, Set(t, s), s.op = th[t].op, s.exts = th[t].exts, s.pc \notin {"idle", "lock"}
      PROVE  MapsOK'
  BY <1>1, <1>3, <1>4, <1>5, Moves DEF Handling
<1>6. ASSUME NEW s, NEW p, p \notin {"idle", "lock"},
             \/ s = [To(t, p) EXCEPT !.saving = {"store"}] \/ s = To(t, p)
             \/ s = [To(t, p) EXCEPT !.told = TRUE] \/ s = [Failed(t, p) EXCEPT !.saving = {"store"}]
      PROVE  s.op = th[t].op /\ s.exts = th[t].exts /\ s.pc \notin {"idle", "lock"}
  BY <1>1, <1>6 DEF Whole, Twelve, To, Failed
<1>7. CASE SaveStore(t)
  <2>. DEFINE s == [To(t, "registry") EXCEPT !.saving = {"store"}]
              f == [Failed(t, "restore") EXCEPT !.saving = {"store"}]
  <2>1. Set(t, s) \/ Set(t, f)
    BY <1>7 DEF SaveStore
  <2>. QED
    BY <1>5, <1>6, <2>1
<1>8. CASE RestoreStore(t)
  <2>. DEFINE p == IF th[t].logged THEN "relogin" ELSE "answer"
              s == To(t, p)
              f == [To(t, p) EXCEPT !.told = TRUE]
  <2>1. Set(t, s) \/ Set(t, f)
    BY <1>8 DEF RestoreStore
  <2>2. p \notin {"idle", "lock"}
    OBVIOUS
  <2>. HIDE DEF p
  <2>. QED
    BY <1>5, <1>6, <2>1, <2>2
<1>. QED
  BY <1>7, <1>8

\* The wizard gets its lock, and for a removal that of the store; a request that is not valid
\* ends.
LEMMA LockMaps ==
  ASSUME MInv, NEW t \in Threads, Lock(t)
  PROVE  MapsOK'
<1>1. /\ Whole(th[t]) /\ th[t].pc = "lock" /\ Op(t).kind \in TenantKinds
      /\ Op(t).kind \notin ExtensionKinds /\ tenantLock = None
  BY Kinds DEF MInv, Placed, ForTenants, Op, ExtensionKinds, TenantKinds, At, Lock
<1>2. UNCHANGED <<maps, store, history>>
  BY DEF Lock, data
<1>3. \A u \in Threads : ~Removing(u)
  BY <1>1, WizardAt, PublicationAssumption DEF MInv, Removing, AtWork, Locked
<1>4. PICK s : Set(t, s)
  BY DEF Lock
<1>5. th'[t] = s /\ \A u \in Threads \ {t} : th'[u] = th[u]
  BY <1>4, Given DEF Set, MInv, IInv, TypeOK
<1>6. /\ s.pc = "idle" \/ (s.op.kind = Op(t).kind /\ (Op(t).kind = "remove" => s.exts = store))
  <2>1. CASE Op(t).kind = "provision"
    <3>. DEFINE y == <<RegisterDid(Rec(Op(t)))>>
                r == [To(t, "stage") EXCEPT !.acts = y]
    <3>1. Set(t, r) \/ Set(t, Idle)
      BY <2>1 DEF Lock
    <3>2. th'[t] = r \/ th'[t] = Idle
      BY <3>1, Given DEF MInv
    <3>. HIDE DEF y
    <3>3. r.op = th[t].op
      BY <1>1 DEF Whole, Twelve, To
    <3>4. Idle.pc = "idle"
      BY DEF Idle
    <3>. HIDE DEF r
    <3>. QED
      BY <1>5, <2>1, <3>2, <3>3, <3>4 DEF Op
  <2>2. CASE Op(t).kind = "remove"
    <3>. DEFINE d == OldRec(t).did
                y == <<UnregisterDid(OldRec(t))>>
                r == [To(t, "stage") EXCEPT !.exts = store, !.op.did = d, !.acts = y]
    <3>1. Set(t, r) \/ Set(t, Idle)
      BY <2>2 DEF Lock
    <3>2. th'[t] = r \/ th'[t] = Idle
      BY <3>1, Given DEF MInv
    <3>. HIDE DEF d, y
    <3>3. r.op.kind = th[t].op.kind /\ r.exts = store
      BY <1>1 DEF Whole, Twelve, To, Request
    <3>4. Idle.pc = "idle"
      BY DEF Idle
    <3>. HIDE DEF r
    <3>. QED
      BY <1>5, <2>2, <3>2, <3>3, <3>4 DEF Op
  <2>. QED
    BY <1>1, <2>1, <2>2 DEF TenantKinds
<1>7. SUFFICES ASSUME Calm' PROVE MapsOK'
  BY DEF MapsOK
<1>8. Calm
  BY <1>2, <1>7 DEF Calm, Never
<1>9. \A u \in Threads : ~Handling(u)
  BY <1>1, <1>8 DEF MInv, MapsOK, Handling, Op
<1>10. Mapped(maps, store)
  BY <1>3, <1>8, <1>9 DEF MInv, MapsOK
<1>11. \A u \in Threads \ {t} : /\ Handling(u)' = Handling(u) /\ Removing(u)' = Removing(u)
  BY <1>5 DEF Handling, Removing, AtWork, Op
<1>12. ~Handling(t)' /\ (Removing(t)' => s.exts = store)
  BY <1>1, <1>5, <1>6 DEF Handling, Removing, AtWork, Op
<1>. QED
  BY <1>2, <1>3, <1>5, <1>9, <1>10, <1>11, <1>12 DEF MapsOK

----------------------------------------------------------------------------
(* The end of a request.                                                   *)

\* A restart.
LEMMA CrashMaps ==
  ASSUME MInv, Crash
  PROVE  MapsOK'
<1>1. "crash" \in history'
  BY DEF Crash, Note
<1>. QED
  BY <1>1 DEF MapsOK, Calm, Never

\* An answer: of a handler that failed it is a failure, of a removal that changed or may have
\* changed the extensions it leaves orphans.
LEMMA AnswerMaps ==
  ASSUME MInv, NEW t \in Threads, Answer(t)
  PROVE  MapsOK'
<1>1. /\ Whole(th[t]) /\ Placed(th[t]) /\ th[t].pc = "answer" /\ Set(t, Idle)
      /\ UNCHANGED <<store, maps>>
  BY Kinds DEF MInv, Answer, At, data
<1>2. th'[t].pc = "idle" /\ \A u \in Threads \ {t} : th'[u] = th[u]
  BY <1>1, Given DEF Set, MInv, IInv, TypeOK, Idle
<1>3. SUFFICES ASSUME Calm' PROVE MapsOK'
  BY DEF MapsOK
<1>4. Calm
  BY <1>3 DEF Calm, Never, Answer, Note
<1>5. Op(t).kind \in ExtensionKinds => th[t].ok
  <2>1. SUFFICES ASSUME Op(t).kind \in ExtensionKinds, ~th[t].ok PROVE FALSE
    OBVIOUS
  <2>2. Op(t).kind \notin {"remove", "provision"}
    BY <2>1 DEF ExtensionKinds
  <2>3. Note({"failure"})
    BY <2>1, <2>2 DEF Answer
  <2>. QED
    BY <1>3, <2>3 DEF Calm, Never, Note
<1>6. Op(t).kind = "remove" => ~((th[t].ok \/ th[t].told) /\ Remaining(t) # th[t].exts)
  BY <1>3 DEF Answer, Calm, Never, Note, ExtensionKinds
<1>7. ~Handling(t)' /\ ~Removing(t)'
  BY <1>2 DEF Handling, Removing, AtWork
<1>8. \A u \in Threads \ {t} : /\ Handling(u)' = Handling(u) /\ Removing(u)' = Removing(u)
                               /\ Remaining(u)' = Remaining(u)
  BY <1>2 DEF Handling, Removing, AtWork, Op, Remaining
<1>9. CASE Op(t).kind \in ExtensionKinds
  <2>1. Mapped(maps, store) /\ \A u \in Threads \ {t} : th[u].pc = "idle"
    BY <1>1, <1>4, <1>5, <1>9 DEF MInv, MapsOK, Handling, Follows
  <2>. QED
    BY <1>1, <1>2, <1>7, <1>8, <2>1 DEF MapsOK, Handling, Removing, AtWork
<1>10. CASE Op(t).kind \notin ExtensionKinds
  <2>1. Op(t).kind \in TenantKinds /\ \A u \in Threads : ~Handling(u)
    BY <1>1, <1>4, <1>10, Kinds DEF MInv, MapsOK, Handling
  <2>2. Locked(t) /\ Extensions(t) /\ AtWork(t)
    BY <1>1, <2>1, WizardAt DEF MInv
  <2>3. Removing(t) => Mapped(maps, store)
    <3>1. SUFFICES ASSUME Removing(t) PROVE Mapped(maps, store)
      OBVIOUS
    <3>2. Op(t).kind = "remove" /\ Mapped(maps, th[t].exts) /\ store \in {th[t].exts, Remaining(t)}
      BY <1>4, <3>1 DEF MInv, MapsOK, Removing
    <3>3. store = th[t].exts
      BY <1>1, <1>6, <2>2, <3>2 DEF Extensions
    <3>. QED
      BY <3>2, <3>3
  <2>4. \A u \in Threads \ {t} : ~Removing(u)
    BY <2>2, WizardAt DEF MInv, Removing, AtWork, Locked
  <2>5. Mapped(maps, store)
    BY <1>4, <2>1, <2>3, <2>4 DEF MInv, MapsOK
  <2>. QED
    BY <1>1, <1>2, <1>7, <1>8, <2>1, <2>4, <2>5 DEF MapsOK
<1>. QED
  BY <1>9, <1>10

\* Every step keeps the invariant.
LEMMA StepMaps ==
  ASSUME MInv, [Next]_vars
  PROVE  MInv'
<1>1. IInv'
  BY NextOK DEF MInv
<1>2. CASE UNCHANGED vars
  <2>1. UNCHANGED <<th, maps, store, history>>
    BY <1>2 DEF vars, data
  <2>2. \A t \in Threads : /\ Handling(t)' = Handling(t) /\ Removing(t)' = Removing(t)
                           /\ Remaining(t)' = Remaining(t)
    BY <2>1 DEF Handling, Removing, AtWork, Op, Remaining
  <2>3. Calm' = Calm
    BY <2>1 DEF Calm, Never
  <2>4. SUFFICES ASSUME Calm' PROVE MapsOK'
    BY <1>1 DEF MapsOK, MInv
  <2>5. \A t \in Threads : Handling(t)' =>
          Follows(th'[t], maps', store') /\ \A u \in Threads \ {t} : th'[u].pc = "idle"
    BY <2>1, <2>2, <2>3, <2>4 DEF MInv, MapsOK
  <2>6. \A t \in Threads : Removing(t)' =>
          Mapped(maps', th'[t].exts) /\ store' \in {th'[t].exts, Remaining(t)'}
    BY <2>1, <2>2, <2>3, <2>4 DEF MInv, MapsOK
  <2>7. (\A t \in Threads : ~Handling(t)' /\ ~Removing(t)') => Mapped(maps', store')
    BY <2>1, <2>2, <2>3, <2>4 DEF MInv, MapsOK
  <2>. QED
    BY <2>5, <2>6, <2>7 DEF MapsOK
<1>3. ASSUME NEW t \in Threads, Step(t) PROVE MapsOK'
  BY <1>3, ReadPreviousMaps, ReadKnownMaps, SaveExtensionMaps, LoadStoreMaps, RenderMaps, LockMaps,
     StageMaps, WriteFileMaps, LoginMaps, ActMaps, ReloadPjsipMaps, ReloadRestMaps,
     RestoreFileMaps, RestoredMaps, ReloadAgainMaps, WizardMaps, StoreMaps, AnswerMaps
     DEF Step
<1>. QED
  BY <1>1, <1>2, <1>3, CrashMaps, ReceiveMaps DEF Next, MInv

\* A handler that has saved has the actions ahead that lead to the maps of the store, and a
\* removal leaves the maps as they were.
THEOREM MapsLead == Spec => []MInv
<1>. QED
  BY InitMaps, StepMaps, PTL DEF Spec

\* add, update and delete_extension: a renumbered or deleted extension leaves no number in AstDB
\* and a new one is there, as long as no publication failed and no two requests met.
THEOREM MapsFollow == Spec => []MapsFollowStore
<1>1. MInv => MapsFollowStore
  <2>1. SUFFICES ASSUME MInv, AtRest, Calm PROVE Mapped(maps, store)
    BY DEF MapsFollowStore, Mapped, Calm
  <2>2. \A t \in Threads : ~Handling(t) /\ ~Removing(t)
    BY <2>1 DEF AtRest, Busy, At, Handling, Removing, AtWork
  <2>. QED
    BY <2>1, <2>2 DEF MInv, MapsOK
<1>. QED
  BY <1>1, MapsLead, PTL

----------------------------------------------------------------------------
(* The files.  An answer of success means that Asterisk runs what they     *)
(* say and, for an extension, that they say what the store says; and       *)
(* whatever step fails, the files left are those of one version of the     *)
(* extensions.                                                             *)
(*                                                                         *)
(* As long as no two requests met and nothing crashed one request is at    *)
(* work with the files.  FilesOK says how far it has come (Writing), that  *)
(* what it publishes is current (Current), that Asterisk has loaded it     *)
(* (Loaded), and that there are files b that agree and that undoing its    *)
(* changes gives back (Recoverable): from b and from what is written       *)
(* follows that the files agree when it ends, whichever way.               *)

Active(t) == th[t].pc \notin {"idle", "lock"}
Quiet == Never({"overlap", "crash"})

\* The files, and the tenants of the catalog and of a wizard at work, whatever happens.
Structure ==
  /\ conf = [f \in Files |-> conf[f]] /\ running = [f \in Files |-> running[f]]
  /\ registry \subseteq TenantRecord /\ IsFiniteSet(registry)
  /\ \A t \in Threads : /\ AtWork(t) => Rec(Op(t)) \in TenantRecord
                        /\ th[t].pc = "lock" => th[t].undo = <<>>

----------------------------------------------------------------------------
\* What a request publishes: its files and their contents.
Apart(exts, t) == exts \ OfTenant(exts, t)
Left(r) == Apart(r.exts, r.op.tenant)
Batch(r) ==
  IF r.op.kind \in ExtensionKinds THEN RenderAll(r.exts, r.known)
  ELSE IF r.op.kind = "provision" THEN TenantContents(r.op.tenant)
  ELSE [f \in {Pjsip} \cup TenantFiles(r.op.tenant) |->
          IF f = Pjsip THEN RenderPjsip(Left(r)) ELSE Absent]

\* A sequence of changes and its files.
Changes(q) == q \in Seq({q[i] : i \in DOMAIN q})
Changed(q) == {q[i].file : i \in DOMAIN q}

\* Changes ahead, each of a file of its own and from what it contains; changes made.
Ahead(q, c, new) ==
  /\ Changes(q) /\ Changed(q) \subseteq DOMAIN new
  /\ \A i \in DOMAIN q : q[i].new = new[q[i].file] /\ q[i].old = c[q[i].file]
  /\ \A i, j \in DOMAIN q : q[i].file = q[j].file => i = j
Behind(q, c, new) ==
  Changes(q) /\ Changed(q) \subseteq DOMAIN new /\ \A f \in Changed(q) : c[f] = new[f]

\* All the files are written.
Wrote(r) ==
  \/ r.pc \in {"login", "act", "pjsip", "rest", "store", "registry", "tidy"}
  \/ r.pc = "answer" /\ r.ok

Writing(r, c) ==
  LET new  == Batch(r)
      mine == TenantFiles(r.op.tenant)
  IN  /\ Changes(r.undo)
      /\ r.pc \in {"previous", "known", "save", "load", "render", "stage"} => r.undo = <<>>
      /\ r.pc = "files" =>
           /\ Ahead(r.todo, c, new) /\ Behind(r.undo, c, new) /\ r.todo # <<>>
           /\ Changed(r.todo) \cap Changed(r.undo) = {}
           /\ r.op.kind # "remove" => Changed(r.todo) \cup Changed(r.undo) = DOMAIN new
           /\ r.op.kind = "remove" =>
                \/ Changed(r.todo) \cup Changed(r.undo) = mine
                \/ Changed(r.todo) = {Pjsip} /\ Changed(r.undo) = mine
      /\ r.pc = "stage2" => Behind(r.undo, c, new) /\ Changed(r.undo) = mine
      /\ Wrote(r) => Behind(r.undo, c, new) /\ Changed(r.undo) = DOMAIN new

\* What a handler publishes is the store, and the known tenants; nothing has failed on its way.
HandlerWay == {"previous", "known", "save", "load", "render", "stage", "files", "login", "act",
               "pjsip", "rest"}
Current(r, st, reg) ==
  r.op.kind \in ExtensionKinds =>
    /\ r.pc \in HandlerWay => r.ok
    /\ r.pc \in {"restore", "again"} => ~r.ok
    /\ r.pc \in {"render", "stage", "files"} \/ Wrote(r) => r.exts = st
    /\ r.pc \in {"stage", "files"} \/ Wrote(r) =>
         r.known = KnownTenants(reg) /\ Publishable(r.exts, r.known)

\* After the reload Asterisk runs the files.
Loaded(r, c, run) ==
  r.pc \in {"store", "registry", "tidy"} \/ (r.pc = "answer" /\ r.ok) => run = c

----------------------------------------------------------------------------
\* The files agree, and those whose extensions they are have known tenants.
Home(c, known) == Agree(c, known) /\ \A e \in Published(c) : e.tenant \in known

\* b is what undoing the changes q makes of the files.
Undoes(b, c, q) ==
  /\ b = [f \in Files |-> b[f]]
  /\ \A i \in DOMAIN q : b[q[i].file] = q[i].old
  /\ \A f \in Files \ Changed(q) : b[f] = c[f]

OneEach(reg) == \A r, s \in reg : r.id = s.id => r = s
Unhurt(h) == h \cap {"restore", "partial"} = {}
Unfailed(h) == "failure" \notin h

\* When no request is at work.
Settled(c, st, reg, h) ==
  Unhurt(h) =>
    /\ OneEach(reg) /\ Home(c, KnownTenants(reg))
    /\ Unfailed(h) => st = Published(c)

\* Until the catalog is saved, forward or back; when it is.
Early(r) == r.pc \in {"stage", "files", "stage2", "login", "act", "pjsip", "rest", "store",
                      "registry", "restore", "unregistry"}
Finished(r) == r.op.kind \in TenantKinds /\ (r.pc = "tidy" \/ (r.pc = "answer" /\ r.ok))

\* The extensions of the files that undoing leads to.
Before(r, b, st, h) ==
  /\ r.op.kind = "remove" => Published(b) = r.exts
  /\ r.op.kind = "provision" \/ r.pc \in {"previous", "known", "save"} =>
       (Unfailed(h) => st = Published(b))
Base(r, c, st, reg, h) ==
  \E b : Undoes(b, c, r.undo) /\ Home(b, KnownTenants(reg)) /\ Before(r, b, st, h)

Recoverable(r, c, st, reg, h) ==
  Unhurt(h) /\ (r.op.kind = "remove" => Unfailed(h)) =>
    /\ OneEach(reg)
    /\ r.pc \notin {"files", "stage2", "restore"} /\ ~Wrote(r) => r.undo = <<>>
    /\ ~Finished(r) => Base(r, c, st, reg, h)
    /\ Early(r) => /\ r.op.kind = "provision" => r.op.tenant \notin KnownTenants(reg)
                   /\ r.op.kind = "remove" => Rec(r.op) \in reg
    /\ Finished(r) => /\ Home(c, KnownTenants(reg))
                      /\ r.op.kind = "provision" /\ Unfailed(h) => st = Published(c)
                      /\ r.op.kind = "remove" => Published(c) = Left(r)

Progress(r, c, run, st, reg, h) ==
  Writing(r, c) /\ Current(r, st, reg) /\ Loaded(r, c, run) /\ Recoverable(r, c, st, reg, h)

FilesOK ==
  Quiet =>
    /\ \A t \in Threads : Handling(t) => \A u \in Threads \ {t} : th[u].pc = "idle"
    /\ \A t \in Threads : Active(t) => Progress(th[t], conf, running, store, registry, history)
    /\ (\A t \in Threads : ~Active(t)) => Settled(conf, store, registry, history)
FInv == IInv /\ Structure /\ FilesOK

----------------------------------------------------------------------------
(* Files and what is rendered.                                             *)

\* Files have names of their own.
LEMMA FileNames ==
  /\ \A t : Dynamic(t) # Pjsip /\ Infra(t) # Pjsip
  /\ \A t, u : Dynamic(t) # Infra(u)
  /\ \A t, u : Dynamic(t) = Dynamic(u) => t = u
  /\ \A t, u : Infra(t) = Infra(u) => t = u
BY DEF Dynamic, Infra, Pjsip

\* What is rendered is read back.
LEMMA ReadBack ==
  ASSUME NEW c, NEW S \in SUBSET Stored, c[Pjsip] = RenderPjsip(S)
  PROVE  Published(c) = S
<1>1. \A e \in S : [name |-> e.name, number |-> e.number, tenant |-> e.tenant] = e
  BY DEF Stored
<1>. DEFINE Block(e) == [endpoint |-> e.name, context |-> e.tenant, callerid |-> e.number]
            Back(k) == [name |-> k.endpoint, number |-> k.callerid, tenant |-> k.context]
<1>2. \A e \in S : Back(Block(e)) = e
  BY <1>1
<1>3. c[Pjsip] = {Block(e) : e \in S} /\ Published(c) = {Back(k) : k \in c[Pjsip]}
  BY DEF Published, RenderPjsip
<1>. HIDE DEF Block, Back
<1>. QED
  BY <1>2, <1>3

\* The generated files one by one.
LEMMA Rendered ==
  ASSUME NEW S, NEW known
  PROVE  /\ DOMAIN RenderAll(S, known) = DynamicFiles(known)
         /\ RenderAll(S, known)[Pjsip] = RenderPjsip(S)
         /\ \A t \in known : RenderAll(S, known)[Dynamic(t)] = RenderDynamic(OfTenant(S, t))
BY FileNames DEF RenderAll, DynamicFiles, Dynamic

\* When files agree, one by one.
LEMMA Agreement ==
  ASSUME NEW c, NEW known
  PROVE  Agree(c, known) <=>
           /\ c[Pjsip] = RenderPjsip(Published(c))
           /\ \A t \in known : c[Dynamic(t)] = RenderDynamic(OfTenant(Published(c), t))
           /\ \A w \in WizardTenants : c[Infra(w)] = IF w \in known THEN RenderTenant(w) ELSE Absent
           /\ \A w \in WizardTenants \ known : c[Dynamic(w)] = Absent
<1>. DEFINE R == RenderAll(Published(c), known)
<1>1. /\ R[Pjsip] = RenderPjsip(Published(c))
      /\ \A t \in known : R[Dynamic(t)] = RenderDynamic(OfTenant(Published(c), t))
  BY Rendered
<1>. HIDE DEF R
<1>2. (\A f \in DynamicFiles(known) : c[f] = R[f]) <=>
        (c[Pjsip] = R[Pjsip] /\ \A t \in known : c[Dynamic(t)] = R[Dynamic(t)])
  BY DEF DynamicFiles
<1>. QED
  BY <1>1, <1>2 DEF Agree, R

\* A handler's files, all written.
LEMMA HandlerHome ==
  ASSUME NEW known \in SUBSET Tenants, NEW b, NEW c, NEW q, Home(b, known), Undoes(b, c, q),
         NEW S \in SUBSET Stored, Publishable(S, known),
         Behind(q, c, RenderAll(S, known)), Changed(q) = DynamicFiles(known)
  PROVE  Home(c, known) /\ Published(c) = S
<1>1. /\ c[Pjsip] = RenderPjsip(S)
      /\ \A t \in known : c[Dynamic(t)] = RenderDynamic(OfTenant(S, t))
  BY Rendered DEF Behind, DynamicFiles
<1>2. Published(c) = S
  BY <1>1, ReadBack
<1>3. \A w \in WizardTenants : c[Infra(w)] = b[Infra(w)] /\ (w \notin known => c[Dynamic(w)] = b[Dynamic(w)])
  <2>. TAKE w \in WizardTenants
  <2>1. Infra(w) \in Files /\ Dynamic(w) \in Files
    BY DEF Files, DynamicFiles, Tenants
  <2>2. Infra(w) \notin Changed(q) /\ (w \notin known => Dynamic(w) \notin Changed(q))
    BY FileNames DEF DynamicFiles
  <2>. QED
    BY <2>1, <2>2 DEF Undoes
<1>4. Agree(c, known)
  BY <1>1, <1>2, <1>3, Agreement DEF Home
<1>. QED
  BY <1>2, <1>4 DEF Home, Publishable

\* A new tenant's files, all written.
LEMMA ProvisionHome ==
  ASSUME NEW known \in SUBSET Tenants, NEW b, NEW c, NEW q, Home(b, known), Undoes(b, c, q),
         NEW w \in WizardTenants \ known,
         Behind(q, c, TenantContents(w)), Changed(q) = TenantFiles(w)
  PROVE  Home(c, known \cup {w}) /\ Published(c) = Published(b)
<1>1. c[Infra(w)] = RenderTenant(w) /\ c[Dynamic(w)] = RenderDynamic({})
  BY FileNames DEF Behind, TenantContents, TenantFiles
<1>2. \A f \in Files : f \notin {Infra(w), Dynamic(w)} => c[f] = b[f]
  BY DEF Undoes, TenantFiles
<1>3. c[Pjsip] = b[Pjsip]
  BY <1>2, FileNames DEF Files, DynamicFiles
<1>4. Published(c) = Published(b)
  BY <1>3 DEF Published
<1>5. \A t \in known : c[Dynamic(t)] = b[Dynamic(t)]
  BY <1>2, FileNames DEF Files, DynamicFiles
<1>6. \A v \in WizardTenants \ {w} : c[Infra(v)] = b[Infra(v)] /\ c[Dynamic(v)] = b[Dynamic(v)]
  BY <1>2, FileNames DEF Files, DynamicFiles, Tenants
<1>7. OfTenant(Published(c), w) = {}
  BY <1>4 DEF Home, OfTenant
<1>8. Agree(c, known \cup {w})
  BY <1>1, <1>3, <1>4, <1>5, <1>6, <1>7, Agreement DEF Home
<1>. QED
  BY <1>4, <1>8 DEF Home

\* A tenant's files, all gone, and the endpoints that remain.
LEMMA RemovalHome ==
  ASSUME NEW known \in SUBSET Tenants, NEW b, NEW c, NEW q, Home(b, known), Undoes(b, c, q),
         NEW w \in WizardTenants, NEW S \in SUBSET Stored, S = Apart(Published(b), w),
         c[Pjsip] = RenderPjsip(S), c[Infra(w)] = Absent, c[Dynamic(w)] = Absent,
         Changed(q) = {Pjsip} \cup TenantFiles(w)
  PROVE  Home(c, known \ {w}) /\ Published(c) = S
<1>1. Published(c) = S
  BY ReadBack
<1>2. \A f \in Files : f \notin {Pjsip, Infra(w), Dynamic(w)} => c[f] = b[f]
  BY DEF Undoes, TenantFiles
<1>3. \A t \in known \ {w} : c[Dynamic(t)] = b[Dynamic(t)]
  BY <1>2, FileNames DEF Files, DynamicFiles
<1>4. \A v \in WizardTenants \ {w} : c[Infra(v)] = b[Infra(v)] /\ c[Dynamic(v)] = b[Dynamic(v)]
  BY <1>2, FileNames DEF Files, DynamicFiles, Tenants
<1>5. \A t \in known \ {w} : OfTenant(S, t) = OfTenant(Published(b), t)
  BY DEF OfTenant, Apart
<1>6. Agree(c, known \ {w})
  BY <1>1, <1>3, <1>4, <1>5, Agreement DEF Home
<1>7. \A e \in S : e.tenant \in known \ {w}
  BY DEF Home, OfTenant, Apart
<1>. QED
  BY <1>1, <1>6, <1>7 DEF Home

\* Nothing to undo.
LEMMA NothingUndone ==
  ASSUME NEW b, NEW c, c = [f \in Files |-> c[f]], Undoes(b, c, <<>>)
  PROVE  b = c
<1>1. \A f \in Files : b[f] = c[f]
  BY DEF Undoes, Changed
<1>. QED
  BY <1>1 DEF Undoes

----------------------------------------------------------------------------
(* One thread steps.                                                       *)

\* A thread at work is a handler or the wizard.
LEMMA AtWorkOr ==
  ASSUME IInv, NEW t \in Threads, Active(t)
  PROVE  /\ Whole(th[t]) /\ Placed(th[t]) /\ Op(t) = th[t].op
         /\ Handling(t) <=> Op(t).kind \in ExtensionKinds
         /\ AtWork(t) <=> Op(t).kind \in TenantKinds
         /\ Op(t).kind \in ExtensionKinds \/ Op(t).kind \in TenantKinds
         /\ ~(Op(t).kind \in ExtensionKinds /\ Op(t).kind \in TenantKinds)
BY Kinds DEF Active, Handling, AtWork, Op

\* Without overlap or crash no other is.
LEMMA OneActive ==
  ASSUME FInv, Quiet, NEW t \in Threads, Active(t), NEW u \in Threads, u # t
  PROVE  ~Active(u) /\ ~Handling(u)
<1>1. ~Handling(u)
  BY DEF FInv, FilesOK, Active
<1>2. Handling(t) => th[u].pc = "idle"
  BY DEF FInv, FilesOK
<1>3. Active(u) => ~Handling(t) /\ AtWork(t) /\ AtWork(u)
  BY <1>1, <1>2, AtWorkOr DEF FInv, Active
<1>4. AtWork(t) /\ AtWork(u) => tenantLock = t /\ tenantLock = u
  BY DEF FInv, IInv, Saga, Locked
<1>. QED
  BY <1>1, <1>3, <1>4

\* The structure stays when a thread goes on with its request, or ends it.
LEMMA StructureStays ==
  ASSUME FInv, NEW t \in Threads, NEW s, Set(t, s),
         \/ s.pc = "idle" \/ (s.pc = "lock" /\ s.undo = <<>>)
         \/ Active(t) /\ s.pc # "lock" /\ s.op = th[t].op,
         conf' = conf \/ \E f, y : conf' = [conf EXCEPT ![f] = y],
         running' \in {running, AfterPjsip, AfterAll},
         registry' = registry \/ (AtWork(t) /\ registry' \in {NewRegistry(t), OldRegistry(t)})
  PROVE  Structure'
<1>1. th'[t] = s /\ \A u \in Threads \ {t} : th'[u] = th[u]
  BY Given DEF Set, FInv, IInv, TypeOK
<1>2. \A u \in Threads : AtWork(u)' => AtWork(u) /\ Op(u)' = Op(u)
  BY <1>1 DEF AtWork, Op, Active
<1>3. \A u \in Threads : /\ (AtWork(u)' => Rec(Op(u))' \in TenantRecord)
                          /\ (th'[u].pc = "lock" => th'[u].undo = <<>>)
  BY <1>1, <1>2 DEF FInv, Structure, Rec
<1>4. conf' = [f \in Files |-> conf'[f]]
  BY DEF FInv, Structure
<1>5. running' = [f \in Files |-> running'[f]]
  BY DEF FInv, Structure, AfterPjsip, AfterAll
<1>6. registry' \subseteq TenantRecord /\ IsFiniteSet(registry')
  <2>1. IsFiniteSet(registry) /\ registry \subseteq TenantRecord
    BY DEF FInv, Structure
  <2>2. AtWork(t) => Rec(Op(t)) \in TenantRecord
    BY DEF FInv, Structure
  <2>3. \A r : IsFiniteSet(registry \cup {r}) /\ IsFiniteSet(registry \ {r})
    BY <2>1, FS_AddElement, FS_RemoveElement
  <2>. QED
    BY <2>1, <2>2, <2>3 DEF NewRegistry, OldRegistry
<1>. QED
  BY <1>3, <1>4, <1>5, <1>6 DEF Structure

\* A thread at work goes on: what it does to the files is what counts.
LEMMA Advance ==
  ASSUME FInv, NEW t \in Threads, NEW s, Set(t, s), Active(t), s.pc \notin {"idle", "lock"},
         s.op = th[t].op, history \subseteq history',
         Quiet /\ Progress(th[t], conf, running, store, registry, history) =>
           Progress(s, conf', running', store', registry', history')
  PROVE  FilesOK'
<1>. SUFFICES ASSUME Quiet' PROVE FilesOK'
  BY DEF FilesOK
<1>1. Quiet
  BY DEF Quiet, Never
<1>2. th'[t] = s /\ \A u \in Threads \ {t} : th'[u] = th[u]
  BY Given DEF Set, FInv, IInv, TypeOK
<1>3. Active(t)' /\ \A u \in Threads \ {t} : ~Active(u)' /\ ~Handling(u)'
  BY <1>1, <1>2, OneActive DEF Active, Handling, Op
<1>4. Progress(s, conf', running', store', registry', history')
  BY <1>1 DEF FInv, FilesOK
<1>5. Handling(t)' => \A u \in Threads \ {t} : th'[u].pc = "idle"
  BY <1>1, <1>2 DEF FInv, FilesOK, Handling, Op, Active
<1>. QED
  BY <1>2, <1>3, <1>4, <1>5 DEF FilesOK

\* The ways of a request that leave the files to write and to undo as they are.
Onward(r, s) ==
  /\ s.op = r.op /\ s.exts = r.exts /\ s.undo = r.undo
  /\ s.pc \notin {"load", "render", "stage", "files", "stage2"}
  /\ s.pc \in {"previous", "known", "save"} => r.pc \in {"previous", "known", "save"}
  /\ s.pc \in HandlerWay => r.pc \in HandlerWay /\ s.ok = r.ok
  /\ s.pc \in {"restore", "again"} => ~s.ok
  /\ Wrote(s) => Wrote(r) /\ s.known = r.known
  /\ s.pc # "restore" /\ ~Wrote(s) =>
       r.undo = <<>> \/ (r.pc \notin {"files", "stage2", "restore"} /\ ~Wrote(r))
  /\ Finished(r) <=> Finished(s)
  /\ Early(s) => Early(r) \/ r.op.kind \in ExtensionKinds

\* The longer history has happened to more.
LEMMA Monotone ==
  ASSUME NEW h, NEW k, h \subseteq k
  PROVE  (Unhurt(k) => Unhurt(h)) /\ (Unfailed(k) => Unfailed(h))
BY DEF Unhurt, Unfailed

\* On such a way a request keeps what it has reached.
LEMMA OnwardProgress ==
  ASSUME NEW r, NEW s, NEW c, NEW run, NEW new, NEW st, NEW reg, NEW h, NEW k, h \subseteq k,
         Progress(r, c, run, st, reg, h), Onward(r, s), Loaded(s, c, new)
  PROVE  Progress(s, c, new, st, reg, k)
<1>1. Wrote(s) => Batch(s) = Batch(r)
  BY DEF Onward, Batch, Left
<1>2. Writing(s, c)
  BY <1>1 DEF Progress, Writing, Onward
<1>3. Current(s, st, reg)
  BY DEF Progress, Current, Onward
<1>4. Left(s) = Left(r)
  BY DEF Left, Onward
<1>5. Base(r, c, st, reg, h) => Base(s, c, st, reg, k)
  BY Monotone DEF Base, Before, Onward
<1>6. Recoverable(s, c, st, reg, k)
  BY <1>4, <1>5, Monotone DEF Progress, Recoverable, Onward, ExtensionKinds
<1>. QED
  BY <1>2, <1>3, <1>6 DEF Progress

\* A step on such a way that leaves files, store and catalog alone.
LEMMA Goes ==
  ASSUME FInv, NEW t \in Threads, NEW s, Set(t, s), Active(t), s.pc \notin {"idle", "lock"},
         s.op = th[t].op, history \subseteq history', UNCHANGED <<conf, store, registry>>,
         running' \in {running, AfterPjsip, AfterAll},
         Quiet /\ Progress(th[t], conf, running, store, registry, history) =>
           Onward(th[t], s) /\ Loaded(s, conf, running')
  PROVE  Structure' /\ FilesOK'
<1>1. Quiet /\ Progress(th[t], conf, running, store, registry, history) =>
        Progress(s, conf', running', store', registry', history')
  BY OnwardProgress
<1>. QED
  BY <1>1, Advance, StructureStays

\* What a step may leave of the record of its thread.
Same(r, s) == s.op = r.op /\ s.exts = r.exts /\ s.undo = r.undo /\ s.known = r.known

\* A step that fails, before it has changed anything that counts here.
LEMMA Fails ==
  ASSUME FInv, NEW t \in Threads, NEW s, Set(t, s), Active(t), s.pc = "restore", ~s.ok, Same(th[t], s),
         th[t].pc \in {"stage", "files", "login", "act", "pjsip", "rest", "store", "registry"},
         history \subseteq history', UNCHANGED <<conf, store, registry>>,
         running' \in {running, AfterPjsip, AfterAll}
  PROVE  Structure' /\ FilesOK'
<1>1. Onward(th[t], s) /\ Loaded(s, conf, running')
  BY DEF Onward, Loaded, Same, Wrote, Finished, Early, HandlerWay
<1>. QED
  BY <1>1, Goes DEF Same

----------------------------------------------------------------------------
(* The steps that leave files, store and catalog alone.                    *)

\* The look at the record before the change.
LEMMA ReadPreviousFiles ==
  ASSUME FInv, NEW t \in Threads, ReadPrevious(t)
  PROVE  Structure' /\ FilesOK'
<1>. DEFINE p == IF Op(t).kind = "update" THEN "known" ELSE "save"
            prev == {e \in store : e.name = Op(t).name}
            s == [th[t] EXCEPT !.prev = prev, !.pc = p]
<1>1. Active(t) /\ Whole(th[t]) /\ th[t].pc = "previous"
  BY Kinds DEF FInv, ReadPrevious, At, Active
<1>2. Same(th[t], s) /\ s.pc = p /\ s.ok = th[t].ok
  BY <1>1 DEF Whole, Twelve, Same
<1>3. Set(t, s) /\ p \in {"known", "save"} /\ UNCHANGED <<conf, running, store, registry, history>>
  BY DEF ReadPrevious, data
<1>. HIDE DEF p, s
<1>4. Onward(th[t], s) /\ Loaded(s, conf, running')
  BY <1>1, <1>2, <1>3 DEF Onward, Loaded, Same, Wrote, Finished, Early, HandlerWay
<1>. QED
  BY <1>1, <1>2, <1>3, <1>4, Goes DEF Same

\* The reading of the known tenants.
LEMMA ReadKnownFiles ==
  ASSUME FInv, NEW t \in Threads, ReadKnown(t)
  PROVE  Structure' /\ FilesOK'
<1>. DEFINE s == [To(t, "save") EXCEPT !.known = KnownTenants(registry)]
<1>1. Active(t) /\ Whole(th[t]) /\ th[t].pc = "known"
  BY Kinds DEF FInv, ReadKnown, At, Active
<1>2. s.op = th[t].op /\ s.exts = th[t].exts /\ s.undo = th[t].undo /\ s.pc = "save" /\ s.ok = th[t].ok
  BY <1>1 DEF Whole, Twelve, To
<1>3. Set(t, s) /\ UNCHANGED <<conf, running, store, registry, history>>
  BY DEF ReadKnown, data
<1>. HIDE DEF s
<1>4. Onward(th[t], s) /\ Loaded(s, conf, running')
  BY <1>1, <1>2, <1>3 DEF Onward, Loaded, Wrote, Finished, Early, HandlerWay
<1>. QED
  BY <1>1, <1>2, <1>3, <1>4, Goes

\* The connection to Asterisk.
LEMMA LoginFiles ==
  ASSUME FInv, NEW t \in Threads, Login(t)
  PROVE  Structure' /\ FilesOK'
<1>. DEFINE p == IF th[t].acts = <<>> THEN "pjsip" ELSE "act"
            s == [To(t, p) EXCEPT !.logged = TRUE]
            f == Failed(t, "restore")
<1>1. Active(t) /\ Whole(th[t]) /\ th[t].pc = "login"
  BY Kinds DEF FInv, Login, At, Active
<1>2. Same(th[t], s) /\ s.pc = p /\ s.ok = th[t].ok
  BY <1>1 DEF Whole, Twelve, Same, To
<1>3. Same(th[t], f) /\ f.pc = "restore" /\ ~f.ok
  BY <1>1 DEF Whole, Twelve, Same, Failed
<1>4. (Set(t, s) \/ Set(t, f)) /\ p \in {"pjsip", "act"}
      /\ UNCHANGED <<conf, running, store, registry, history>>
  BY DEF Login, data
<1>. HIDE DEF p, s, f
<1>5. CASE Set(t, s)
  <2>1. Onward(th[t], s) /\ Loaded(s, conf, running')
    BY <1>1, <1>2, <1>4 DEF Onward, Loaded, Same, Wrote, Finished, Early, HandlerWay
  <2>. QED
    BY <1>1, <1>2, <1>4, <1>5, <2>1, Goes DEF Same
<1>6. CASE Set(t, f)
  BY <1>1, <1>3, <1>4, <1>6, Fails
<1>. QED
  BY <1>4, <1>5, <1>6

\* An action of AstDB.
LEMMA ActFiles ==
  ASSUME FInv, NEW t \in Threads, Act(t)
  PROVE  Structure' /\ FilesOK'
<1>. DEFINE p == IF Len(th[t].acts) = 1 THEN "pjsip" ELSE "act"
            s == [To(t, p) EXCEPT !.acts = Tail(@)]
            f == Failed(t, "restore")
<1>1. Active(t) /\ Whole(th[t]) /\ th[t].pc = "act"
  BY Kinds DEF FInv, Act, At, Active
<1>2. Same(th[t], s) /\ s.pc = p /\ s.ok = th[t].ok
  BY <1>1 DEF Whole, Twelve, Same, To
<1>3. Same(th[t], f) /\ f.pc = "restore" /\ ~f.ok
  BY <1>1 DEF Whole, Twelve, Same, Failed
<1>4. (Set(t, s) \/ Set(t, f)) /\ p \in {"pjsip", "act"}
      /\ UNCHANGED <<conf, running, store, registry, history>>
  BY DEF Act
<1>. HIDE DEF p, s, f
<1>5. CASE Set(t, s)
  <2>1. Onward(th[t], s) /\ Loaded(s, conf, running')
    BY <1>1, <1>2, <1>4 DEF Onward, Loaded, Same, Wrote, Finished, Early, HandlerWay
  <2>. QED
    BY <1>1, <1>2, <1>4, <1>5, <2>1, Goes DEF Same
<1>6. CASE Set(t, f)
  BY <1>1, <1>3, <1>4, <1>6, Fails
<1>. QED
  BY <1>4, <1>5, <1>6

\* The first reload command.
LEMMA ReloadPjsipFiles ==
  ASSUME FInv, NEW t \in Threads, ReloadPjsip(t)
  PROVE  Structure' /\ FilesOK'
<1>. DEFINE s == To(t, "rest")
            f == Failed(t, "restore")
<1>1. Active(t) /\ Whole(th[t]) /\ th[t].pc = "pjsip"
  BY Kinds DEF FInv, ReloadPjsip, At, Active
<1>2. Same(th[t], s) /\ s.pc = "rest" /\ s.ok = th[t].ok
  BY <1>1 DEF Whole, Twelve, Same, To
<1>3. Same(th[t], f) /\ f.pc = "restore" /\ ~f.ok
  BY <1>1 DEF Whole, Twelve, Same, Failed
<1>4. (Set(t, s) \/ Set(t, f)) /\ running' \in {running, AfterPjsip, AfterAll}
      /\ UNCHANGED <<conf, store, registry, history>>
  BY DEF ReloadPjsip
<1>. HIDE DEF s, f
<1>5. CASE Set(t, s)
  <2>1. Onward(th[t], s) /\ Loaded(s, conf, running')
    BY <1>1, <1>2, <1>4 DEF Onward, Loaded, Same, Wrote, Finished, Early, HandlerWay
  <2>. QED
    BY <1>1, <1>2, <1>4, <1>5, <2>1, Goes DEF Same
<1>6. CASE Set(t, f)
  BY <1>1, <1>3, <1>4, <1>6, Fails
<1>. QED
  BY <1>4, <1>5, <1>6

\* The others: Asterisk runs the files.
LEMMA ReloadRestFiles ==
  ASSUME FInv, NEW t \in Threads, ReloadRest(t)
  PROVE  Structure' /\ FilesOK'
<1>. DEFINE p == AfterReload(t)
            s == To(t, p)
            f == Failed(t, "restore")
<1>1. Active(t) /\ Whole(th[t]) /\ th[t].pc = "rest"
  BY Kinds DEF FInv, ReloadRest, At, Active
<1>2. Same(th[t], s) /\ s.pc = p /\ s.ok = th[t].ok
  BY <1>1 DEF Whole, Twelve, Same, To
<1>3. Same(th[t], f) /\ f.pc = "restore" /\ ~f.ok
  BY <1>1 DEF Whole, Twelve, Same, Failed
<1>4. (Set(t, s) /\ running' = conf) \/ (Set(t, f) /\ running' \in {running, AfterPjsip, AfterAll})
  BY DEF ReloadRest, AfterAll
<1>5. UNCHANGED <<conf, store, registry, history>>
  BY DEF ReloadRest
<1>6. /\ p \in {"answer", "store", "registry"} /\ (p = "answer" => Op(t).kind \in ExtensionKinds)
      /\ (Op(t).kind \in ExtensionKinds => p = "answer")
  BY DEF AfterReload, ExtensionKinds
<1>. HIDE DEF p, s, f
<1>7. CASE Set(t, s) /\ running' = conf
  <2>1. Progress(th[t], conf, running, store, registry, history) =>
          Onward(th[t], s) /\ Loaded(s, conf, running')
    BY <1>1, <1>2, <1>6, <1>7, AtWorkOr
       DEF FInv, Onward, Loaded, Same, Wrote, Finished, Early, HandlerWay, Progress, Current, Op
  <2>. QED
    BY <1>1, <1>2, <1>5, <1>6, <1>7, <2>1, Goes DEF Same, AfterAll
<1>8. CASE Set(t, f) /\ running' \in {running, AfterPjsip, AfterAll}
  BY <1>1, <1>3, <1>5, <1>8, Fails
<1>. QED
  BY <1>4, <1>7, <1>8

\* A step of the compensation that puts nothing back.
LEMMA GoesBack ==
  ASSUME FInv, NEW t \in Threads, NEW s, Set(t, s), Same(th[t], s), s.ok = th[t].ok,
         th[t].pc \in {"again", "relogin", "react", "repjsip", "rerest"},
         s.pc \in {"answer", "react", "repjsip", "rerest"},
         history \subseteq history', UNCHANGED <<conf, store, registry>>,
         running' \in {running, AfterPjsip, AfterAll}
  PROVE  Structure' /\ FilesOK'
<1>1. Active(t)
  BY DEF Active
<1>2. Quiet /\ Progress(th[t], conf, running, store, registry, history) => ~th[t].ok
  <2>1. Op(t).kind \in TenantKinds => th[t].pc # "again"
    BY <1>1, AtWorkOr DEF FInv, Placed, ForExtensions
  <2>2. Op(t).kind \in TenantKinds => ~th[t].ok
    BY <1>1, <2>1, AtWorkOr DEF FInv, IInv, Saga, Outcome, Backward
  <2>. QED
    BY <1>1, <2>2, AtWorkOr DEF FInv, Progress, Current, Placed, ForTenants
<1>3. ~th[t].ok => Onward(th[t], s) /\ Loaded(s, conf, running')
  BY DEF Onward, Loaded, Same, Wrote, Finished, Early, HandlerWay
<1>. QED
  BY <1>1, <1>2, <1>3, Goes DEF Same

\* The staged copies go; an error there leaves files in place.
LEMMA TidyFiles ==
  ASSUME FInv, NEW t \in Threads, Tidy(t)
  PROVE  Structure' /\ FilesOK'
<1>. DEFINE s == To(t, "answer")
            f == Failed(t, "unregistry")
<1>1. /\ Active(t) /\ Whole(th[t]) /\ th[t].pc = "tidy" /\ Op(t) = th[t].op
      /\ Op(t).kind \in TenantKinds /\ th[t].ok
  <2>1. Active(t) /\ th[t].pc = "tidy"
    BY DEF Tidy, At, Active
  <2>. QED
    BY <2>1, AtWorkOr DEF FInv, IInv, TypeOK, Placed, ForTenants, Saga, Outcome, Forward
<1>2. Same(th[t], s) /\ s.pc = "answer" /\ s.ok = th[t].ok
  BY <1>1 DEF Whole, Twelve, Same, To
<1>3. Same(th[t], f) /\ f.pc = "unregistry" /\ ~f.ok
  BY <1>1 DEF Whole, Twelve, Same, Failed
<1>4. (Set(t, s) /\ UNCHANGED history) \/ (Set(t, f) /\ history' = history \cup {"restore"})
  BY DEF Tidy, Note
<1>5. UNCHANGED <<conf, running, store, registry>>
  BY DEF Tidy, data
<1>. HIDE DEF s, f
<1>6. CASE Set(t, s) /\ UNCHANGED history
  <2>1. Progress(th[t], conf, running, store, registry, history) =>
          Onward(th[t], s) /\ Loaded(s, conf, running')
    BY <1>1, <1>2, <1>5
       DEF Onward, Loaded, Same, Wrote, Finished, Early, HandlerWay, Progress
  <2>. QED
    BY <1>1, <1>2, <1>5, <1>6, <2>1, Goes DEF Same
<1>7. CASE Set(t, f) /\ history' = history \cup {"restore"}
  <2>1. Recoverable(f, conf', store', registry', history')
    BY <1>7 DEF Recoverable, Unhurt
  <2>2. Progress(th[t], conf, running, store, registry, history) =>
          Progress(f, conf', running', store', registry', history')
    BY <1>1, <1>3, <1>5, <2>1, AtWorkOr
       DEF FInv, Progress, Writing, Current, Loaded, Wrote, Same
  <2>. QED
    BY <1>1, <1>3, <1>5, <1>7, <2>2, Advance, StructureStays DEF Same
<1>. QED
  BY <1>4, <1>6, <1>7

\* All files are put back.
LEMMA RestoredFiles ==
  ASSUME FInv, NEW t \in Threads, Restored(t)
  PROVE  Structure' /\ FilesOK'
<1>. DEFINE p == CASE Op(t).kind \notin ExtensionKinds -> "unregistry"
                   [] Op(t).kind \in ExtensionKinds /\ th[t].logged -> "again"
                   [] OTHER -> "answer"
            s == To(t, p)
<1>1. Active(t) /\ Whole(th[t]) /\ th[t].pc = "restore" /\ th[t].undo = <<>>
  BY Kinds DEF FInv, Restored, At, Active
<1>2. Same(th[t], s) /\ s.pc = p /\ s.ok = th[t].ok
  BY <1>1 DEF Whole, Twelve, Same, To
<1>3. Set(t, s) /\ p \in {"unregistry", "again", "answer"}
      /\ UNCHANGED <<conf, running, store, registry, history>>
  BY DEF Restored, data
<1>. HIDE DEF p, s
<1>4. Progress(th[t], conf, running, store, registry, history) => ~th[t].ok
  <2>1. Op(t).kind \in TenantKinds => ~th[t].ok
    BY <1>1, AtWorkOr DEF FInv, IInv, Saga, Outcome, Backward
  <2>. QED
    BY <1>1, <2>1, AtWorkOr DEF FInv, Progress, Current
<1>5. ~th[t].ok => Onward(th[t], s) /\ Loaded(s, conf, running')
  BY <1>1, <1>2, <1>3 DEF Onward, Loaded, Same, Wrote, Finished, Early, HandlerWay
<1>. QED
  BY <1>1, <1>2, <1>3, <1>4, <1>5, Goes DEF Same

\* The compensation on the connections to Asterisk.
LEMMA CompensationFiles ==
  ASSUME FInv, NEW t \in Threads, ReloadAgain(t) \/ LoginAgain(t) \/ UndoDid(t) \/ UndoReload(t)
  PROVE  Structure' /\ FilesOK'
<1>1. Whole(th[t]) /\ th[t].pc \in {"again", "relogin", "react", "repjsip", "rerest"}
  BY Kinds DEF FInv, ReloadAgain, LoginAgain, UndoDid, UndoReload, At
<1>2. /\ UNCHANGED <<conf, store, registry, history>>
      /\ running' \in {running, AfterPjsip, AfterAll}
  BY DEF ReloadAgain, LoginAgain, UndoDid, UndoReload, data
<1>3. \E p \in {"answer", "react", "repjsip", "rerest"} : Set(t, To(t, p)) \/ Set(t, Tell(t))
  BY DEF ReloadAgain, LoginAgain, UndoDid, UndoReload
<1>4. PICK p \in {"answer", "react", "repjsip", "rerest"} : Set(t, To(t, p)) \/ Set(t, Tell(t))
  BY <1>3
<1>. DEFINE s == To(t, p)
            f == Tell(t)
<1>5. Same(th[t], s) /\ s.pc = p /\ s.ok = th[t].ok
  BY <1>1 DEF Whole, Twelve, Same, To
<1>6. Same(th[t], f) /\ f.pc = "answer" /\ f.ok = th[t].ok
  BY <1>1 DEF Whole, Twelve, Same, To, Tell
<1>7. Set(t, s) \/ Set(t, f)
  BY <1>4
<1>. HIDE DEF s, f
<1>. QED
  BY <1>1, <1>2, <1>4, <1>5, <1>6, <1>7, GoesBack

----------------------------------------------------------------------------
(* A handler up to what it publishes.                                      *)

\* A step that leaves files, store and catalog alone.
LEMMA Prepares ==
  ASSUME FInv, NEW t \in Threads, NEW s, Set(t, s), th[t].op.kind \in ExtensionKinds,
         s.op = th[t].op, s.undo = th[t].undo, s.ok = th[t].ok,
         th[t].pc \in {"load", "render"}, s.pc \in {"render", "stage"},
         UNCHANGED <<conf, running, store, registry, history>>,
         Quiet /\ Progress(th[t], conf, running, store, registry, history) =>
           Current(s, store, registry)
  PROVE  Structure' /\ FilesOK'
<1>1. Active(t) /\ th[t].op.kind # "remove" /\ th[t].op.kind \notin TenantKinds
      /\ th[t].op.kind # "provision"
  BY DEF Active, ExtensionKinds, TenantKinds
<1>2. ASSUME Quiet, Progress(th[t], conf, running, store, registry, history)
      PROVE  Progress(s, conf', running', store', registry', history')
  <2>1. Writing(s, conf) /\ Loaded(s, conf, running)
    BY <1>2 DEF Progress, Writing, Wrote, Loaded
  <2>2. Current(s, store, registry)
    BY <1>2
  <2>3. Base(th[t], conf, store, registry, history) => Base(s, conf, store, registry, history)
    BY <1>1 DEF Base, Before
  <2>4. Recoverable(s, conf, store, registry, history)
    BY <1>1, <1>2, <2>3 DEF Progress, Recoverable, Finished, Wrote
  <2>. QED
    BY <2>1, <2>2, <2>4 DEF Progress
<1>. QED
  BY <1>1, <1>2, Advance, StructureStays

\* The reading of the store.
LEMMA LoadStoreFiles ==
  ASSUME FInv, NEW t \in Threads, LoadStore(t)
  PROVE  Structure' /\ FilesOK'
<1>. DEFINE s == [To(t, "render") EXCEPT !.exts = store]
<1>1. Whole(th[t]) /\ th[t].pc = "load" /\ th[t].op.kind \in ExtensionKinds
  BY Kinds DEF FInv, LoadStore, At, Placed, ForExtensions
<1>2. s.op = th[t].op /\ s.undo = th[t].undo /\ s.ok = th[t].ok /\ s.pc = "render" /\ s.exts = store
  BY <1>1 DEF Whole, Twelve, To
<1>3. Set(t, s) /\ UNCHANGED <<conf, running, store, registry, history>>
  BY DEF LoadStore, data
<1>. HIDE DEF s
<1>4. Progress(th[t], conf, running, store, registry, history) => Current(s, store, registry)
  BY <1>1, <1>2 DEF Progress, Current, HandlerWay, Wrote
<1>. QED
  BY <1>1, <1>2, <1>3, <1>4, Prepares

\* The gate in front of the files.
LEMMA RenderFiles ==
  ASSUME FInv, NEW t \in Threads, Render(t)
  PROVE  Structure' /\ FilesOK'
<1>. DEFINE known == KnownTenants(registry)
            s == [To(t, "stage") EXCEPT !.known = known]
            f == Failed(t, "answer")
<1>1. Active(t) /\ Whole(th[t]) /\ th[t].pc = "render" /\ th[t].op.kind \in ExtensionKinds
  BY Kinds DEF FInv, Render, At, Placed, ForExtensions, Active
<1>2. /\ s.op = th[t].op /\ s.undo = th[t].undo /\ s.ok = th[t].ok /\ s.pc = "stage"
      /\ s.exts = th[t].exts /\ s.known = known
  BY <1>1 DEF Whole, Twelve, To
<1>3. Same(th[t], f) /\ f.pc = "answer" /\ ~f.ok
  BY <1>1 DEF Whole, Twelve, Same, Failed
<1>4. (Set(t, s) /\ Publishable(th[t].exts, known)) \/ Set(t, f)
  BY DEF Render
<1>5. UNCHANGED <<conf, running, store, registry, history>>
  BY DEF Render, data
<1>. HIDE DEF s, f
<1>6. CASE Set(t, s) /\ Publishable(th[t].exts, known)
  <2>1. Progress(th[t], conf, running, store, registry, history) => Current(s, store, registry)
    BY <1>1, <1>2, <1>6 DEF Progress, Current, HandlerWay, Wrote
  <2>. QED
    BY <1>1, <1>2, <1>5, <1>6, <2>1, Prepares
<1>7. CASE Set(t, f)
  <2>1. Onward(th[t], f) /\ Loaded(f, conf, running')
    BY <1>1, <1>3 DEF Onward, Loaded, Same, Wrote, Finished, Early, HandlerWay
  <2>. QED
    BY <1>1, <1>3, <1>5, <1>7, <2>1, Goes DEF Same
<1>. QED
  BY <1>4, <1>6, <1>7

\* What has happened since may only excuse more.
LEMMA Later ==
  ASSUME NEW r, NEW c, NEW run, NEW st, NEW reg, NEW h, NEW k, h \subseteq k
  PROVE  /\ Settled(c, st, reg, h) => Settled(c, st, reg, k)
         /\ Progress(r, c, run, st, reg, h) => Progress(r, c, run, st, reg, k)
<1>1. Settled(c, st, reg, h) => Settled(c, st, reg, k)
  BY Monotone DEF Settled
<1>2. Base(r, c, st, reg, h) => Base(r, c, st, reg, k)
  BY Monotone DEF Base, Before
<1>3. Recoverable(r, c, st, reg, h) => Recoverable(r, c, st, reg, k)
  BY <1>2, Monotone DEF Recoverable
<1>. QED
  BY <1>1, <1>3 DEF Progress

\* A thread that is done, or waits for the wizard, has left the files as they should be.
LEMMA Rests ==
  ASSUME FInv, NEW t \in Threads, NEW s, Set(t, s), s.pc = "idle" \/ (s.pc = "lock" /\ s.undo = <<>>),
         s.pc = "lock" => s.op.kind \notin ExtensionKinds,
         Quiet' /\ s.pc = "lock" => \A u \in Threads : ~Handling(u),
         history \subseteq history', UNCHANGED <<conf, running, store, registry>>,
         Quiet' /\ Active(t) => Settled(conf, store, registry, history')
  PROVE  Structure' /\ FilesOK'
<1>1. th'[t] = s /\ \A u \in Threads \ {t} : th'[u] = th[u]
  BY Given DEF Set, FInv, IInv, TypeOK
<1>2. Structure'
  BY StructureStays
<1>3. ASSUME Quiet' PROVE FilesOK'
  <2>1. Quiet
    BY <1>3 DEF Quiet, Never
  <2>2. \A u \in Threads \ {t} : (Active(u)' <=> Active(u)) /\ (Handling(u)' <=> Handling(u))
    BY <1>1 DEF Active, Handling, Op
  <2>3. ~Active(t)' /\ ~Handling(t)'
    BY <1>1 DEF Active, Handling, Op
  <2>4. \A u \in Threads : Handling(u)' => \A v \in Threads \ {u} : th'[v].pc = "idle"
    BY <1>1, <1>3, <2>1, <2>2, <2>3 DEF FInv, FilesOK
  <2>5. \A u \in Threads \ {t} : Active(u) =>
          Progress(th'[u], conf', running', store', registry', history')
    BY <1>1, <2>1, Later DEF FInv, FilesOK
  <2>6. Active(t) => Settled(conf', store', registry', history')
    BY <1>3
  <2>7. (\A u \in Threads : ~Active(u)) => Settled(conf', store', registry', history')
    BY <2>1, Later DEF FInv, FilesOK
  <2>. QED
    BY <2>2, <2>3, <2>4, <2>5, <2>6, <2>7 DEF FilesOK
<1>. QED
  BY <1>2, <1>3 DEF FilesOK

\* Before anything is written the files are the ones to go back to.
LEMMA Untouched ==
  ASSUME NEW r, NEW c, NEW st, NEW reg, NEW h, r.undo = <<>>, c = [f \in Files |-> c[f]]
  PROVE  Base(r, c, st, reg, h) <=> Home(c, KnownTenants(reg)) /\ Before(r, c, st, h)
<1>1. Undoes(c, c, <<>>)
  BY DEF Undoes, Changed
<1>. QED
  BY <1>1, NothingUndone DEF Base

\* add, update and delete_extension.
LEMMA SaveExtensionFiles ==
  ASSUME FInv, NEW t \in Threads, SaveExtension(t)
  PROVE  Structure' /\ FilesOK'
<1>. DEFINE acts == MappingActs(t)
            s == [To(t, "load") EXCEPT !.acts = acts]
<1>1. Active(t) /\ Whole(th[t]) /\ th[t].pc = "save" /\ th[t].op.kind \in ExtensionKinds
  BY Kinds DEF FInv, SaveExtension, At, Placed, ForExtensions, Active
<1>2. s.op = th[t].op /\ s.undo = th[t].undo /\ s.ok = th[t].ok /\ s.pc = "load"
  BY <1>1 DEF Whole, Twelve, To
<1>3. Set(t, s) \/ (Set(t, Idle) /\ store' = store)
  BY DEF SaveExtension
<1>4. UNCHANGED <<conf, running, registry, history>>
  BY DEF SaveExtension
<1>5. th[t].op.kind # "remove" /\ th[t].op.kind \notin TenantKinds /\ th[t].op.kind # "provision"
  BY <1>1 DEF ExtensionKinds, TenantKinds
<1>. HIDE DEF acts, s
<1>6. CASE Set(t, s)
  <2>1. ASSUME Quiet, Progress(th[t], conf, running, store, registry, history)
        PROVE  Progress(s, conf', running', store', registry', history')
    <3>1. Writing(s, conf) /\ Loaded(s, conf, running) /\ Current(s, store', registry)
      BY <1>1, <1>2, <2>1 DEF Progress, Writing, Wrote, Loaded, Current, HandlerWay
    <3>2. Base(th[t], conf, store, registry, history) => Base(s, conf, store', registry, history)
      BY <1>2, <1>5 DEF Base, Before
    <3>3. Recoverable(s, conf, store', registry, history)
      BY <1>1, <1>2, <1>5, <2>1, <3>2 DEF Progress, Recoverable, Finished, Wrote, Early
    <3>. QED
      BY <1>4, <3>1, <3>3 DEF Progress
  <2>. QED
    BY <1>1, <1>2, <1>4, <1>6, <2>1, Advance, StructureStays
<1>7. CASE Set(t, Idle) /\ store' = store
  <2>1. ASSUME Quiet PROVE Settled(conf, store, registry, history)
    <3>1. SUFFICES ASSUME Unhurt(history) PROVE Settled(conf, store, registry, history)
      BY DEF Settled
    <3>2. Progress(th[t], conf, running, store, registry, history)
      BY <1>1, <2>1 DEF FInv, FilesOK
    <3>3. th[t].undo = <<>> /\ OneEach(registry) /\ Base(th[t], conf, store, registry, history)
      BY <1>1, <1>5, <3>1, <3>2 DEF Progress, Writing, Recoverable, Finished
    <3>4. Home(conf, KnownTenants(registry)) /\ Before(th[t], conf, store, history)
      BY <3>3, Untouched DEF FInv, Structure
    <3>. QED
      BY <1>1, <3>3, <3>4 DEF Settled, Before
  <2>2. Idle.pc = "idle"
    BY DEF Idle
  <2>3. Quiet' => Quiet
    BY <1>4 DEF Quiet, Never
  <2>. QED
    BY <1>4, <1>7, <2>1, <2>2, <2>3, Rests
<1>. QED
  BY <1>3, <1>6, <1>7

\* A request arrives; one of an extension while another is in progress is an overlap.
LEMMA ReceiveFiles ==
  ASSUME FInv, NEW t \in Threads, Receive(t)
  PROVE  Structure' /\ FilesOK'
<1>1. PICK op \in Requests :
        /\ At(t, "idle")
        /\ Set(t, [Idle EXCEPT !.op = op, !.pc =
                     CASE op.kind = "create" -> "known"
                       [] op.kind \in {"update", "delete"} -> "previous"
                       [] OTHER -> "lock"])
        /\ Note({"overlap" : u \in {u \in Busy : {op.kind, Op(u).kind} \cap ExtensionKinds # {}}})
        /\ UNCHANGED <<conf, running, store, registry>>
  BY DEF Receive, data
<1>. DEFINE p == CASE op.kind = "create" -> "known"
                   [] op.kind \in {"update", "delete"} -> "previous"
                   [] OTHER -> "lock"
            s == [Idle EXCEPT !.op = op, !.pc = p]
<1>2. s.pc = p /\ s.op = op /\ s.undo = <<>> /\ s.ok
  BY DEF Idle
<1>3. /\ op.kind \in ExtensionKinds => p \in {"known", "previous"}
      /\ op.kind \notin ExtensionKinds => p = "lock"
  BY DEF ExtensionKinds
<1>4. Set(t, s) /\ ~Active(t) /\ th[t].pc = "idle" /\ history \subseteq history'
  BY <1>1 DEF At, Active, Note
<1>. HIDE DEF p, s
<1>5. th'[t] = s /\ \A u \in Threads \ {t} : th'[u] = th[u]
  BY <1>4, Given DEF Set, FInv, IInv, TypeOK
<1>6. Quiet' => Quiet /\ \A u \in Busy : op.kind \notin ExtensionKinds /\ Op(u).kind \notin ExtensionKinds
  BY <1>1 DEF Quiet, Never, Note
<1>7. Quiet' => \A u \in Threads : ~Handling(u)
  BY <1>6 DEF Busy, At, Handling
<1>8. CASE op.kind \notin ExtensionKinds
  BY <1>1, <1>2, <1>3, <1>4, <1>7, <1>8, Rests
<1>9. CASE op.kind \in ExtensionKinds
  <2>1. op.kind # "remove" /\ op.kind \notin TenantKinds /\ op.kind # "provision"
    BY <1>9 DEF ExtensionKinds, TenantKinds
  <2>2. Structure'
    <3>1. \A u \in Threads : AtWork(u)' => AtWork(u) /\ Op(u)' = Op(u)
      BY <1>2, <1>5, <2>1 DEF AtWork, Op
    <3>. QED
      BY <1>1, <1>2, <1>3, <1>5, <1>9, <3>1 DEF FInv, Structure, Rec
  <2>3. ASSUME Quiet' PROVE FilesOK'
    <3>1. \A u \in Threads : th[u].pc = "idle"
      BY <1>6, <1>9, <2>3 DEF Busy, At
    <3>2. Settled(conf, store, registry, history)
      BY <1>6, <2>3, <3>1 DEF FInv, FilesOK, Active
    <3>3. Settled(conf, store, registry, history')
      BY <1>4, <3>2, Later
    <3>4. Changes(<<>>)
      BY DEF Changes
    <3>5. Writing(s, conf) /\ Loaded(s, conf, running) /\ Current(s, store, registry)
      BY <1>2, <1>3, <1>9, <3>4 DEF Writing, Wrote, Loaded, Current, HandlerWay
    <3>6. Unhurt(history') => Base(s, conf, store, registry, history')
      BY <1>2, <2>1, <3>3, Untouched DEF Settled, Before, FInv, Structure
    <3>7. Recoverable(s, conf, store, registry, history')
      BY <1>2, <1>3, <1>9, <2>1, <3>3, <3>6 DEF Settled, Recoverable, Finished, Early
    <3>8. Progress(s, conf', running', store', registry', history')
      BY <1>1, <3>5, <3>7 DEF Progress
    <3>9. \A u \in Threads \ {t} : th'[u].pc = "idle"
      BY <1>5, <3>1
    <3>10. Active(t)'
      BY <1>2, <1>3, <1>5, <1>9 DEF Active
    <3>. QED
      BY <1>5, <3>8, <3>9, <3>10 DEF FilesOK, Active, Handling
  <2>. QED
    BY <2>2, <2>3 DEF FilesOK
<1>. QED
  BY <1>8, <1>9

\* A restart.
LEMMA CrashFiles ==
  ASSUME FInv, Crash
  PROVE  Structure' /\ FilesOK'
<1>1. "crash" \in history' /\ UNCHANGED <<conf, running, registry>>
  BY DEF Crash, Note, data
<1>2. \A t \in Threads : th'[t].pc = "idle"
  BY DEF Crash, Idle
<1>3. Structure'
  BY <1>1, <1>2 DEF FInv, Structure, AtWork
<1>. QED
  BY <1>1, <1>3 DEF FilesOK, Quiet, Never

\* The files of no extension and of the tenants that are there by hand.
LEMMA InitFiles == Init => FInv
<1>. SUFFICES ASSUME Init PROVE FInv
  OBVIOUS
<1>1. \A t \in Threads : th[t].pc = "idle"
  BY DEF Init, Idle
<1>2. IsFiniteSet(registry) /\ registry \subseteq TenantRecord
  BY FS_EmptySet DEF Init
<1>3. Structure
  BY <1>1, <1>2 DEF Init, Structure, AtWork
<1>. DEFINE none == RenderAll({}, StaticTenants)
            files == [f \in Files |-> IF f \in DynamicFiles(StaticTenants) THEN none[f] ELSE Absent]
<1>4. conf = files /\ KnownTenants(registry) = StaticTenants /\ store = {}
  BY DEF Init, KnownTenants
<1>5. StaticTenants \subseteq Tenants /\ \A w \in WizardTenants : w \in Tenants /\ w \notin StaticTenants
  BY ConfAssumption DEF Tenants
<1>6. /\ none[Pjsip] = RenderPjsip({})
      /\ \A u \in StaticTenants : none[Dynamic(u)] = RenderDynamic(OfTenant({}, u))
  BY Rendered
<1>. HIDE DEF none
<1>7. \A f \in DynamicFiles(StaticTenants) : files[f] = none[f]
  BY <1>5 DEF Files, DynamicFiles
<1>8. \A w \in WizardTenants : Infra(w) \notin DynamicFiles(StaticTenants)
                               /\ Dynamic(w) \notin DynamicFiles(StaticTenants)
  BY <1>5, FileNames DEF DynamicFiles
<1>9. \A w \in WizardTenants : files[Infra(w)] = Absent /\ files[Dynamic(w)] = Absent
  BY <1>5, <1>8 DEF Files, DynamicFiles
<1>. HIDE DEF files
<1>10. files[Pjsip] = RenderPjsip({}) /\ \A u \in StaticTenants : files[Dynamic(u)] = RenderDynamic(OfTenant({}, u))
  BY <1>6, <1>7 DEF DynamicFiles
<1>11. Published(files) = {}
  BY <1>10, ReadBack
<1>12. Home(files, StaticTenants)
  BY <1>5, <1>9, <1>10, <1>11, Agreement DEF Home
<1>13. Settled(conf, store, registry, history)
  BY <1>4, <1>11, <1>12 DEF Settled, OneEach, Init
<1>. QED
  BY <1>1, <1>3, <1>13, InitOK DEF FInv, FilesOK, Active, Handling

----------------------------------------------------------------------------
(* Changes ahead and changes made.                                         *)

\* A finite set put in sequence: each of its elements once.
LEMMA EachOnce ==
  ASSUME NEW S, IsFiniteSet(S), NEW q, q = SetToSeq(S)
  PROVE  /\ q \in Seq(S) /\ {q[i] : i \in DOMAIN q} = S
         /\ \A i, j \in DOMAIN q : q[i] = q[j] => i = j
<1>. DEFINE n == Cardinality(S)
<1>1. n \in Nat /\ ExistsBijection(1..n, S)
  BY FS_CardinalityType
<1>2. \E f \in [1..n -> S] : IsInjective(f)
  BY <1>1 DEF ExistsBijection, Bijection, Injection, IsInjective
<1>3. q \in [1..n -> S] /\ IsInjective(q)
  BY <1>2 DEF SetToSeq
<1>. HIDE DEF n
<1>4. q \in Injection(1..n, S)
  BY <1>3 DEF Injection, IsInjective
<1>5. IsFiniteSet(1..n) /\ Cardinality(1..n) = n
  <2>1. 1 \in Int /\ n \in Int
    BY <1>1
  <2>2. IsFiniteSet(1..n) /\ Cardinality(1..n) = IF 1 > n THEN 0 ELSE n - 1 + 1
    BY <2>1, FS_Interval
  <2>. QED
    BY <1>1, <2>2
<1>6. q \in Surjection(1..n, S)
  BY <1>4, <1>5, FS_Injection DEF n
<1>7. {q[i] : i \in DOMAIN q} = S
  BY <1>3, <1>6 DEF Surjection
<1>. QED
  BY <1>1, <1>3, <1>7 DEF IsInjective

\* What is prepared: changes of the files S to their contents in g from those in c.
Staged(S, g, c) ==
  [i \in DOMAIN SetToSeq(S) |->
     [file |-> SetToSeq(S)[i], new |-> g[SetToSeq(S)[i]], old |-> c[SetToSeq(S)[i]]]]

\* Prepared changes are ahead: one per file, from what the files contain.
LEMMA Prepared ==
  ASSUME NEW S, IsFiniteSet(S), S # {}, NEW g, NEW new, S \subseteq DOMAIN new,
         \A f \in S : g[f] = new[f], NEW c, NEW q, q = Staged(S, g, c)
  PROVE  Ahead(q, c, new) /\ Changed(q) = S /\ q # <<>>
<1>. DEFINE files == SetToSeq(S)
<1>1. /\ files \in Seq(S) /\ {files[i] : i \in DOMAIN files} = S
      /\ \A i, j \in DOMAIN files : files[i] = files[j] => i = j
  BY EachOnce
<1>shape. q = [i \in DOMAIN files |-> q[i]]
  BY DEF Staged
<1>2. /\ DOMAIN q = DOMAIN files
      /\ \A i \in DOMAIN files : q[i] = [file |-> files[i], new |-> g[files[i]], old |-> c[files[i]]]
  BY DEF Staged
<1>. HIDE DEF files
<1>3. DOMAIN files = 1 .. Len(files) /\ Len(files) \in Nat
  BY <1>1
<1>4. q \in Seq({q[i] : i \in DOMAIN q})
  <2>1. q = [i \in 1 .. Len(files) |-> q[i]]
    BY <1>shape, <1>3
  <2>. QED
    BY <1>2, <1>3, <2>1
<1>fields. \A i \in DOMAIN q : /\ files[i] \in S /\ q[i].file = files[i]
                         /\ q[i].new = g[files[i]] /\ q[i].old = c[files[i]]
  <2>. TAKE i \in DOMAIN q
  <2>1. files[i] \in S
    BY <1>1, <1>2
  <2>. QED
    BY <1>2, <2>1
<1>5. Changed(q) = S
  BY <1>1, <1>2, <1>fields DEF Changed
<1>6. q # <<>>
  BY <1>5 DEF Changed
<1>7. \A i \in DOMAIN q : q[i].file \in S /\ q[i].new = new[q[i].file] /\ q[i].old = c[q[i].file]
  BY <1>fields
<1>8. \A i, j \in DOMAIN q : q[i].file = q[j].file => i = j
  BY <1>1, <1>2, <1>fields
<1>. QED
  BY <1>4, <1>5, <1>6, <1>7, <1>8 DEF Ahead, Changes

\* A sequence of changes without its first, and with one more in front.
LEMMA FirstAway ==
  ASSUME NEW q, Changes(q), q # <<>>
  PROVE  /\ Changes(Tail(q)) /\ Len(q) \in Nat \ {0} /\ DOMAIN q = 1 .. Len(q)
         /\ Head(q) = q[1] /\ 1 \in DOMAIN q
         /\ DOMAIN Tail(q) = 1 .. Len(q) - 1
         /\ \A i \in DOMAIN Tail(q) : i + 1 \in DOMAIN q /\ Tail(q)[i] = q[i + 1]
         /\ Changed(q) = {Head(q).file} \cup Changed(Tail(q))
<1>. DEFINE S == {q[i] : i \in DOMAIN q}
            w == Tail(q)
<1>1. q \in Seq(S)
  BY DEF Changes
<1>. HIDE DEF S
<1>2. Len(q) \in Nat \ {0} /\ DOMAIN q = 1 .. Len(q) /\ Head(q) = q[1]
  BY <1>1
<1>3. w \in Seq(S) /\ Len(w) = Len(q) - 1 /\ \A i \in 1 .. Len(w) : w[i] = q[i + 1]
  BY <1>1, HeadTailProperties
<1>4. DOMAIN w = 1 .. Len(w) /\ w \in [1 .. Len(w) -> S]
  BY <1>3, LenProperties
<1>. HIDE DEF w
<1>5. w \in Seq({w[i] : i \in DOMAIN w})
  <2>1. w = [i \in 1 .. Len(w) |-> w[i]] /\ Len(w) \in Nat
    BY <1>2, <1>3, <1>4
  <2>. QED
    BY <1>4, <2>1
<1>6. \A i \in DOMAIN w : i + 1 \in DOMAIN q /\ w[i] = q[i + 1]
  BY <1>2, <1>3, <1>4
<1>7. \A j \in DOMAIN q : j = 1 \/ (j - 1 \in DOMAIN w /\ q[j] = w[j - 1])
  BY <1>2, <1>3, <1>4
<1>8. Changed(q) = {Head(q).file} \cup Changed(w)
  BY <1>2, <1>6, <1>7 DEF Changed
<1>9. Changes(w)
  BY <1>5 DEF Changes
<1>. QED
  BY <1>2, <1>3, <1>4, <1>6, <1>8, <1>9 DEF w

\* One more change in front of the others.
More(w, c, u) == w = <<c>> \o u

\* One more change in front of those made.
LEMMA OneMore ==
  ASSUME NEW u, Changes(u), NEW c, NEW w, More(w, c, u)
  PROVE  /\ Changes(w) /\ Changed(w) = {c.file} \cup Changed(u)
         /\ \A i \in DOMAIN w : w[i] = c \/ \E j \in DOMAIN u : w[i] = u[j]
<1>. DEFINE S == {u[i] : i \in DOMAIN u} \cup {c}
<1>1. u \in Seq({u[i] : i \in DOMAIN u})
  BY DEF Changes
<1>2. u \in Seq(S) /\ <<c>> \in Seq(S)
  BY <1>1, SeqMonotonic
<1>. HIDE DEF S
<1>3. /\ w \in Seq(S) /\ Len(w) = 1 + Len(u)
      /\ \A i \in 1 .. 1 + Len(u) : w[i] = IF i <= 1 THEN c ELSE u[i - 1]
  BY <1>2, ConcatProperties DEF More
<1>4. DOMAIN w = 1 .. Len(w) /\ Len(w) \in Nat /\ w \in [1 .. Len(w) -> S]
      /\ DOMAIN u = 1 .. Len(u) /\ Len(u) \in Nat
  BY <1>2, <1>3, LenProperties
<1>5. w \in Seq({w[i] : i \in DOMAIN w})
  <2>1. w = [i \in 1 .. Len(w) |-> w[i]]
    BY <1>4
  <2>. QED
    BY <1>4, <2>1
<1>6. \A i \in DOMAIN w : w[i] = c \/ \E j \in DOMAIN u : w[i] = u[j]
  BY <1>3, <1>4
<1>7. \A j \in DOMAIN u : j + 1 \in DOMAIN w /\ w[j + 1] = u[j]
  BY <1>3, <1>4
<1>8. 1 \in DOMAIN w /\ w[1] = c
  BY <1>3, <1>4
<1>9. Changed(w) = {c.file} \cup Changed(u)
  BY <1>6, <1>7, <1>8 DEF Changed
<1>10. Changes(w)
  BY <1>5 DEF Changes
<1>. QED
  BY <1>6, <1>9, <1>10

\* A change is made.
Made(d, c, x) == d = [c EXCEPT ![x.file] = x.new]
Filed(c) == c = [f \in Files |-> c[f]]
Amid(q, u, c, new) ==
  /\ Ahead(q, c, new) /\ q # <<>> /\ Behind(u, c, new)
  /\ Changed(q) \cap Changed(u) = {} /\ Filed(c) /\ DOMAIN new \subseteq Files
\* The first change ahead is written and becomes one to undo.
LEMMA WriteOne ==
  ASSUME NEW q, NEW u, NEW c, NEW new, Amid(q, u, c, new),
         NEW d, Made(d, c, Head(q)),
         NEW w, More(w, Head(q), u)
  PROVE  /\ Ahead(Tail(q), d, new) /\ Behind(w, d, new)
         /\ Changed(Tail(q)) = Changed(q) \ {Head(q).file} /\ Changed(w) = Changed(u) \cup {Head(q).file}
         /\ Head(q).file \in Changed(q)
         /\ \A b : Undoes(b, c, u) => Undoes(b, d, w)
<1>start. /\ Ahead(q, c, new) /\ q # <<>> /\ Behind(u, c, new)
      /\ Changed(q) \cap Changed(u) = {} /\ Filed(c) /\ DOMAIN new \subseteq Files
  BY DEF Amid
<1>. DEFINE x == Head(q)
<1>1. /\ Changes(Tail(q)) /\ Len(q) \in Nat \ {0} /\ DOMAIN q = 1 .. Len(q)
      /\ x = q[1] /\ 1 \in DOMAIN q
      /\ DOMAIN Tail(q) = 1 .. Len(q) - 1
      /\ \A i \in DOMAIN Tail(q) : i + 1 \in DOMAIN q /\ Tail(q)[i] = q[i + 1]
      /\ Changed(q) = {x.file} \cup Changed(Tail(q))
  BY <1>start, FirstAway DEF Ahead
<1>more. More(w, x, u) /\ Changes(u)
  BY <1>start DEF Behind
<1>3. x.new = new[x.file] /\ x.old = c[x.file] /\ x.file \in Changed(q)
  BY <1>start, <1>1 DEF Ahead
<1>. HIDE DEF x
<1>2. /\ Changes(w) /\ Changed(w) = {x.file} \cup Changed(u)
      /\ \A i \in DOMAIN w : w[i] = x \/ \E j \in DOMAIN u : w[i] = u[j]
  BY <1>more, OneMore
<1>4. \A i \in DOMAIN Tail(q) : Tail(q)[i].file # x.file
  BY <1>start, <1>1 DEF Ahead
<1>5. Changed(Tail(q)) = Changed(q) \ {x.file}
  BY <1>start, <1>1, <1>4 DEF Changed
<1>6. d = [f \in Files |-> d[f]] /\ \A f \in Files : d[f] = IF f = x.file THEN x.new ELSE c[f]
  BY <1>start DEF x, Made, Filed
<1>7. Ahead(Tail(q), d, new)
  <2>1. Changed(Tail(q)) \subseteq DOMAIN new
    BY <1>start, <1>5 DEF Ahead
  <2>2. \A i \in DOMAIN Tail(q) : Tail(q)[i].file \in Changed(q)
    BY <1>start, <1>1 DEF Changed
  <2>3. \A i \in DOMAIN Tail(q) : Tail(q)[i].new = new[Tail(q)[i].file] /\ Tail(q)[i].old = d[Tail(q)[i].file]
    BY <1>start, <1>1, <1>4, <1>6, <2>2 DEF Ahead
  <2>4. \A i, j \in DOMAIN Tail(q) : Tail(q)[i].file = Tail(q)[j].file => i = j
    <3>. TAKE i, j \in DOMAIN Tail(q)
    <3>1. Tail(q)[i].file = Tail(q)[j].file => i + 1 = j + 1
      BY <1>start, <1>1 DEF Ahead
    <3>. QED
      BY <1>start, <1>1, <3>1
  <2>. QED
    BY <1>start, <1>1, <2>1, <2>3, <2>4 DEF Ahead
<1>8. Behind(w, d, new)
  <2>1. Changed(w) \subseteq DOMAIN new
    BY <1>start, <1>2, <1>3 DEF Behind, Ahead
  <2>2. \A f \in Changed(w) : d[f] = new[f]
    BY <1>start, <1>2, <1>3, <1>6, <2>1 DEF Behind
  <2>. QED
    BY <1>start, <1>2, <2>1, <2>2 DEF Behind
<1>9. ASSUME NEW b, Undoes(b, c, u) PROVE Undoes(b, d, w)
  <2>1. b[x.file] = x.old
    BY <1>start, <1>3, <1>9 DEF Undoes, Ahead
  <2>2. \A i \in DOMAIN w : b[w[i].file] = w[i].old
    BY <1>start, <1>2, <1>9, <2>1 DEF Undoes
  <2>3. \A f \in Files \ Changed(w) : b[f] = d[f]
    BY <1>start, <1>2, <1>6, <1>9 DEF Undoes
  <2>. QED
    BY <1>9, <2>2, <2>3 DEF Undoes
<1>. QED
  BY <1>start, <1>2, <1>3, <1>5, <1>7, <1>8, <1>9 DEF x

\* A change is undone.
LEMMA UndoOne ==
  ASSUME NEW u, Changes(u), u # <<>>, NEW c, c = [f \in Files |-> c[f]],
         NEW b, Undoes(b, c, u), NEW d, d = [c EXCEPT ![Head(u).file] = Head(u).old]
  PROVE  Changes(Tail(u)) /\ Undoes(b, d, Tail(u))
<1>. DEFINE x == Head(u)
<1>1. /\ Changes(Tail(u)) /\ x = u[1] /\ 1 \in DOMAIN u
      /\ \A i \in DOMAIN Tail(u) : i + 1 \in DOMAIN u /\ Tail(u)[i] = u[i + 1]
      /\ Changed(u) = {x.file} \cup Changed(Tail(u))
  BY FirstAway
<1>. HIDE DEF x
<1>2. b[x.file] = x.old
  BY <1>1 DEF Undoes
<1>3. \A f \in Files : d[f] = IF f = x.file THEN x.old ELSE c[f]
  BY DEF x
<1>4. \A i \in DOMAIN Tail(u) : b[Tail(u)[i].file] = Tail(u)[i].old
  BY <1>1 DEF Undoes
<1>5. \A f \in Files \ Changed(Tail(u)) : b[f] = d[f]
  BY <1>1, <1>2, <1>3 DEF Undoes
<1>. QED
  BY <1>1, <1>4, <1>5 DEF Undoes

\* There are finitely many tenants, and their files are files.
LEMMA KnownFinite ==
  ASSUME NEW reg, reg \subseteq TenantRecord, IsFiniteSet(reg)
  PROVE  /\ KnownTenants(reg) \subseteq Tenants /\ IsFiniteSet(DynamicFiles(KnownTenants(reg)))
         /\ DynamicFiles(KnownTenants(reg)) \subseteq Files
<1>. DEFINE known == KnownTenants(reg)
<1>1. known \subseteq Tenants
  BY DEF KnownTenants, TenantRecord, Tenants
<1>2. IsFiniteSet({r.id : r \in reg})
  <2>. DEFINE f == [r \in reg |-> r.id]
  <2>1. f \in Surjection(reg, {r.id : r \in reg})
    BY DEF Surjection
  <2>. QED
    BY <2>1, FS_Surjection
<1>3. IsFiniteSet(known)
  BY <1>2, ConfAssumption, FS_Union DEF KnownTenants
<1>. HIDE DEF known
<1>4. IsFiniteSet({Dynamic(t) : t \in known})
  <2>. DEFINE f == [t \in known |-> Dynamic(t)]
  <2>1. f \in Surjection(known, {Dynamic(t) : t \in known})
    BY DEF Surjection
  <2>. QED
    BY <1>3, <2>1, FS_Surjection
<1>5. IsFiniteSet(DynamicFiles(known))
  BY <1>4, FS_Singleton, FS_Union DEF DynamicFiles
<1>6. DynamicFiles(known) \subseteq Files
  BY <1>1 DEF DynamicFiles, Files
<1>. QED
  BY <1>1, <1>5, <1>6 DEF known

\* What a request publishes are files.
LEMMA BatchFiles ==
  ASSUME FInv, NEW t \in Threads, Active(t), NEW r, r = th[t],
         Op(t).kind \in ExtensionKinds => r.known = KnownTenants(registry)
  PROVE  DOMAIN Batch(r) \subseteq Files
<1>1. AtWork(t) => r.op.tenant \in WizardTenants
  BY DEF FInv, Structure, Rec, Op, TenantRecord
<1>2. CASE Op(t).kind \in ExtensionKinds
  <2>1. DOMAIN Batch(r) = DynamicFiles(KnownTenants(registry))
    BY <1>2, Rendered DEF Batch, Op
  <2>. QED
    BY <2>1, KnownFinite DEF FInv, Structure
<1>3. CASE Op(t).kind \in TenantKinds
  <2>1. AtWork(t) /\ Op(t) = r.op /\ r.op.kind \notin ExtensionKinds
    BY <1>3, AtWorkOr DEF FInv
  <2>2. {Pjsip} \cup TenantFiles(r.op.tenant) \subseteq Files
    BY <1>1, <2>1 DEF Files, DynamicFiles, TenantFiles, Tenants
  <2>3. DOMAIN Batch(r) \subseteq {Pjsip} \cup TenantFiles(r.op.tenant)
    BY <2>1 DEF Batch, TenantContents
  <2>. QED
    BY <2>2, <2>3
<1>. QED
  BY <1>2, <1>3, AtWorkOr DEF FInv

----------------------------------------------------------------------------
(* Files are written.                                                      *)

\* Changes are prepared.
LEMMA StagesProgress ==
  ASSUME NEW r, NEW s, NEW c, NEW run, NEW st, NEW reg, NEW h, Progress(r, c, run, st, reg, h),
         r.pc \in {"stage", "stage2"}, r.op.kind \in ExtensionKinds => r.pc = "stage",
         s.pc = "files", Same(r, s), s.ok = r.ok, Writing(s, c)
  PROVE  Progress(s, c, run, st, reg, h)
<1>1. Current(s, st, reg) /\ Loaded(s, c, run)
  BY DEF Progress, Current, Loaded, Same, HandlerWay, Wrote
<1>2. Base(r, c, st, reg, h) => Base(s, c, st, reg, h)
  BY DEF Base, Before, Same
<1>3. Recoverable(s, c, st, reg, h)
  BY <1>2 DEF Progress, Recoverable, Same, Finished, Wrote, Early
<1>. QED
  BY <1>1, <1>3 DEF Progress

\* published_conf_batch, exclusive_tenant_files and retired_config_files prepare what they write.
LEMMA StageFiles ==
  ASSUME FInv, NEW t \in Threads, Stage(t)
  PROVE  Structure' /\ FilesOK'
<1>1. Active(t) /\ Whole(th[t]) /\ th[t].pc = "stage" /\ Op(t) = th[t].op
  BY Kinds DEF FInv, Stage, At, Active, Op
<1>. DEFINE g == NewContents(t)
            files == SetToSeq(DOMAIN g)
            todo == [i \in DOMAIN files |-> Change(files[i], g[files[i]])]
            s == [To(t, "files") EXCEPT !.todo = todo]
            f == Failed(t, "restore")
<1>2. Same(th[t], s) /\ s.pc = "files" /\ s.ok = th[t].ok /\ s.todo = todo
  BY <1>1 DEF Whole, Twelve, To, Same
<1>3. Same(th[t], f) /\ f.pc = "restore" /\ ~f.ok
  BY <1>1 DEF Whole, Twelve, Same, Failed
<1>4. (Set(t, s) \/ Set(t, f)) /\ UNCHANGED <<conf, running, store, registry, history>>
  BY DEF Stage, data
<1>5. todo = Staged(DOMAIN g, g, conf)
  BY DEF Change, Staged
<1>. HIDE DEF g, files, todo, s, f
<1>6. CASE Set(t, s)
  <2>1. ASSUME Quiet, Progress(th[t], conf, running, store, registry, history)
        PROVE  Progress(s, conf, running, store, registry, history)
    <3>1. Batch(s) = Batch(th[t])
      BY <1>2 DEF Same, Batch, Left
    <3>2. /\ IsFiniteSet(DOMAIN g) /\ DOMAIN g # {} /\ DOMAIN g \subseteq DOMAIN Batch(s)
          /\ \A y \in DOMAIN g : g[y] = Batch(s)[y]
          /\ DOMAIN g = IF Op(t).kind = "remove" THEN TenantFiles(Op(t).tenant) ELSE DOMAIN Batch(s)
      <4>1. IsFiniteSet(TenantFiles(Op(t).tenant))
        <5>1. TenantFiles(Op(t).tenant) = {Infra(Op(t).tenant)} \cup {Dynamic(Op(t).tenant)}
          BY DEF TenantFiles
        <5>2. IsFiniteSet({Infra(Op(t).tenant)}) /\ IsFiniteSet({Dynamic(Op(t).tenant)})
          BY FS_Singleton
        <5>. QED
          BY <5>1, <5>2, FS_Union
      <4>2. CASE Op(t).kind \in ExtensionKinds
        <5>1. g = Batch(s) /\ g = RenderAll(th[t].exts, th[t].known) /\ Op(t).kind # "remove"
          BY <1>1, <3>1, <4>2 DEF g, NewContents, Batch, ExtensionKinds
        <5>2. th[t].known = KnownTenants(registry)
          BY <1>1, <2>1, <4>2 DEF Progress, Current
        <5>3. IsFiniteSet(DynamicFiles(th[t].known))
          BY <5>2, KnownFinite DEF FInv, Structure
        <5>. QED
          BY <5>1, <5>3, Rendered DEF DynamicFiles
      <4>3. CASE Op(t).kind = "provision"
        <5>1. g = Batch(s) /\ g = TenantContents(Op(t).tenant) /\ Op(t).kind # "remove"
          BY <1>1, <3>1, <4>3 DEF g, NewContents, Batch, ExtensionKinds
        <5>2. DOMAIN g = TenantFiles(Op(t).tenant)
          BY <5>1 DEF TenantContents
        <5>. QED
          BY <4>1, <5>1, <5>2 DEF TenantFiles
      <4>4. CASE Op(t).kind = "remove"
        <5>1. g = [y \in TenantFiles(Op(t).tenant) |-> Absent]
          BY <1>1, <4>4 DEF g, NewContents, ExtensionKinds
        <5>2. Batch(s) = [y \in {Pjsip} \cup TenantFiles(Op(t).tenant) |->
                            IF y = Pjsip THEN RenderPjsip(Left(th[t])) ELSE Absent]
          BY <1>1, <3>1, <4>4 DEF Batch, ExtensionKinds
        <5>3. Pjsip \notin TenantFiles(Op(t).tenant)
          BY FileNames DEF TenantFiles
        <5>4. TenantFiles(Op(t).tenant) # {}
          BY DEF TenantFiles
        <5>. QED
          BY <4>1, <4>4, <5>1, <5>2, <5>3, <5>4
      <4>. QED
        BY <1>1, <4>2, <4>3, <4>4, AtWorkOr DEF FInv, TenantKinds
    <3>3. Ahead(todo, conf, Batch(s)) /\ Changed(todo) = DOMAIN g /\ todo # <<>>
      BY <1>5, <3>2, Prepared
    <3>4. s.undo = <<>>
      BY <1>1, <1>2, <2>1 DEF Progress, Writing, Same
    <3>5. Changes(<<>>) /\ Changed(<<>>) = {}
      BY DEF Changes, Changed
    <3>6. Behind(<<>>, conf, Batch(s))
      BY <3>5 DEF Behind
    <3>7. Writing(s, conf)
      BY <1>1, <1>2, <3>2, <3>3, <3>4, <3>5, <3>6 DEF Writing, Wrote, Same
    <3>. QED
      BY <1>1, <1>2, <2>1, <3>7, StagesProgress
  <2>. QED
    BY <1>1, <1>2, <1>4, <1>6, <2>1, Advance, StructureStays DEF Same
<1>7. CASE Set(t, f)
  BY <1>1, <1>3, <1>4, <1>7, Fails
<1>. QED
  BY <1>4, <1>6, <1>7

\* remove_tenant: the endpoints that remain, after the files of the tenant.
LEMMA StagePjsipFiles ==
  ASSUME FInv, NEW t \in Threads, StagePjsip(t)
  PROVE  Structure' /\ FilesOK'
<1>. DEFINE c == Change(Pjsip, RenderPjsip(Remaining(t)))
            s == [To(t, "files") EXCEPT !.todo = <<c>>]
<1>1. /\ Active(t) /\ Whole(th[t]) /\ th[t].pc = "stage2" /\ Op(t) = th[t].op
      /\ Op(t).kind = "remove" /\ Op(t).kind \notin ExtensionKinds
  BY Kinds DEF FInv, StagePjsip, At, Active, Op, Placed, ExtensionKinds
<1>2. Same(th[t], s) /\ s.pc = "files" /\ s.ok = th[t].ok /\ s.todo = <<c>>
  BY <1>1 DEF Whole, Twelve, To, Same
<1>3. Set(t, s) /\ UNCHANGED <<conf, running, store, registry, history>>
  BY DEF StagePjsip, data
<1>4. c.file = Pjsip /\ c.new = RenderPjsip(Remaining(t)) /\ c.old = conf[Pjsip]
  BY DEF Change
<1>. HIDE DEF c, s
<1>5. ASSUME Quiet, Progress(th[t], conf, running, store, registry, history)
      PROVE  Progress(s, conf, running, store, registry, history)
  <2>1. Batch(s) = Batch(th[t]) /\ Left(s) = Remaining(t) /\ s.op.tenant = Op(t).tenant
    BY <1>1, <1>2 DEF Same, Batch, Left, Apart, Remaining
  <2>2. Batch(s) = [y \in {Pjsip} \cup TenantFiles(Op(t).tenant) |->
                      IF y = Pjsip THEN RenderPjsip(Remaining(t)) ELSE Absent]
    BY <1>1, <1>2, <2>1 DEF Batch, ExtensionKinds, Same
  <2>3. <<c>>[1] = c /\ DOMAIN <<c>> = {1} /\ Changes(<<c>>) /\ <<c>> # <<>>
    <3>1. <<c>> \in Seq({c}) /\ DOMAIN <<c>> = {1} /\ <<c>>[1] = c
      OBVIOUS
    <3>2. {<<c>>[i] : i \in DOMAIN <<c>>} = {c}
      BY <3>1
    <3>. QED
      BY <3>1, <3>2 DEF Changes
  <2>4. Changed(<<c>>) = {Pjsip}
    BY <1>4, <2>3 DEF Changed
  <2>5. Ahead(<<c>>, conf, Batch(s))
    BY <1>4, <2>2, <2>3, <2>4 DEF Ahead
  <2>6. Behind(s.undo, conf, Batch(s)) /\ Changed(s.undo) = TenantFiles(Op(t).tenant)
    BY <1>1, <1>2, <1>5, <2>1 DEF Progress, Writing, Same
  <2>7. Pjsip \notin TenantFiles(Op(t).tenant)
    BY FileNames DEF TenantFiles
  <2>8. Writing(s, conf)
    BY <1>1, <1>2, <2>1, <2>3, <2>4, <2>5, <2>6, <2>7 DEF Writing, Wrote, Behind, Same
  <2>. QED
    BY <1>1, <1>2, <1>5, <2>8, StagesProgress
<1>. QED
  BY <1>1, <1>2, <1>3, <1>5, Advance, StructureStays DEF Same

\* A file is written, or fails.
LEMMA WriteFileFiles ==
  ASSUME FInv, NEW t \in Threads, WriteFile(t)
  PROVE  Structure' /\ FilesOK'
<1>. DEFINE q == th[t].todo
            u == th[t].undo
            c == Head(q)
            p == CASE Len(q) > 1 -> "files"
                   [] Len(q) = 1 /\ Op(t).kind = "remove" /\ c.file # Pjsip -> "stage2"
                   [] OTHER -> "login"
            w == <<c>> \o u
            y == Tail(q)
            s == [To(t, p) EXCEPT !.todo = Tail(@), !.undo = <<c>> \o @]
            f == Failed(t, "restore")
            d == [conf EXCEPT ![c.file] = c.new]
<1>1. Active(t) /\ Whole(th[t]) /\ th[t].pc = "files" /\ Op(t) = th[t].op
  BY Kinds DEF FInv, WriteFile, At, Active, Op
<1>2. /\ s.op = th[t].op /\ s.exts = th[t].exts /\ s.known = th[t].known /\ s.ok = th[t].ok
      /\ s.pc = p /\ s.todo = y /\ s.undo = w
  BY <1>1 DEF Whole, Twelve, To
<1>3. Same(th[t], f) /\ f.pc = "restore" /\ ~f.ok
  BY <1>1 DEF Whole, Twelve, Same, Failed
<1>4. (Set(t, s) /\ conf' = d) \/ (Set(t, f) /\ UNCHANGED conf)
  BY DEF WriteFile
<1>5. UNCHANGED <<running, store, registry, history>>
  BY DEF WriteFile
<1>6. p \in {"files", "stage2", "login"}
  OBVIOUS
<1>7. More(w, Head(q), u) /\ y = Tail(q) /\ d = [conf EXCEPT ![Head(q).file] = Head(q).new]
      /\ c = Head(q) /\ q = th[t].todo /\ u = th[t].undo
  BY DEF More
<1>. HIDE DEF q, u, c, p, w, y, s, f, d
<1>8. CASE Set(t, s) /\ conf' = d
  <2>1. ASSUME Quiet, Progress(th[t], conf, running, store, registry, history)
        PROVE  Progress(s, d, running, store, registry, history)
    <3>. DEFINE new == Batch(th[t])
                mine == TenantFiles(Op(t).tenant)
    <3>1. Batch(s) = new /\ s.op = Op(t)
      BY <1>1, <1>2 DEF Batch, Left
    <3>2. DOMAIN new \subseteq Files
      BY <1>1, <2>1, BatchFiles DEF Progress, Current, Op
    <3>3. /\ Ahead(q, conf, new) /\ Behind(u, conf, new) /\ q # <<>> /\ Changed(q) \cap Changed(u) = {}
          /\ Op(t).kind # "remove" => Changed(q) \cup Changed(u) = DOMAIN new
          /\ Op(t).kind = "remove" => \/ Changed(q) \cup Changed(u) = mine
                                      \/ Changed(q) = {Pjsip} /\ Changed(u) = mine
      BY <1>1, <1>7, <2>1 DEF Progress, Writing
    <3>. HIDE DEF new
    <3>tail. /\ Ahead(Tail(q), d, new) /\ Behind(w, d, new)
          /\ Changed(Tail(q)) = Changed(q) \ {Head(q).file}
          /\ Changed(w) = Changed(u) \cup {Head(q).file}
          /\ Head(q).file \in Changed(q)
          /\ \A b : Undoes(b, conf, u) => Undoes(b, d, w)
      <4>1. Filed(conf)
        BY DEF FInv, Structure, Filed
      <4>2. More(w, Head(q), u) /\ Made(d, conf, Head(q))
        BY <1>7 DEF Made
      <4>3. Amid(q, u, conf, new)
        BY <3>2, <3>3, <4>1 DEF Amid
      <4>. QED
        BY <4>2, <4>3, WriteOne
    <3>4. /\ Ahead(y, d, new) /\ Behind(w, d, new)
          /\ Changed(y) = Changed(q) \ {c.file} /\ Changed(w) = Changed(u) \cup {c.file}
          /\ c.file \in Changed(q)
          /\ \A b : Undoes(b, conf, u) => Undoes(b, d, w)
      BY <1>7, <3>tail
    <3>5. Len(q) \in Nat \ {0} /\ DOMAIN q = 1 .. Len(q) /\ DOMAIN y = 1 .. Len(q) - 1
      BY <1>7, <3>3, FirstAway DEF Ahead
    <3>6. Len(q) = 1 => Changed(y) = {}
      BY <3>5 DEF Changed
    <3>7. Len(q) > 1 => y # <<>> /\ Changed(q) # {Pjsip}
      <4>1. Len(q) > 1 => 1 \in DOMAIN q /\ 2 \in DOMAIN q /\ 1 \in DOMAIN y
        BY <3>5
      <4>2. Len(q) > 1 => q[1].file # q[2].file
        BY <3>3, <4>1 DEF Ahead
      <4>3. Len(q) > 1 => q[1].file \in Changed(q) /\ q[2].file \in Changed(q)
        BY <4>1 DEF Changed
      <4>. QED
        BY <4>1, <4>2, <4>3
    <3>8. Op(t).kind = "remove" => DOMAIN new = {Pjsip} \cup mine /\ Pjsip \notin mine
      BY <1>1, FileNames DEF new, Batch, ExtensionKinds, TenantFiles
    <3>9. Changed(y) \cap Changed(w) = {} /\ Changed(y) \cup Changed(w) = Changed(q) \cup Changed(u)
      BY <3>3, <3>4
    <3>10. Writing(s, d)
      <4>1. CASE Len(q) > 1
        <5>. \A n \in Nat : n > 1 => n # 1
          OBVIOUS
        <5>1. p = "files"
          BY <3>5, <4>1 DEF p
        <5>. QED
          BY <1>2, <3>1, <3>3, <3>4, <3>7, <3>9, <4>1, <5>1 DEF Writing, Wrote, Behind
      <4>2. CASE Len(q) = 1 /\ Op(t).kind = "remove" /\ c.file # Pjsip
        <5>1. p = "stage2"
          BY <4>2 DEF p
        <5>2. Changed(w) = mine
          BY <3>3, <3>4, <3>6, <3>9, <4>2
        <5>. QED
          BY <1>2, <3>1, <3>4, <5>1, <5>2 DEF Writing, Wrote, Behind
      <4>3. CASE Len(q) = 1 /\ ~(Op(t).kind = "remove" /\ c.file # Pjsip)
        <5>1. p = "login"
          BY <4>3 DEF p
        <5>2. Changed(w) = DOMAIN new
          BY <3>3, <3>4, <3>6, <3>8, <3>9, <4>3
        <5>. QED
          BY <1>2, <3>1, <3>4, <5>1, <5>2 DEF Writing, Wrote, Behind
      <4>. QED
        BY <3>5, <4>1, <4>2, <4>3
    <3>11. Current(s, store, registry) /\ Loaded(s, d, running)
      BY <1>1, <1>2, <1>6, <2>1 DEF Progress, Current, Loaded, HandlerWay, Wrote
    <3>12. Base(th[t], conf, store, registry, history) => Base(s, d, store, registry, history)
      BY <1>1, <1>2, <1>6, <1>7, <3>4 DEF Base, Before
    <3>13. Recoverable(s, d, store, registry, history)
      BY <1>1, <1>2, <1>6, <2>1, <3>12 DEF Progress, Recoverable, Finished, Wrote, Early
    <3>. QED
      BY <3>10, <3>11, <3>13 DEF Progress
  <2>. QED
    BY <1>1, <1>2, <1>5, <1>6, <1>7, <1>8, <2>1, Advance, StructureStays
<1>9. CASE Set(t, f) /\ UNCHANGED conf
  BY <1>1, <1>3, <1>5, <1>9, Fails
<1>. QED
  BY <1>4, <1>8, <1>9

\* A file is put back, or cannot be.
LEMMA RestoreFileFiles ==
  ASSUME FInv, NEW t \in Threads, RestoreFile(t)
  PROVE  Structure' /\ FilesOK'
<1>. DEFINE u == th[t].undo
            c == Head(u)
            d == [conf EXCEPT ![c.file] = c.old]
            s == [th[t] EXCEPT !.undo = Tail(@)]
            z == IF Op(t).kind = "provision" THEN <<>> ELSE Tail(u)
            told == th[t].told \/ (Op(t).kind = "remove" /\ c.file # Pjsip)
            f == [th[t] EXCEPT !.undo = z, !.told = told]
<1>1. Active(t) /\ Whole(th[t]) /\ th[t].pc = "restore" /\ Op(t) = th[t].op /\ u # <<>>
  BY Kinds DEF FInv, RestoreFile, At, Active, Op
<1>2. /\ s.op = th[t].op /\ s.exts = th[t].exts /\ s.known = th[t].known /\ s.ok = th[t].ok
      /\ s.pc = "restore" /\ s.undo = Tail(u)
  BY <1>1 DEF Whole, Twelve
<1>3. /\ f.op = th[t].op /\ f.exts = th[t].exts /\ f.known = th[t].known /\ f.ok = th[t].ok
      /\ f.pc = "restore" /\ f.undo = z
  BY <1>1 DEF Whole, Twelve
<1>4. \/ Set(t, s) /\ conf' = d /\ UNCHANGED history
      \/ Set(t, f) /\ UNCHANGED conf /\ history' = history \cup {"restore"}
  BY DEF RestoreFile, Note
<1>5. UNCHANGED <<running, store, registry>>
  BY DEF RestoreFile
<1>6. z = <<>> \/ z = Tail(u)
  OBVIOUS
<1>7. d = [conf EXCEPT ![Head(u).file] = Head(u).old] /\ u = th[t].undo
  OBVIOUS
<1>. HIDE DEF u, c, d, s, z, told, f
<1>8. Progress(th[t], conf, running, store, registry, history) => Changes(Tail(u)) /\ Changes(<<>>)
  BY <1>1, <1>7, FirstAway DEF Progress, Writing, Changes
<1>9. CASE Set(t, s) /\ conf' = d /\ UNCHANGED history
  <2>1. ASSUME Quiet, Progress(th[t], conf, running, store, registry, history)
        PROVE  Progress(s, d, running, store, registry, history)
    <3>1. Writing(s, d) /\ Current(s, store, registry) /\ Loaded(s, d, running)
      BY <1>1, <1>2, <1>8, <2>1 DEF Progress, Writing, Current, Loaded, HandlerWay, Wrote
    <3>2. \A b : Undoes(b, conf, u) => Undoes(b, d, Tail(u))
      BY <1>1, <1>7, <2>1, UndoOne DEF FInv, Structure, Progress, Writing
    <3>3. Base(th[t], conf, store, registry, history) => Base(s, d, store, registry, history)
      BY <1>1, <1>2, <1>7, <3>2 DEF Base, Before
    <3>4. Recoverable(s, d, store, registry, history)
      BY <1>1, <1>2, <2>1, <3>3 DEF Progress, Recoverable, Finished, Wrote, Early
    <3>. QED
      BY <3>1, <3>4 DEF Progress
  <2>. QED
    BY <1>1, <1>2, <1>5, <1>7, <1>9, <2>1, Advance, StructureStays
<1>10. CASE Set(t, f) /\ UNCHANGED conf /\ history' = history \cup {"restore"}
  <2>1. ASSUME Quiet, Progress(th[t], conf, running, store, registry, history)
        PROVE  Progress(f, conf, running, store, registry, history')
    <3>1. Writing(f, conf) /\ Current(f, store, registry) /\ Loaded(f, conf, running)
      BY <1>1, <1>3, <1>6, <1>8, <2>1 DEF Progress, Writing, Current, Loaded, HandlerWay, Wrote
    <3>2. Recoverable(f, conf, store, registry, history')
      BY <1>10 DEF Recoverable, Unhurt
    <3>. QED
      BY <3>1, <3>2 DEF Progress
  <2>. QED
    BY <1>1, <1>3, <1>5, <1>10, <2>1, Advance, StructureStays
<1>. QED
  BY <1>4, <1>9, <1>10

----------------------------------------------------------------------------
(* The wizard's records.                                                   *)

\* What is in the store plays no part while a tenant is removed.
LEMMA AnyStore ==
  ASSUME NEW r, NEW c, NEW run, NEW st, NEW new, NEW reg, NEW h, Progress(r, c, run, st, reg, h),
         r.op.kind = "remove" \/ new = st, r.pc \notin {"previous", "known", "save"}
  PROVE  Progress(r, c, run, new, reg, h)
<1>1. r.op.kind = "remove" => r.op.kind # "provision" /\ r.op.kind \notin ExtensionKinds
  BY DEF ExtensionKinds
<1>2. Current(r, new, reg)
  BY <1>1 DEF Progress, Current
<1>3. Base(r, c, st, reg, h) => Base(r, c, new, reg, h)
  BY <1>1 DEF Base, Before
<1>4. Recoverable(r, c, new, reg, h)
  BY <1>1, <1>3 DEF Progress, Recoverable
<1>. QED
  BY <1>2, <1>4 DEF Progress

\* remove_tenant saves the extensions that remain.
LEMMA SaveStoreFiles ==
  ASSUME FInv, NEW t \in Threads, SaveStore(t)
  PROVE  Structure' /\ FilesOK'
<1>. DEFINE s == [To(t, "registry") EXCEPT !.saving = {"store"}]
            f == [Failed(t, "restore") EXCEPT !.saving = {"store"}]
<1>1. Active(t) /\ Whole(th[t]) /\ th[t].pc = "store" /\ th[t].op.kind = "remove"
  BY Kinds DEF FInv, SaveStore, At, Active, Placed
<1>2. Same(th[t], s) /\ s.pc = "registry" /\ s.ok = th[t].ok
  BY <1>1 DEF Whole, Twelve, Same, To
<1>3. Same(th[t], f) /\ f.pc = "restore" /\ ~f.ok
  BY <1>1 DEF Whole, Twelve, Same, Failed
<1>4. Set(t, s) \/ (Set(t, f) /\ UNCHANGED store)
  BY DEF SaveStore
<1>5. UNCHANGED <<conf, running, registry, history>>
  BY DEF SaveStore
<1>. HIDE DEF s, f
<1>6. CASE Set(t, s)
  <2>1. ASSUME Progress(th[t], conf, running, store, registry, history)
        PROVE  Progress(s, conf, running, store', registry, history)
    <3>1. Progress(th[t], conf, running, store', registry, history)
      BY <1>1, <2>1, AnyStore
    <3>2. Onward(th[t], s) /\ Loaded(s, conf, running)
      BY <1>1, <1>2, <2>1 DEF Onward, Loaded, Same, Wrote, Finished, Early, HandlerWay, Progress
    <3>. QED
      BY <3>1, <3>2, OnwardProgress
  <2>. QED
    BY <1>1, <1>2, <1>5, <1>6, <2>1, Advance, StructureStays DEF Same
<1>7. CASE Set(t, f) /\ UNCHANGED store
  BY <1>1, <1>3, <1>5, <1>7, Fails
<1>. QED
  BY <1>4, <1>6, <1>7

\* save_store(old) puts them back.
LEMMA RestoreStoreFiles ==
  ASSUME FInv, NEW t \in Threads, RestoreStore(t)
  PROVE  Structure' /\ FilesOK'
<1>. DEFINE p == IF th[t].logged THEN "relogin" ELSE "answer"
            s == To(t, p)
            f == [To(t, p) EXCEPT !.told = TRUE]
<1>1. /\ Active(t) /\ Whole(th[t]) /\ th[t].pc = "unstore" /\ th[t].op.kind \in TenantKinds /\ AtWork(t)
      /\ Op(t) = th[t].op
  BY Kinds DEF FInv, RestoreStore, At, Active, Placed, ForTenants, AtWork, Op
<1>2. ~th[t].ok /\ ("store" \in th[t].saving => th[t].op.kind = "remove")
  BY <1>1 DEF FInv, IInv, Saga, Outcome, Backward
<1>3. Same(th[t], s) /\ s.pc = p /\ s.ok = th[t].ok
  BY <1>1 DEF Whole, Twelve, Same, To
<1>4. Same(th[t], f) /\ f.pc = p /\ f.ok = th[t].ok
  BY <1>1 DEF Whole, Twelve, Same, To
<1>5. (Set(t, s) \/ Set(t, f)) /\ (store' = store \/ "store" \in th[t].saving)
  BY DEF RestoreStore
<1>6. UNCHANGED <<conf, running, registry, history>>
  BY DEF RestoreStore
<1>7. p \in {"relogin", "answer"}
  OBVIOUS
<1>. HIDE DEF p, s, f
<1>8. ASSUME NEW x, Set(t, x), Same(th[t], x), x.pc = p, x.ok = th[t].ok PROVE Structure' /\ FilesOK'
  <2>1. ASSUME Progress(th[t], conf, running, store, registry, history)
        PROVE  Progress(x, conf, running, store', registry, history)
    <3>1. Progress(th[t], conf, running, store', registry, history)
      BY <1>1, <1>2, <1>5, <2>1, AnyStore
    <3>2. Onward(th[t], x) /\ Loaded(x, conf, running)
      BY <1>1, <1>2, <1>7, <1>8 DEF Onward, Loaded, Same, Wrote, Finished, Early, HandlerWay
    <3>. QED
      BY <3>1, <3>2, OnwardProgress
  <2>. QED
    BY <1>1, <1>6, <1>7, <1>8, <2>1, Advance, StructureStays DEF Same
<1>. QED
  BY <1>3, <1>4, <1>5, <1>8

\* restore_registry: until the catalog was saved it is what it was.
LEMMA RestoreRegistryFiles ==
  ASSUME FInv, NEW t \in Threads, RestoreRegistry(t)
  PROVE  Structure' /\ FilesOK'
<1>. DEFINE s == To(t, "unstore")
            f == [To(t, "unstore") EXCEPT !.told = TRUE]
<1>1. /\ Active(t) /\ Whole(th[t]) /\ th[t].pc = "unregistry" /\ th[t].op.kind \in TenantKinds
      /\ AtWork(t) /\ Op(t) = th[t].op /\ th[t].op.kind \notin ExtensionKinds
  BY Kinds DEF FInv, RestoreRegistry, At, Active, Placed, ForTenants, AtWork, Op
<1>2. ~th[t].ok /\ th[t].op.kind \in {"provision", "remove"}
  BY <1>1 DEF FInv, IInv, Saga, Outcome, Backward, TenantKinds
<1>3. Same(th[t], s) /\ s.pc = "unstore" /\ s.ok = th[t].ok
  BY <1>1 DEF Whole, Twelve, Same, To
<1>4. Same(th[t], f) /\ f.pc = "unstore" /\ f.ok = th[t].ok
  BY <1>1 DEF Whole, Twelve, Same, To
<1>5. (Set(t, s) \/ Set(t, f)) /\ registry' \in {registry, OldRegistry(t)}
  BY DEF RestoreRegistry
<1>6. UNCHANGED <<conf, running, store, history>>
  BY DEF RestoreRegistry
<1>. HIDE DEF s, f
<1>7. ASSUME NEW x, Set(t, x), Same(th[t], x), x.pc = "unstore", x.ok = th[t].ok PROVE Structure' /\ FilesOK'
  <2>1. ASSUME Progress(th[t], conf, running, store, registry, history)
        PROVE  Progress(x, conf, running, store, registry', history)
    <3>1. Writing(x, conf) /\ Current(x, store, registry') /\ Loaded(x, conf, running)
      BY <1>1, <1>2, <1>7, <2>1 DEF Progress, Writing, Current, Loaded, Same, Wrote
    <3>2. ASSUME Unhurt(history), x.op.kind = "remove" => Unfailed(history)
          PROVE  registry' = registry
      <4>1. /\ th[t].op.kind = "provision" => th[t].op.tenant \notin KnownTenants(registry)
            /\ th[t].op.kind = "remove" => Rec(th[t].op) \in registry
        BY <1>1, <1>7, <2>1, <3>2 DEF Progress, Recoverable, Early, Same
      <4>2. th[t].op.kind = "provision" => Rec(th[t].op) \notin registry
        BY <4>1 DEF KnownTenants, Rec
      <4>. QED
        BY <1>1, <1>2, <1>5, <4>1, <4>2 DEF OldRegistry
    <3>3. Onward(th[t], x)
      BY <1>1, <1>2, <1>7 DEF Onward, Same, Wrote, Finished, Early, HandlerWay
    <3>4. Recoverable(x, conf, store, registry, history)
      BY <2>1, <3>1, <3>3, OnwardProgress DEF Progress
    <3>5. Recoverable(x, conf, store, registry', history)
      BY <3>2, <3>4 DEF Recoverable
    <3>. QED
      BY <3>1, <3>5 DEF Progress
  <2>. QED
    BY <1>1, <1>5, <1>6, <1>7, <2>1, Advance, StructureStays DEF Same
<1>. QED
  BY <1>3, <1>4, <1>5, <1>7

\* The catalog with a tenant more.
LEMMA OneMoreKnown ==
  ASSUME NEW reg, OneEach(reg), NEW x, x.id \notin KnownTenants(reg)
  PROVE  OneEach(reg \cup {x}) /\ KnownTenants(reg \cup {x}) = KnownTenants(reg) \cup {x.id}
<1>1. \A r \in reg : r.id # x.id
  BY DEF KnownTenants
<1>. QED
  BY <1>1 DEF OneEach, KnownTenants

\* The catalog with one less.
LEMMA OneLessKnown ==
  ASSUME NEW reg, OneEach(reg), NEW x \in TenantRecord, x \in reg
  PROVE  OneEach(reg \ {x}) /\ KnownTenants(reg \ {x}) = KnownTenants(reg) \ {x.id}
<1>1. x.id \notin StaticTenants
  BY ConfAssumption DEF TenantRecord
<1>2. \A r \in reg \ {x} : r.id # x.id
  BY DEF OneEach
<1>. QED
  BY <1>1, <1>2 DEF OneEach, KnownTenants

\* The catalog is saved: the files are those of the tenants it now has.
LEMMA SaveRegistryFiles ==
  ASSUME FInv, NEW t \in Threads, SaveRegistry(t)
  PROVE  Structure' /\ FilesOK'
<1>. DEFINE p == IF Op(t).kind = "provision" THEN "tidy" ELSE "answer"
            s == [To(t, p) EXCEPT !.saving = @ \cup {"registry"}]
            f == [Failed(t, "restore") EXCEPT !.saving = @ \cup {"registry"}]
            r == th[t]
            new == NewRegistry(t)
            w == r.op.tenant
            known == KnownTenants(registry)
<1>1. /\ Active(t) /\ Whole(r) /\ Placed(r) /\ r.pc = "registry" /\ r.op.kind \in TenantKinds
      /\ AtWork(t) /\ Op(t) = r.op /\ r.op.kind \notin ExtensionKinds
  BY Kinds DEF FInv, SaveRegistry, At, Active, Placed, ForTenants, AtWork, Op
<1>2. r.ok = TRUE /\ r.op.kind \in {"provision", "remove"} /\ Rec(r.op) \in TenantRecord
  BY <1>1 DEF FInv, IInv, Saga, Outcome, Forward, TenantKinds, Structure, Whole
<1>3. Same(r, s) /\ s.pc = p /\ s.ok = r.ok
  BY <1>1 DEF Whole, Twelve, Same, To
<1>4. Same(r, f) /\ f.pc = "restore" /\ ~f.ok
  BY <1>1 DEF Whole, Twelve, Same, Failed
<1>5. (Set(t, s) /\ registry' = new) \/ (Set(t, f) /\ UNCHANGED registry)
  BY DEF SaveRegistry
<1>6. UNCHANGED <<conf, running, store, history>>
  BY DEF SaveRegistry
<1>7. p = IF r.op.kind = "provision" THEN "tidy" ELSE "answer"
  BY <1>1
<1>8. /\ r.op.kind = "provision" => new = registry \cup {Rec(r.op)}
      /\ r.op.kind = "remove" => new = registry \ {Rec(r.op)}
      /\ Rec(r.op).id = w /\ w \in WizardTenants
  BY <1>1, <1>2 DEF NewRegistry, Rec, TenantRecord
<1>9. Set(t, s) \/ Set(t, f) => th[t] = r
  OBVIOUS
<1>. HIDE DEF p, s, f, new
<1>10. CASE Set(t, s) /\ registry' = new
  <2>1. ASSUME Quiet, Progress(r, conf, running, store, registry, history)
        PROVE  Progress(s, conf, running, store, new, history)
    <3>1. Wrote(r) /\ Wrote(s) /\ Batch(s) = Batch(r)
      BY <1>1, <1>2, <1>3, <1>7 DEF Wrote, Same, Batch, Left
    <3>2. Behind(r.undo, conf, Batch(r)) /\ Changed(r.undo) = DOMAIN Batch(r)
      BY <2>1, <3>1 DEF Progress, Writing
    <3>3. Writing(s, conf)
      BY <1>3, <1>7, <2>1, <3>1, <3>2 DEF Progress, Writing, Same
    <3>4. Current(s, store, new) /\ Loaded(s, conf, running)
      BY <1>1, <1>3, <2>1 DEF Progress, Current, Loaded, Same
    <3>5. Finished(s) /\ ~Early(s)
      BY <1>1, <1>2, <1>3, <1>7 DEF Finished, Early, Same
    <3>6. ASSUME Unhurt(history), r.op.kind = "remove" => Unfailed(history)
          PROVE  /\ OneEach(new) /\ Home(conf, KnownTenants(new))
                 /\ r.op.kind = "provision" /\ Unfailed(history) => store = Published(conf)
                 /\ r.op.kind = "remove" => Published(conf) = Left(r)
      <4>1. /\ OneEach(registry) /\ Base(r, conf, store, registry, history)
            /\ r.op.kind = "provision" => w \notin known
            /\ r.op.kind = "remove" => Rec(r.op) \in registry
        BY <1>1, <2>1, <3>6 DEF Progress, Recoverable, Finished, Early
      <4>2. PICK b : Undoes(b, conf, r.undo) /\ Home(b, known) /\ Before(r, b, store, history)
        BY <4>1 DEF Base
      <4>3. known \in SUBSET Tenants
        BY KnownFinite DEF FInv, Structure
      <4>4. CASE r.op.kind = "provision"
        <5>0. /\ OneEach(registry \cup {Rec(r.op)})
              /\ KnownTenants(registry \cup {Rec(r.op)}) = known \cup {Rec(r.op).id}
          <6>1. Rec(r.op).id \notin KnownTenants(registry)
            BY <1>8, <4>1, <4>4
          <6>. QED
            BY <4>1, <6>1, OneMoreKnown
        <5>1. OneEach(new) /\ KnownTenants(new) = known \cup {w}
          BY <1>8, <4>4, <5>0, Zenon
        <5>2. Batch(r) = TenantContents(w) /\ DOMAIN Batch(r) = TenantFiles(w)
          BY <1>1, <4>4 DEF Batch, TenantContents
        <5>3. Home(conf, known \cup {w}) /\ Published(conf) = Published(b)
          BY <1>8, <3>2, <4>1, <4>2, <4>3, <4>4, <5>2, ProvisionHome
        <5>. QED
          BY <4>2, <4>4, <5>1, <5>3 DEF Before
      <4>5. CASE r.op.kind = "remove"
        <5>0. /\ OneEach(registry \ {Rec(r.op)})
              /\ KnownTenants(registry \ {Rec(r.op)}) = known \ {Rec(r.op).id}
          BY <1>2, <4>1, <4>5, OneLessKnown
        <5>1. OneEach(new) /\ KnownTenants(new) = known \ {w}
          BY <1>8, <4>5, <5>0, Zenon
        <5>2. Batch(r) = [y \in {Pjsip} \cup TenantFiles(w) |-> IF y = Pjsip THEN RenderPjsip(Left(r)) ELSE Absent]
          BY <1>1, <4>5 DEF Batch, ExtensionKinds
        <5>3. /\ conf[Pjsip] = RenderPjsip(Left(r)) /\ conf[Infra(w)] = Absent /\ conf[Dynamic(w)] = Absent
              /\ Changed(r.undo) = {Pjsip} \cup TenantFiles(w)
          BY <3>2, <5>2, FileNames DEF Behind, TenantFiles
        <5>4. Left(r) = Apart(Published(b), w)
          BY <4>2, <4>5 DEF Left, Before
        <5>6. Left(r) \in SUBSET Stored
          BY <1>1 DEF Left, Apart, Placed, Extensible
        <5>5. Home(conf, known \ {w}) /\ Published(conf) = Left(r)
          BY <1>8, <4>2, <4>3, <5>3, <5>4, <5>6, RemovalHome
        <5>. QED
          BY <4>5, <5>1, <5>5
      <4>. QED
        BY <1>2, <4>4, <4>5
    <3>7. Left(s) = Left(r) /\ s.op = r.op
      BY <1>3 DEF Same, Left
    <3>8. Recoverable(s, conf, store, new, history)
      BY <1>3, <3>1, <3>5, <3>6, <3>7 DEF Recoverable
    <3>. QED
      BY <3>3, <3>4, <3>8 DEF Progress
  <2>. QED
    BY <1>1, <1>3, <1>6, <1>7, <1>10, <2>1, Advance, StructureStays DEF Same, new
<1>11. CASE Set(t, f) /\ UNCHANGED registry
  BY <1>1, <1>4, <1>6, <1>11, Fails
<1>. QED
  BY <1>5, <1>10, <1>11

\* The wizard begins with files that are as they should be.
LEMMA Begins ==
  ASSUME FInv, NEW t \in Threads, NEW s, Set(t, s), th[t].pc = "lock", tenantLock = None,
         s.pc = "stage", s.undo = <<>>, s.op.kind \in {"provision", "remove"}, Rec(s.op) \in TenantRecord,
         s.op.kind = "provision" => s.op.tenant \notin KnownTenants(registry),
         s.op.kind = "remove" => Rec(s.op) \in registry /\ s.exts = store,
         UNCHANGED <<conf, running, store, registry, history>>
  PROVE  Structure' /\ FilesOK'
<1>1. th'[t] = s /\ \A u \in Threads \ {t} : th'[u] = th[u]
  BY Given DEF Set, FInv, IInv, TypeOK
<1>2. s.op.kind \notin ExtensionKinds /\ s.op.kind \in TenantKinds
  BY DEF ExtensionKinds, TenantKinds
<1>3. Structure'
  <2>1. \A u \in Threads \ {t} : AtWork(u)' = AtWork(u) /\ Op(u)' = Op(u)
    BY <1>1 DEF AtWork, Op
  <2>2. Op(t)' = s.op
    BY <1>1 DEF Op
  <2>. QED
    BY <1>1, <2>1, <2>2 DEF FInv, Structure, Rec
<1>4. ASSUME Quiet' PROVE FilesOK'
  <2>1. Quiet
    BY <1>4 DEF Quiet, Never
  <2>2. \A u \in Threads : ~Handling(u)
    <3>1. \A u \in Threads \ {t} : ~Handling(u)
      BY <2>1 DEF FInv, FilesOK
    <3>2. ~Handling(t)
      BY Kinds DEF FInv, Handling, Placed, ForTenants, Op
    <3>. QED
      BY <3>1, <3>2
  <2>3. \A u \in Threads : ~AtWork(u)
    BY PublicationAssumption DEF FInv, IInv, Saga, Locked
  <2>4. \A u \in Threads : ~Active(u)
    BY <2>2, <2>3, AtWorkOr DEF FInv
  <2>5. Settled(conf, store, registry, history)
    BY <2>1, <2>4 DEF FInv, FilesOK
  <2>6. Writing(s, conf) /\ Current(s, store, registry) /\ Loaded(s, conf, running)
    BY <1>2 DEF Writing, Changes, Current, Loaded, Wrote
  <2>7. ASSUME Unhurt(history), s.op.kind = "remove" => Unfailed(history)
        PROVE  Base(s, conf, store, registry, history)
    BY <2>5, <2>7, Untouched DEF Settled, Before, FInv, Structure
  <2>8. Recoverable(s, conf, store, registry, history)
    BY <1>2, <2>5, <2>7 DEF Settled, Recoverable, Finished
  <2>9. Progress(s, conf', running', store', registry', history')
    BY <2>6, <2>8 DEF Progress
  <2>10. Active(t)' /\ ~Handling(t)'
    BY <1>1, <1>2 DEF Active, Handling, Op
  <2>11. \A u \in Threads \ {t} : ~Active(u)' /\ ~Handling(u)'
    BY <1>1, <2>2, <2>4 DEF Active, Handling, Op
  <2>. QED
    BY <1>1, <2>9, <2>10, <2>11 DEF FilesOK
<1>. QED
  BY <1>3, <1>4 DEF FilesOK

\* create_tenant and remove_tenant, once they have the lock.
LEMMA LockFiles ==
  ASSUME FInv, NEW t \in Threads, Lock(t)
  PROVE  Structure' /\ FilesOK'
<1>1. /\ ~Active(t) /\ Whole(th[t]) /\ th[t].pc = "lock" /\ tenantLock = None /\ Op(t) = th[t].op
      /\ th[t].undo = <<>> /\ Op(t).kind \in {"provision", "remove"} /\ Op(t) \in Request
  BY Kinds DEF FInv, Structure, Placed, ForTenants, TenantKinds, At, Lock, Op, Active, Whole
<1>2. UNCHANGED <<conf, running, store, registry, history>>
  BY DEF Lock, data
<1>3. Idle.pc = "idle"
  BY DEF Idle
<1>4. CASE Set(t, Idle)
  BY <1>1, <1>2, <1>3, <1>4, Rests
<1>5. CASE Op(t).kind = "provision" /\ ~Set(t, Idle)
  <2>. DEFINE y == <<RegisterDid(Rec(Op(t)))>>
              s == [To(t, "stage") EXCEPT !.acts = y]
  <2>1. Set(t, s) /\ ValidCreation(Rec(Op(t)), registry)
    BY <1>5 DEF Lock
  <2>. HIDE DEF y
  <2>2. s.op = Op(t) /\ s.pc = "stage" /\ s.undo = <<>>
    BY <1>1 DEF Whole, Twelve, To
  <2>. HIDE DEF s
  <2>3. Op(t).tenant \notin KnownTenants(registry) /\ Rec(Op(t)) \in TenantRecord
    <3>1. Rec(Op(t)) \in TenantRecord /\ \A r \in registry : r.id # Rec(Op(t)).id
      BY <2>1 DEF ValidCreation
    <3>2. Rec(Op(t)).id = Op(t).tenant
      BY DEF Rec
    <3>3. Op(t).tenant \in WizardTenants
      BY <3>1, <3>2 DEF TenantRecord
    <3>. QED
      BY <3>1, <3>2, <3>3, ConfAssumption DEF KnownTenants
  <2>. QED
    BY <1>1, <1>2, <1>5, <2>1, <2>2, <2>3, Begins
<1>6. CASE Op(t).kind = "remove" /\ ~Set(t, Idle)
  <2>. DEFINE d == OldRec(t).did
              y == <<UnregisterDid(OldRec(t))>>
              s == [To(t, "stage") EXCEPT !.exts = store, !.op.did = d, !.acts = y]
  <2>1. Set(t, s) /\ ValidRemoval(Op(t).tenant, registry)
    BY <1>6 DEF Lock
  <2>2. OldRec(t) \in registry /\ OldRec(t).id = Op(t).tenant
    BY <2>1 DEF ValidRemoval, OldRec
  <2>3. OldRec(t) = [id |-> Op(t).tenant, did |-> d] /\ OldRec(t) \in TenantRecord
    BY <2>2 DEF FInv, Structure, TenantRecord
  <2>. HIDE DEF y, d
  <2>4. /\ s.op.kind = Op(t).kind /\ s.op.tenant = Op(t).tenant /\ s.op.did = d
        /\ s.pc = "stage" /\ s.undo = <<>> /\ s.exts = store
    BY <1>1 DEF Whole, Twelve, To, Request
  <2>. HIDE DEF s
  <2>5. Rec(s.op) = OldRec(t)
    BY <2>3, <2>4 DEF Rec
  <2>. QED
    BY <1>1, <1>2, <1>6, <2>1, <2>2, <2>3, <2>4, <2>5, Begins
<1>. QED
  BY <1>1, <1>4, <1>5, <1>6

----------------------------------------------------------------------------
(* The end of a request.                                                   *)

\* What a handler leaves.
LEMMA HandlerLeaves ==
  ASSUME NEW r, NEW c, NEW run, NEW st, NEW reg, NEW h, NEW k, Progress(r, c, run, st, reg, h), Placed(r),
         c = [f \in Files |-> c[f]], reg \subseteq TenantRecord, IsFiniteSet(reg),
         r.op.kind \in ExtensionKinds, r.pc = "answer", h \subseteq k, ~r.ok => "failure" \in k
  PROVE  Settled(c, st, reg, k)
<1>1. r.op.kind # "remove" /\ r.op.kind # "provision" /\ r.op.kind \notin TenantKinds
  BY DEF ExtensionKinds, TenantKinds
<1>2. SUFFICES ASSUME Unhurt(k) PROVE Settled(c, st, reg, k)
  BY DEF Settled
<1>3. OneEach(reg) /\ Base(r, c, st, reg, h) /\ (~Wrote(r) => r.undo = <<>>)
  BY <1>1, <1>2, Monotone DEF Progress, Recoverable, Finished
<1>4. CASE ~r.ok
  <2>1. Home(c, KnownTenants(reg))
    BY <1>3, <1>4, Untouched DEF Wrote
  <2>. QED
    BY <1>3, <1>4, <2>1 DEF Settled, Unfailed
<1>5. CASE r.ok
  <2>1. PICK b : Undoes(b, c, r.undo) /\ Home(b, KnownTenants(reg))
    BY <1>3 DEF Base
  <2>2. /\ Behind(r.undo, c, RenderAll(r.exts, r.known))
        /\ Changed(r.undo) = DOMAIN RenderAll(r.exts, r.known)
        /\ r.exts = st /\ r.known = KnownTenants(reg) /\ Publishable(r.exts, r.known)
    BY <1>5 DEF Progress, Writing, Wrote, Current, Batch
  <2>3. Changed(r.undo) = DynamicFiles(KnownTenants(reg))
    BY <2>2, Rendered
  <2>4. KnownTenants(reg) \in SUBSET Tenants /\ st \in SUBSET Stored
    BY <2>2, KnownFinite DEF Placed, Extensible
  <2>5. Home(c, KnownTenants(reg)) /\ Published(c) = st
    BY <2>1, <2>2, <2>3, <2>4, HandlerHome
  <2>. QED
    BY <1>3, <2>5 DEF Settled
<1>. QED
  BY <1>4, <1>5

\* What the wizard leaves.
LEMMA WizardLeaves ==
  ASSUME NEW r, NEW c, NEW run, NEW st, NEW reg, NEW h, NEW k, Progress(r, c, run, st, reg, h),
         c = [f \in Files |-> c[f]],
         r.op.kind \in TenantKinds, r.pc = "answer", h \subseteq k,
         r.op.kind = "remove" /\ ~Unfailed(h) => "partial" \in k,
         r.op.kind = "remove" /\ r.ok => st = Left(r),
         r.op.kind = "remove" /\ ~r.ok /\ st # r.exts => "failure" \in k
  PROVE  Settled(c, st, reg, k)
<1>1. r.op.kind \in {"remove", "provision"}
  BY DEF TenantKinds
<1>2. SUFFICES ASSUME Unhurt(k) PROVE Settled(c, st, reg, k)
  BY DEF Settled
<1>3. Unhurt(h) /\ (r.op.kind = "remove" => Unfailed(h)) /\ (Unfailed(k) => Unfailed(h))
  BY <1>2, Monotone DEF Unhurt
<1>4. /\ OneEach(reg) /\ (~Wrote(r) => r.undo = <<>>)
      /\ r.ok => /\ Home(c, KnownTenants(reg))
                 /\ r.op.kind = "provision" /\ Unfailed(h) => st = Published(c)
                 /\ r.op.kind = "remove" => Published(c) = Left(r)
      /\ ~r.ok => Base(r, c, st, reg, h)
  BY <1>3 DEF Progress, Recoverable, Finished
<1>5. CASE r.ok
  BY <1>1, <1>3, <1>4, <1>5 DEF Settled
<1>6. CASE ~r.ok
  <2>1. Home(c, KnownTenants(reg)) /\ Before(r, c, st, h)
    BY <1>4, <1>6, Untouched DEF Wrote
  <2>2. Unfailed(k) => st = Published(c)
    BY <1>1, <1>3, <1>6, <2>1 DEF Before, Unfailed
  <2>. QED
    BY <1>4, <2>1, <2>2 DEF Settled
<1>. QED
  BY <1>5, <1>6

\* An answer.
LEMMA AnswerFiles ==
  ASSUME FInv, NEW t \in Threads, Answer(t)
  PROVE  Structure' /\ FilesOK'
<1>1. /\ Active(t) /\ Placed(th[t]) /\ th[t].pc = "answer" /\ Set(t, Idle) /\ Idle.pc = "idle"
      /\ Op(t) = th[t].op /\ history \subseteq history'
      /\ UNCHANGED <<conf, running, store, registry>>
  BY Kinds DEF FInv, Answer, At, data, Active, Op, Note, Idle
<1>2. ASSUME Quiet' PROVE Settled(conf, store, registry, history')
  <2>1. Progress(th[t], conf, running, store, registry, history)
    BY <1>1, <1>2 DEF FInv, FilesOK, Quiet, Never
  <2>2. CASE Op(t).kind \in ExtensionKinds
    <3>1. ~th[t].ok => "failure" \in history'
      BY <2>2 DEF Answer, Note, ExtensionKinds
    <3>. QED
      BY <1>1, <2>1, <2>2, <3>1, HandlerLeaves DEF FInv, Structure
  <2>3. CASE Op(t).kind \in TenantKinds
    <3>1. AtWork(t) /\ Extensions(t) /\ Op(t).kind \notin ExtensionKinds
      BY <1>1, <2>3, AtWorkOr DEF FInv, IInv, Saga
    <3>2. Op(t).kind = "remove" =>
            /\ "failure" \in history => "partial" \in history'
            /\ ~th[t].ok /\ store # th[t].exts => "failure" \in history'
      BY <3>1 DEF Answer, Note
    <3>3. Remaining(t) = Left(th[t])
      BY <1>1 DEF Remaining, Left, Apart
    <3>4. Op(t).kind = "remove" /\ th[t].ok => store = Left(th[t])
      BY <1>1, <3>1, <3>3 DEF Extensions
    <3>. QED
      BY <1>1, <2>1, <2>3, <3>2, <3>4, WizardLeaves DEF FInv, Structure, Unfailed
  <2>. QED
    BY <1>1, <2>2, <2>3, AtWorkOr DEF FInv
<1>. QED
  BY <1>1, <1>2, Rests

\* Every step keeps the invariant.
LEMMA StepFiles ==
  ASSUME FInv, [Next]_vars
  PROVE  FInv'
<1>1. IInv'
  BY NextOK DEF FInv
<1>2. CASE UNCHANGED vars
  <2>1. UNCHANGED <<th, conf, running, store, registry, history>>
    BY <1>2 DEF vars, data
  <2>2. \A t \in Threads : /\ Active(t)' = Active(t) /\ Handling(t)' = Handling(t)
                           /\ AtWork(t)' = AtWork(t) /\ Op(t)' = Op(t)
    BY <2>1 DEF Active, Handling, AtWork, Op
  <2>3. Structure'
    BY <2>1, <2>2 DEF FInv, Structure, Rec
  <2>4. Quiet' = Quiet
    BY <2>1 DEF Quiet, Never
  <2>5. FilesOK'
    BY <2>1, <2>2, <2>4 DEF FInv, FilesOK
  <2>. QED
    BY <1>1, <2>3, <2>5 DEF FInv
<1>3. ASSUME NEW t \in Threads, Step(t) PROVE Structure' /\ FilesOK'
  BY <1>3, ReadPreviousFiles, ReadKnownFiles, SaveExtensionFiles, LoadStoreFiles, RenderFiles,
     LockFiles, StageFiles, StagePjsipFiles, WriteFileFiles, LoginFiles, ActFiles, ReloadPjsipFiles,
     ReloadRestFiles, SaveStoreFiles, SaveRegistryFiles, TidyFiles, RestoreFileFiles, RestoredFiles,
     RestoreRegistryFiles, RestoreStoreFiles, CompensationFiles, AnswerFiles
     DEF Step
<1>. QED
  BY <1>1, <1>2, <1>3, CrashFiles, ReceiveFiles DEF Next, FInv

\* How far the request at work has come with the files, what undoing its changes gives back, and
\* the files and the tenants of the catalog when none is at work.
THEOREM FilesFollow == Spec => []FInv
<1>. QED
  BY InitFiles, StepFiles, PTL DEF Spec

\* regenerate_and_reload and the wizard: whatever step fails, the files left are those of one
\* version of the extensions and of the tenants of the catalog.
THEOREM FilesAlwaysAgree == Spec => []FilesAgree
<1>1. FInv => FilesAgree
  <2>1. SUFFICES ASSUME FInv, AtRest, Never({"overlap", "crash", "restore", "partial"})
                 PROVE  Agree(conf, KnownTenants(registry))
    BY DEF FilesAgree
  <2>2. Quiet /\ Unhurt(history) /\ \A t \in Threads : ~Active(t)
    BY <2>1 DEF AtRest, Busy, At, Active, Quiet, Never, Unhurt
  <2>. QED
    BY <2>1, <2>2 DEF FInv, FilesOK, Settled, Home
<1>. QED
  BY <1>1, FilesFollow, PTL

\* An answer of success: Asterisk runs what the files say and, of an extension, the files say
\* what the store says.
THEOREM SuccessWhole == Spec => []SuccessIsWhole
<1>1. FInv => SuccessIsWhole
  <2>1. SUFFICES ASSUME FInv, Quiet, NEW t \in Threads, th[t].pc = "answer", th[t].ok
                 PROVE  /\ \A f \in Files : running[f] = conf[f]
                        /\ Op(t).kind \in ExtensionKinds =>
                             \A f \in DynamicFiles(KnownTenants(registry)) :
                               conf[f] = RenderAll(store, KnownTenants(registry))[f]
    BY DEF SuccessIsWhole, At, Quiet
  <2>2. Progress(th[t], conf, running, store, registry, history) /\ Op(t) = th[t].op
    BY <2>1 DEF FInv, FilesOK, Active, Op
  <2>3. running = conf
    BY <2>1, <2>2 DEF Progress, Loaded
  <2>4. ASSUME Op(t).kind \in ExtensionKinds
        PROVE  \A f \in DynamicFiles(KnownTenants(registry)) :
                 conf[f] = RenderAll(store, KnownTenants(registry))[f]
    <3>1. /\ Behind(th[t].undo, conf, RenderAll(th[t].exts, th[t].known))
          /\ Changed(th[t].undo) = DOMAIN RenderAll(th[t].exts, th[t].known)
          /\ th[t].exts = store /\ th[t].known = KnownTenants(registry)
      BY <2>1, <2>2, <2>4 DEF Progress, Writing, Wrote, Current, Batch
    <3>. QED
      BY <3>1, Rendered DEF Behind
  <2>. QED
    BY <2>3, <2>4
<1>. QED
  BY <1>1, FilesFollow, PTL

=============================================================================
