----------------------------- MODULE AsteriskConf -----------------------------
(***************************************************************************)
(* What admin-api writes for Asterisk, without the text: a file is the set *)
(* of entries a reload would load from it.  The validations in front of    *)
(* the files are predicates; formats (names, passwords, PINs, e-mails) are *)
(* left out, a value of the model being one that has the right format.     *)
(***************************************************************************)
EXTENDS Naturals, Sequences, FiniteSets

CONSTANTS StaticTenants,   \* t1 and t2: in the dialplan by hand
          WizardTenants,   \* t3, t4, ...: made by the wizard
          Names, Numbers, Dids,
          OwnerOf,         \* the tenant a name has as a prefix ("t2-sales"), or None
          ReservedNames,   \* endpoints of the static files and of receptions
          InstalledPlan,   \* the lines of extensions.conf, see StaticDids
          None

Tenants == StaticTenants \cup WizardTenants
Extension == [name : Names, number : Numbers, tenant : Tenants]
TenantRecord == [id : WizardTenants, did : Dids]

ASSUME ConfAssumption ==
  /\ StaticTenants \cap WizardTenants = {}
  /\ OwnerOf \in [Names -> Tenants \cup {None}]
  /\ ReservedNames \subseteq Names
  /\ IsFiniteSet(StaticTenants)

----------------------------------------------------------------------------
(* The extension store: what the API admits, and what may be published.    *)

Line(e) == <<e.tenant, e.number>>

\* validate_extension_input, against the other extensions of the store.
ValidExtension(ext, others, allowed) ==
  /\ ext.tenant \in allowed
  /\ \A e \in others : e.name # ext.name /\ Line(e) # Line(ext)

\* validate_persisted_extensions: the gate in front of the files knows more
\* about names than the one in front of the store.
Publishable(exts, known) ==
  /\ \A e \in exts : /\ e.tenant \in known
                     /\ OwnerOf[e.name] \in {None, e.tenant}
                     /\ e.name \notin ReservedNames
  /\ \A e, f \in exts : e # f => e.name # f.name /\ Line(e) # Line(f)

\* known_extension_tenants raises on a catalog that repeats a tenant.
KnownTenants(registry) == StaticTenants \cup {r.id : r \in registry}

----------------------------------------------------------------------------
(* The generated files.                                                    *)

OfTenant(exts, t) == {e \in exts : e.tenant = t}
RenderPjsip(exts) == {[endpoint |-> e.name, context |-> e.tenant,
                       callerid |-> e.number] : e \in exts}
RenderDial(exts) == {[exten |-> e.number, dials |-> e.name] : e \in exts}
RenderHints(exts) == {[exten |-> e.number, hint |-> e.name] : e \in exts}
RenderVoicemail(exts) == {[box |-> e.name] : e \in exts}

\* The three files of a tenant are written one after the other and read by
\* one reload; they stand as one file with three parts.
RenderDynamic(exts) == [dial |-> RenderDial(exts), hints |-> RenderHints(exts),
                        voicemail |-> RenderVoicemail(exts)]

Pjsip == <<"pjsip", None>>
Dynamic(t) == <<"generated", t>>
Infra(t) == <<"tenants", t>>        \* the five files of a wizard tenant
DynamicFiles(known) == {Pjsip} \cup {Dynamic(t) : t \in known}
TenantFiles(t) == {Infra(t), Dynamic(t)}
Files == DynamicFiles(Tenants) \cup {Infra(t) : t \in WizardTenants}

RenderAll(exts, known) ==
  [f \in DynamicFiles(known) |->
     IF f = Pjsip THEN RenderPjsip(exts) ELSE RenderDynamic(OfTenant(exts, f[2]))]

\* inspect_dynamic_extensions, the 30 rules read back from the files: names
\* of files, one endpoint block per extension with its own context, one
\* dialled number, hint and mailbox per extension of the tenant.
ConsistentFiles(exts, known, files) ==
  LET Of(t) == files[Dynamic(t)] IN
  /\ DOMAIN files = DynamicFiles(known)
  /\ Cardinality(files[Pjsip]) = Cardinality(exts)
  /\ \A e \in exts :
       /\ \E b \in files[Pjsip] : /\ b.endpoint = e.name
                                  /\ b.context = e.tenant
                                  /\ b.callerid = e.number
       /\ [exten |-> e.number, dials |-> e.name] \in Of(e.tenant).dial
  /\ \A t \in known :
       /\ {d.exten : d \in Of(t).dial} = {e.number : e \in OfTenant(exts, t)}
       /\ {h.hint : h \in Of(t).hints} = {e.name : e \in OfTenant(exts, t)}
       /\ {v.box : v \in Of(t).voicemail} = {e.name : e \in OfTenant(exts, t)}

----------------------------------------------------------------------------
(* The wizard: the records it admits and the five files of a tenant.       *)

\* parse_static_inbound_dids: the numbers of the sections named
\* from-tdm-gateway; a line is [section |-> s] or [exten |-> did].
StaticDids(lines) ==
  LET IsSection(i) == "section" \in DOMAIN lines[i] IN
  {lines[i].exten : i \in {i \in DOMAIN lines :
     /\ ~IsSection(i)
     /\ \E j \in 1 .. i - 1 :
          /\ IsSection(j) /\ lines[j].section = "from-tdm-gateway"
          /\ \A k \in j + 1 .. i - 1 : ~IsSection(k)}}

ValidCreation(rec, registry) ==
  /\ rec \in TenantRecord
  /\ \A r \in registry : r.id # rec.id /\ r.did # rec.did
  /\ rec.did \notin StaticDids(InstalledPlan)

ValidRemoval(t, registry) == t \in WizardTenants /\ \E r \in registry : r.id = t

Receptions(t) == {<<t, "recepcao">>, <<t, "recepcao-2">>}
RenderTenantPjsip(t) == {[endpoint |-> r, context |-> t, mailbox |-> t] : r \in Receptions(t)}
RenderTenantQueues(t) == [general |-> Receptions(t), en |-> {<<t, "recepcao">>},
                          es |-> {<<t, "recepcao-2">>}]
RenderTenantExtensions(t) ==
  [context |-> t, queues |-> {"general", "en", "es"}, overflow |-> "general",
   operators |-> Receptions(t), blocklist |-> t, includes |-> Dynamic(t)]
RenderTenantVoicemail(t) == [context |-> t, includes |-> Dynamic(t),
                             boxes |-> Receptions(t) \cup {<<t, "1001">>}]
RenderTenantParking(t) == [lot |-> t, context |-> t]

RenderTenant(t) ==
  [pjsip |-> RenderTenantPjsip(t), queues |-> RenderTenantQueues(t),
   extensions |-> RenderTenantExtensions(t), voicemail |-> RenderTenantVoicemail(t),
   parking |-> RenderTenantParking(t)]

\* inspect_generated_tenant_files, the 20 gates.
ConsistentTenant(t, infra) ==
  /\ \A p \in infra.pjsip : p.context = t /\ p.mailbox = t
  /\ {p.endpoint : p \in infra.pjsip} = infra.queues.general
  /\ infra.queues.en \cup infra.queues.es \subseteq infra.queues.general
  /\ infra.extensions.queues = DOMAIN infra.queues
  /\ infra.extensions.context = t /\ infra.extensions.blocklist = t
  /\ infra.extensions.includes = Dynamic(t) /\ infra.voicemail.includes = Dynamic(t)
  /\ infra.queues.general \cup {<<t, "1001">>} \subseteq infra.voicemail.boxes
  /\ infra.parking.context = t /\ infra.parking.lot = t

\* build_tenant_files: the five files and the empty dynamic ones.
TenantContents(t) ==
  [f \in TenantFiles(t) |-> IF f = Infra(t) THEN RenderTenant(t) ELSE RenderDynamic({})]
=============================================================================
