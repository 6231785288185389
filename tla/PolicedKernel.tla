--------------------------- MODULE PolicedKernel ---------------------------
(***************************************************************************)
(* PolicyEnforcedKernel: several principals over one cluster, each behind   *)
(* the same policies, reached directly, through the SDK or through the MCP  *)
(* server with its approval gate.                                           *)
(*                                                                          *)
(* A read is an operator: its answer is a function of the state in which    *)
(* its store read runs, since the policies and all it asks of an object     *)
(* (existence, kind, verb, store) do not change under it.  The calls that   *)
(* change state are actions, one for each stretch between two awaits that   *)
(* others can tell apart.  The base kernel is abstracted to what policy can *)
(* tell: a commit checks the status, writes, then saves the command; its    *)
(* faults are the subject of ClusterKernel.                                 *)
(*                                                                          *)
(* What command c creates is the URI <<store, c>>.  A field that redaction  *)
(* may remove is a boolean: whether the answer still holds it.              *)
(***************************************************************************)
EXTENDS PolicyEngine, FiniteSets

CONSTANTS
  Sessions,   \* kernels, one for each principal
  Settings,   \* configurations: policies, zones, visibility, who the sessions are
  Requests,   \* the requests put to policyExplain
  Commands,   \* command ids, numbered in the order in which they are minted
  Offers,     \* what may be proposed: [verb, store, kind]
  Held,       \* artifacts that are there from the start
  Lost        \* sources that the index names and no store holds

(* A configuration uses known policies, the gate belongs to the MCP        *)
(* server, and no principal's id is the name of a default role: a rule's   *)
(* principals may be either.                                               *)
ASSUME SettingsAssumption ==
  \A c \in Settings :
    /\ c.policies \subseteq Policies
    /\ \A s \in c.gated : c.surface[s] = "mcp"
    /\ \A s \in Sessions : c.who[s].id \notin {"cluster-admin", "observer", "proposer"}

(* Proposals of verbs that commitMutation has an arm for; ClusterKernel has *)
(* the others.                                                             *)
ASSUME OffersAssumption ==
  \A o \in Offers :
    o.verb \in {"create_entity", "update_entity", "ingest_artifact", "link_evidence", "reindex"}

(* Ids are minted once, for whatever they name, and the cluster starts with *)
(* finitely many.                                                          *)
ASSUME IdsAssumption ==
  /\ Commands \subseteq Nat
  /\ IsFiniteSet(Held \cup Lost)
  /\ \A u \in Held \cup Lost : u[2] \in Nat \ Commands
  /\ \A u, v \in Held \cup Lost : u[2] = v[2] => u = v

(* A call that gives no error is told from every one that does.            *)
ASSUME NoneAssumption ==
  None \notin {"COMMAND_NOT_VALIDATED", "COMMAND_REJECTED", "COMMAND_ALREADY_TERMINAL",
               "INVALID_STATE_TRANSITION"}

VARIABLES
  setting,    \* what the constructors were given; never changes
  queue,      \* command -> its record in the command queue
  truth,      \* URIs that the canonical and artifact stores hold
  indexed,    \* the sources that have an index record
  approved,   \* commands that were approved at some time (ghost)
  writes,     \* what was written and by whom (ghost)
  session     \* session -> the commit or compensation it is in

vars == <<setting, queue, truth, indexed, approved, writes, session>>

NoCommand == [status |-> "none", verb |-> None, store |-> None, kind |-> None]
Idle      == [pc |-> "idle", command |-> None]

Status(c) == queue[c].status
Minted    == {c \in Commands : Status(c) # "none"}
ObjectOf(c) ==
  IF queue[c].verb = "create_entity" THEN {<<"canonical", c>>}
  ELSE IF queue[c].verb = "ingest_artifact" THEN {<<"artifact", c>>}
  ELSE {}

Law == INSTANCE CommandLaw WITH status <- [c \in Commands |-> Status(c)]

-----------------------------------------------------------------------------
(* policy/default-policies.ts.                                             *)
Reads == {"discover_existence", "read_owner_truth", "read_derivative", "trace_provenance",
          "read_receipts", "read_command", "explain_retrieval"}

RoleRule(id, priority, decision, principals, capabilities) ==
  [id |-> id, priority |-> priority, decision |-> decision, principals |-> principals,
   capabilities |-> capabilities, trustZones |-> {}, stores |-> {}, kinds |-> {},
   uriPatterns |-> {}, commandVerbs |-> {}, redaction |-> {}]

DEFAULT_POLICIES ==
  { RoleRule(1, 10, "allow", {"cluster-admin"}, {}),
    RoleRule(2, 20, "allow", {"observer"}, Reads),
    RoleRule(3, 20, "allow", {"proposer"}, Reads \cup {"propose_mutation", "validate_command"}),
    RoleRule(4, 15, "deny", {"proposer"}, {"commit_command", "approve_command", "compensate_command"}) }

Zoned(approvalMode, redactionRules) ==
  [approvalMode |-> approvalMode, redactionRules |-> redactionRules]

DEFAULT_TRUST_ZONES ==
  [ zone \in {"internal", "ai-facing", "external"} |->
      CASE zone = "internal"  -> Zoned("auto", {})
        [] zone = "ai-facing" -> Zoned("require_approval_for_writes", {"artifact_content"})
        [] zone = "external"  -> Zoned("require_approval", {"artifact_content", "provenance_actors"}) ]

(* The rule names kinds, which visibility does not look at.                *)
DEFAULT_VISIBILITY_RULES == << [stores |-> {"artifact"}, uris |-> {}, existenceVisible |-> FALSE] >>

-----------------------------------------------------------------------------
(* What a kernel asks the engine.                                          *)
Who(s)  == setting.who[s]
Zone(s) == IF Who(s).trustZone \in DOMAIN setting.zones
           THEN setting.zones[Who(s).trustZone] ELSE None

Request(s, capability, store, kind, uri, verb) ==
  [identifiers |-> {Who(s).id} \cup Who(s).roles, trustZone |-> Who(s).trustZone,
   capability |-> capability, ownerStore |-> store, entityKind |-> kind,
   resourceUri |-> uri, commandVerb |-> verb]

Asks(s, capability)             == Request(s, capability, None, None, None, None)
AsksStore(s, capability, store) == Request(s, capability, store, None, None, None)
AsksVerb(s, capability, store, verb) == Request(s, capability, store, None, None, verb)

Decide(s, r) == evaluatePolicy(setting.policies, r, Zone(s))

enforce(s, r) == Decide(s, r).decision = "allow"

collectRedactionRules(s, decision) ==
  decision.redaction \cup (IF Zone(s) = None THEN {} ELSE Zone(s).redactionRules)

assertOwnerStore(store) == store \in OwnerStores

Visible(uri) == checkVisibility(setting.visibility, uri, uri[1])

hasAnyPerResourceRule(s, capability) ==
  \E p \in setting.policies :
    /\ p.decision = "deny"
    /\ matchCapabilities(Asks(s, capability), p)
    /\ matchPrincipals(Asks(s, capability), p)
    /\ p.uriPatterns \cup p.kinds \cup p.commandVerbs # {}

(* The question about one object, with its kind when it has one, and about *)
(* a source of which only the URI is known.                                *)
KindOf(uri) == IF uri[1] = "canonical" THEN queue[uri[2]].kind ELSE None

AsksSource(s, uri) == Request(s, "read_owner_truth", uri[1], None, uri, None)
AsksObject(s, uri) == Request(s, "read_owner_truth", uri[1], KindOf(uri), uri, None)

AsksRecord(s, source) == Request(s, "read_derivative", "index", None, source, None)

AsksLedger(s, c)  == Request(s, "read_command", "ledger", None, <<"ledger", c>>, None)
AsksCommand(s, c) == Request(s, "read_command", "ledger", None, <<"ledger", c>>, queue[c].verb)

-----------------------------------------------------------------------------
(* What redaction and the surfaces leave of an object.                     *)
redactEntity(e, rules) == [e EXCEPT !.attributes = @ /\ "entity_attributes" \notin rules]

redactArtifact(a, rules) == [a EXCEPT !.storagePath = @ /\ "artifact_content" \notin rules]

redactResolvedArtifact_Object(a, rules) == redactArtifact(a, rules)

redactResolvedArtifact(a, rules) ==
  [redactArtifact(a, rules) EXCEPT !.snippet = @ /\ "artifact_content" \notin rules]

redactCommand(c, rules) == [c EXCEPT !.payload = @ /\ "command_payload" \notin rules]

Entity(uri)   == [uri |-> uri, attributes |-> TRUE]
Artifact(uri) == [uri |-> uri, storagePath |-> TRUE, snippet |-> FALSE]
Wrapped(uri)  == [uri |-> uri, storagePath |-> TRUE, snippet |-> TRUE]

sanitizeArtifactForOutput(s, artifacts) ==
  IF setting.surface[s] = "kernel"
  THEN artifacts ELSE {[a EXCEPT !.storagePath = FALSE] : a \in artifacts}

(* The tool for bundles names its fields, and the snippet is not one.      *)
BundleArm(s, artifacts) ==
  IF setting.surface[s] = "mcp"
  THEN {[a EXCEPT !.snippet = FALSE] : a \in artifacts} ELSE artifacts

-----------------------------------------------------------------------------
(* Reads.  An answer is [outcome, objects].                                *)
Denied        == [outcome |-> "denied", objects |-> {}]
NotFound      == [outcome |-> "not_found", objects |-> {}]
Shown(shown)  == [outcome |-> "shown", objects |-> shown]

Unified(s, capability, missing) ==
  IF hasAnyPerResourceRule(s, capability) THEN Denied ELSE missing

EntityAt_FetchFirst(s, uri, missing) ==
  LET decision == Decide(s, AsksObject(s, uri))
  IN IF uri \notin truth THEN missing
     ELSE IF decision.decision = "deny" THEN Denied
     ELSE Shown({redactEntity(Entity(uri), collectRedactionRules(s, decision))})

(* One entity: the gate, the fetch, the gate again with URI and kind.      *)
EntityAt(s, uri, missing) ==
  IF ~enforce(s, AsksStore(s, "read_owner_truth", "canonical")) THEN Denied
  ELSE IF uri \notin truth THEN Unified(s, "read_owner_truth", missing)
  ELSE LET decision == Decide(s, AsksObject(s, uri))
       IN IF decision.decision = "deny" THEN Denied
          ELSE Shown({redactEntity(Entity(uri), collectRedactionRules(s, decision))})

inspectEntity(s, uri)    == EntityAt(s, uri, NotFound)
getEntityVersion(s, uri) == EntityAt(s, uri, Shown({}))

(* Of a set of URIs, what the principal may read, each redacted.           *)
ReadableEntities(s, uris) ==
  {redactEntity(Entity(u), collectRedactionRules(s, Decide(s, AsksObject(s, u)))) :
     u \in {v \in uris : v[1] = "canonical" /\ enforce(s, AsksObject(s, v))}}

ReadableArtifacts(s, uris) ==
  {redactArtifact(Artifact(u), collectRedactionRules(s, Decide(s, AsksObject(s, u)))) :
     u \in {v \in uris : v[1] = "artifact" /\ enforce(s, AsksObject(s, v))}}

listEntityVersions_Raw(s, uri) ==
  IF enforce(s, AsksStore(s, "read_owner_truth", "canonical"))
  THEN Shown({Entity(u) : u \in {uri} \cap truth}) ELSE Denied

listEntityVersions(s, uri) ==
  IF enforce(s, AsksStore(s, "read_owner_truth", "canonical"))
  THEN Shown(ReadableEntities(s, {uri} \cap truth)) ELSE Denied

listArtifactVersions(s, uri) ==
  IF enforce(s, AsksStore(s, "read_owner_truth", "artifact"))
  THEN Shown(sanitizeArtifactForOutput(s, ReadableArtifacts(s, {uri} \cap truth))) ELSE Denied

(* An index record is shown under three rules: its source as a derivative, *)
(* the source's owner truth, and visibility.  The owner truth of a source   *)
(* that was not just shown is asked again, from the URI alone.              *)
RecordShown(s, source, shown) ==
  /\ enforce(s, AsksRecord(s, source))
  /\ source \in shown \/ enforce(s, AsksSource(s, source))
  /\ Visible(source)

(* A search that matches every record, and the part of it that a limit and *)
(* an offset cut out before anything is filtered.                          *)
SearchIn(s, hits) ==
  LET found     == hits \cap truth
      entities  == ReadableEntities(s, found)
      artifacts == ReadableArtifacts(s, found)
      shown     == {o.uri : o \in entities} \cup {o.uri : o \in artifacts}
      records   == {u \in hits : RecordShown(s, u, shown)}
  IN IF enforce(s, AsksStore(s, "discover_existence", "index"))
     THEN [outcome |-> "shown", entities |-> entities, records |-> records,
           artifacts |-> sanitizeArtifactForOutput(s, artifacts),
           empty_reason |-> IF entities \cup artifacts # {} \/ records # {} THEN None
                            ELSE IF hits # {} THEN "all_filtered_by_policy"
                            ELSE IF indexed = {} THEN "no_data" ELSE "no_match"]
     ELSE [outcome |-> "denied", entities |-> {}, records |-> {}, artifacts |-> {},
           empty_reason |-> None]

findSources(s) == SearchIn(s, indexed)

(* Records are searched in the order of insertion, here that of the ids.   *)
Position(u) == Cardinality({v \in indexed : v[2] < u[2]})

Slice(limit, offset) == {u \in indexed : Position(u) >= offset /\ Position(u) < offset + limit}

(* The SDK's page: a cursor to the next one when this one is full.         *)
findPage(s, limit, offset) ==
  LET records == SearchIn(s, Slice(limit, offset)).records
  IN [items |-> records,
      nextCursor |-> IF Cardinality(records) = limit THEN offset + limit ELSE None]

(* A bundle is redacted twice: by each object's rules, then by the rules   *)
(* of the decision that let the call in.                                   *)
retrieveBundle(s) ==
  LET gate      == Decide(s, AsksStore(s, "read_derivative", "index"))
      blanket   == collectRedactionRules(s, gate)
      found     == indexed \cap truth
      artifacts == {redactResolvedArtifact(Wrapped(u), collectRedactionRules(s, Decide(s, AsksObject(s, u)))) :
                      u \in {v \in found : v[1] = "artifact" /\ enforce(s, AsksObject(s, v))}}
      entities  == ReadableEntities(s, found)
  IN IF gate.decision = "deny"
     THEN [outcome |-> "denied", entities |-> {}, records |-> {}, artifacts |-> {}]
     ELSE [outcome |-> "shown",
           entities |-> {redactEntity(e, blanket) : e \in entities},
           artifacts |-> BundleArm(s, sanitizeArtifactForOutput(s,
                           {redactResolvedArtifact(a, blanket) : a \in artifacts})),
           records |-> {u \in indexed : u \in {o.uri : o \in entities} \cup {o.uri : o \in artifacts}}]

AsCommand(s, c) ==
  redactCommand([id |-> c, status |-> Status(c), payload |-> TRUE],
                collectRedactionRules(s, Decide(s, AsksCommand(s, c))))

inspectCommand(s, c) ==
  IF ~enforce(s, AsksLedger(s, c)) THEN Denied
  ELSE IF c \notin Minted THEN Unified(s, "read_command", NotFound)
  ELSE IF ~enforce(s, AsksCommand(s, c)) THEN Denied
  ELSE Shown({AsCommand(s, c)})

listCommands(s) ==
  IF enforce(s, AsksStore(s, "read_command", "ledger"))
  THEN Shown({AsCommand(s, c) : c \in {d \in Minted : enforce(s, AsksCommand(s, d))}})
  ELSE Denied

-----------------------------------------------------------------------------
(* The errors of the lifecycle verbs, and the MCP server's hints.          *)
Refusal(tool, c) ==
  LET status == Status(c)
  IN CASE tool = "validate" /\ status # "proposed" -> "COMMAND_NOT_VALIDATED"
       [] tool = "commit" /\ status = "rejected" -> "COMMAND_REJECTED"
       [] tool = "commit" /\ status = "proposed" -> "COMMAND_NOT_VALIDATED"
       [] tool = "commit" /\ status \in {"committed", "compensated"} -> "COMMAND_ALREADY_TERMINAL"
       [] \/ tool = "approve" /\ status # "validated"
          \/ tool = "reject" /\ status \notin {"proposed", "validated", "approved"}
          \/ tool = "compensate" /\ status # "committed" -> "INVALID_STATE_TRANSITION"
       [] OTHER -> None

lifecycleNextValidActions(code, status) ==
  CASE code = "COMMAND_NOT_VALIDATED" -> {"validate", "reject"}
    [] code = "COMMAND_REJECTED" -> {"propose"}
    [] code = "COMMAND_ALREADY_TERMINAL" ->
         IF status = "committed" THEN {"compensate"} ELSE {"propose"}
    [] code = "INVALID_STATE_TRANSITION" ->
         (CASE status = "proposed" -> {"validate", "reject"}
            [] status = "validated" -> {"approve", "reject"}
            [] status = "approved" -> {"commit", "reject"}
            [] status = "committed" -> {"compensate"}
            [] OTHER -> {"inspect"})

(* The server's boot: whom it serves, and whether its gate is active.  An  *)
(* environment is [principal, zone, privileged]; None is a variable unset.  *)
MCP_PRIVILEGED_ZONES == {"internal", "cluster-admin"}

enforceMcpTrustZone(env) ==
  LET zone == IF env.zone # None THEN env.zone ELSE env.principal.trustZone
  IN IF zone \in MCP_PRIVILEGED_ZONES /\ ~env.privileged THEN {}
     ELSE {[env.principal EXCEPT !.trustZone = zone]}

mcpPrincipals(env) ==
  IF env.principal = None
  THEN {[id |-> "mcp-ai-facing", roles |-> {"observer"}, trustZone |-> "ai-facing"]}
  ELSE enforceMcpTrustZone(env)

mcpCommitGateActive(env) == ~env.privileged /\ env.zone \notin MCP_PRIVILEGED_ZONES

-----------------------------------------------------------------------------
Save(c, status) == queue' = [queue EXCEPT ![c].status = status]

Free(s)  == session[s] = Idle
Fresh(c) == c \notin Minted /\ \A d \in Commands \ Minted : c <= d

Propose(s, c, offer) ==
  /\ Free(s) /\ Fresh(c)
  /\ assertOwnerStore(offer.store)
  /\ enforce(s, AsksVerb(s, "propose_mutation", offer.store, offer.verb))
  /\ queue' = [queue EXCEPT ![c] = [status |-> "proposed", verb |-> offer.verb,
                                    store |-> offer.store, kind |-> offer.kind]]
  /\ UNCHANGED <<setting, truth, indexed, approved, writes, session>>

Validate(s, c) ==
  /\ Free(s) /\ c \in Minted
  /\ enforce(s, Asks(s, "validate_command"))
  /\ Refusal("validate", c) = None
  /\ Save(c, "validated")
  /\ UNCHANGED <<setting, truth, indexed, approved, writes, session>>

Approve(s, c) ==
  /\ Free(s) /\ c \in Minted
  /\ enforce(s, Asks(s, "approve_command"))
  /\ Refusal("approve", c) = None
  /\ Save(c, "approved")
  /\ approved' = approved \cup {c}
  /\ UNCHANGED <<setting, truth, indexed, writes, session>>

Reject(s, c) ==
  /\ Free(s) /\ c \in Minted
  /\ enforce(s, Asks(s, "reject_command"))
  /\ Refusal("reject", c) = None
  /\ Save(c, "rejected")
  /\ UNCHANGED <<setting, truth, indexed, approved, writes, session>>

GateOpens_Validated(s, c) ==
  \/ s \notin setting.gated
  \/ inspectCommand(s, c).outcome # "shown"
  \/ Status(c) \in {"validated", "approved"}

(* The tool's gate reads the status through the policed kernel; a read     *)
(* that throws opens the gate, and the commit gives its own error.         *)
GateOpens(s, c) ==
  \/ s \notin setting.gated
  \/ inspectCommand(s, c).outcome # "shown"
  \/ Status(c) = "approved"

CallCommit(s, c) ==
  /\ Free(s) /\ c \in Minted
  /\ GateOpens(s, c)
  /\ session' = [session EXCEPT ![s] = [pc |-> "ungated", command |-> c]]
  /\ UNCHANGED <<setting, queue, truth, indexed, approved, writes>>

At(s, pc)   == session[s].pc = pc
Named(s)    == session[s].command
Go(s, pc)   == session' = [session EXCEPT ![s].pc = pc]
Leave(s)    == session' = [session EXCEPT ![s] = Idle]
CommitAllowed_Approved(s, c) == Status(c) = "approved" \/ enforce(s, Asks(s, "commit_command"))

CommitAllowed(s, c) ==
  enforce(s, AsksVerb(s, "commit_command", queue[c].store, queue[c].verb))

(* commitMutation: fetch, policy with the command's store and verb, then   *)
(* the kernel's own check of the status.                                   *)
CommitMutation(s) ==
  /\ At(s, "ungated")
  /\ IF CommitAllowed(s, Named(s)) /\ Refusal("commit", Named(s)) = None
     THEN Go(s, "writing") ELSE Leave(s)
  /\ UNCHANGED <<setting, queue, truth, indexed, approved, writes>>

StoreWrite(s) ==
  /\ At(s, "writing")
  /\ truth' = truth \cup ObjectOf(Named(s))
  /\ writes' = writes \cup {[by |-> s, command |-> Named(s), verb |-> queue[Named(s)].verb]}
  /\ Go(s, "saving")
  /\ UNCHANGED <<setting, queue, indexed, approved>>

SaveCommitted(s) ==
  /\ At(s, "saving")
  /\ indexed' = indexed \cup ObjectOf(Named(s))
  /\ Save(Named(s), "committed")
  /\ Leave(s)
  /\ UNCHANGED <<setting, truth, approved, writes>>

CompensateAllowed(s, c) ==
  enforce(s, AsksVerb(s, "compensate_command", queue[c].store, "compensate"))

CompensateMutation(s, c) ==
  /\ Free(s) /\ c \in Minted
  /\ s \notin setting.gated
  /\ CompensateAllowed(s, c)
  /\ Refusal("compensate", c) = None
  /\ session' = [session EXCEPT ![s] = [pc |-> "compensating", command |-> c]]
  /\ UNCHANGED <<setting, queue, truth, indexed, approved, writes>>

SaveCompensation(s, d) ==
  /\ At(s, "compensating") /\ Fresh(d)
  /\ queue' = [queue EXCEPT ![Named(s)].status = "compensated",
                            ![d] = [status |-> "committed", verb |-> "compensate",
                                    store |-> queue[Named(s)].store, kind |-> queue[Named(s)].kind]]
  /\ writes' = writes \cup {[by |-> s, command |-> Named(s), verb |-> "compensate"]}
  /\ Leave(s)
  /\ UNCHANGED <<setting, truth, indexed, approved>>

(* The direct verbs, which only the kernel itself offers: policy, then     *)
(* write, index and synthetic command; how those steps interleave and fail *)
(* is the subject of ClusterKernel.                                        *)
Direct(s, c, verb, store, kind) ==
  /\ Free(s) /\ Fresh(c)
  /\ setting.surface[s] = "kernel"
  /\ enforce(s, AsksVerb(s, "commit_command", store, verb))
  /\ queue' = [queue EXCEPT ![c] = [status |-> "committed", verb |-> verb,
                                    store |-> store, kind |-> kind]]
  /\ writes' = writes \cup {[by |-> s, command |-> c, verb |-> verb]}
  /\ UNCHANGED <<setting, approved, session>>

CreateEntity(s, c, offer) ==
  /\ offer.verb = "create_entity"
  /\ Direct(s, c, "create_entity", "canonical", offer.kind)
  /\ truth' = truth \cup {<<"canonical", c>>}
  /\ indexed' = indexed \cup {<<"canonical", c>>}

IngestArtifact(s, c) ==
  /\ Direct(s, c, "ingest_artifact", "artifact", None)
  /\ truth' = truth \cup {<<"artifact", c>>}
  /\ indexed' = indexed \cup {<<"artifact", c>>}

LinkEvidence(s, c) ==
  /\ {u[1] : u \in truth} = {"canonical", "artifact"}
  /\ Direct(s, c, "link_evidence", "canonical", None)
  /\ UNCHANGED <<truth, indexed>>

(* The rebuild is asked about without a store; its command targets index.  *)
RebuildIndex(s, c) ==
  /\ Free(s) /\ Fresh(c)
  /\ setting.surface[s] = "kernel"
  /\ enforce(s, AsksVerb(s, "commit_command", None, "reindex"))
  /\ queue' = [queue EXCEPT ![c] = [status |-> "committed", verb |-> "reindex",
                                    store |-> "index", kind |-> None]]
  /\ writes' = writes \cup {[by |-> s, command |-> c, verb |-> "reindex"]}
  /\ indexed' = truth
  /\ UNCHANGED <<setting, truth, approved, session>>

Init ==
  /\ setting \in Settings
  /\ queue = [c \in Commands |-> NoCommand]
  /\ truth = Held
  /\ indexed = Held \cup Lost
  /\ approved = {}
  /\ writes = {}
  /\ session = [s \in Sessions |-> Idle]

Next ==
  \E s \in Sessions :
    \/ CommitMutation(s) \/ StoreWrite(s) \/ SaveCommitted(s)
    \/ \E c \in Commands :
         \/ \E offer \in Offers : Propose(s, c, offer) \/ CreateEntity(s, c, offer)
         \/ Validate(s, c) \/ Approve(s, c) \/ Reject(s, c) \/ CallCommit(s, c)
         \/ CompensateMutation(s, c) \/ SaveCompensation(s, c)
         \/ IngestArtifact(s, c) \/ LinkEvidence(s, c) \/ RebuildIndex(s, c)

Spec == Init /\ [][Next]_vars

-----------------------------------------------------------------------------
(* Every variable holds what the code may put there.                       *)
PolicedTypeOK ==
  /\ setting \in Settings
  /\ \A c \in Commands : Status(c) \in Law!Statuses \cup {"none"}
  /\ truth \cup indexed \subseteq ({"canonical", "artifact"} \X Commands) \cup Held \cup Lost
  /\ approved \subseteq Commands
  /\ \A s \in Sessions :
       /\ session[s].pc \in {"idle", "ungated", "writing", "saving", "compensating"}
       /\ session[s].pc # "idle" => Named(s) \in Minted

(* The engine decides as the reference does: some applicable allow ranks    *)
(* above every applicable deny (evaluatePolicy and its sort).  A fact of    *)
(* the setting, so checked before the first command.                        *)
DecisionIsReference ==
  Minted = {} => \A r \in Requests :
    (evaluatePolicy(setting.policies, r, None).decision = "allow") <=> Permits(setting.policies, r)

(* Every write was one that the policies permit this principal for the verb *)
(* and the store that the written command names, whatever the command was   *)
(* when the call began (commitMutation, compensateMutation, direct verbs).  *)
WritesAuthorized ==
  \A w \in writes :
    LET capability == IF w.verb = "compensate" THEN "compensate_command" ELSE "commit_command"
    IN Permits(setting.policies, AsksVerb(w.by, capability, queue[w.command].store, w.verb))

(* Under the default policies only an administrator writes: what observers  *)
(* and proposers do never adds up to a write of theirs.                     *)
DefaultsSeparateDuties ==
  setting.policies = DEFAULT_POLICIES =>
    \A w \in writes : "cluster-admin" \in Who(w.by).roles

(* A gated session that may read commands only ever writes what somebody    *)
(* approved, whatever others do between its gate and its write (server.ts   *)
(* commit gate in front of a kernel that commits validated commands too).   *)
GatedWritesApproved ==
  \A w \in writes :
    /\ w.by \in setting.gated
    /\ enforce(w.by, AsksStore(w.by, "read_command", "ledger"))
    /\ w.verb \in {o.verb : o \in Offers}
    => w.command \in approved

(* An index record is shown only of a source whose owner truth the          *)
(* principal may read, its kind considered, though findSources asks again   *)
(* without the kind when the source was filtered out.                       *)
RecordsFollowOwnerTruth ==
  \A s \in Sessions : \A u \in findSources(s).records :
    Permits(setting.policies, IF u \in truth THEN AsksObject(s, u) ELSE AsksSource(s, u))

(* What a single read shows of an entity or a command, every list, search   *)
(* and bundle that is not refused shows too, redacted no less; and a list   *)
(* of commands that is not refused leaves none out.  Nor does a walk over   *)
(* pages leave out a record, unless a page was cut short by the policies:   *)
(* such a page ends the walk.                                               *)
ViewsAgree ==
  \A s \in Sessions :
    LET search == findSources(s)
        bundle == retrieveBundle(s)
        list   == listCommands(s)
    IN /\ \A u \in {v \in truth \cap indexed : v[1] = "canonical"} :
            LET single == inspectEntity(s, u)
            IN single.outcome = "shown" =>
                 /\ listEntityVersions(s, u) = single
                 /\ getEntityVersion(s, u) = single
                 /\ search.outcome = "shown" => single.objects \subseteq search.entities
                 /\ \A e \in bundle.entities : e.uri = u /\ e.attributes => e \in single.objects
       /\ list.outcome = "shown" =>
            list.objects = UNION {inspectCommand(s, c).objects : c \in Minted}
       /\ setting.surface[s] = "sdk" => \A limit \in 1..2 :
            LET pages  == {[at |-> o, page |-> findPage(s, limit, o)] :
                             o \in {n \in 0..Cardinality(indexed) : n % limit = 0}}
                walked == {p \in pages : \A q \in pages : q.at < p.at => q.page.nextCursor = q.at + limit}
                items  == UNION {p.page.items : p \in walked}
            IN /\ items \subseteq search.records
               /\ items = search.records \/ \E p \in walked : p.page.items # Slice(limit, p.at)

(* Where a rule withholds artifact content, nothing that a surface returns  *)
(* holds the content, be it by path or by snippet; and outside the kernel   *)
(* no surface returns a path at all.                                        *)
ContentWithheld ==
  \A s \in Sessions :
    LET gate == collectRedactionRules(s, Decide(s, AsksStore(s, "read_derivative", "index")))
        Withheld(u) == "artifact_content" \in collectRedactionRules(s, Decide(s, AsksObject(s, u)))
    IN /\ \A a \in retrieveBundle(s).artifacts :
            /\ Withheld(a.uri) \/ "artifact_content" \in gate => ~a.storagePath /\ ~a.snippet
            /\ setting.surface[s] # "kernel" => ~a.storagePath
       /\ \A a \in findSources(s).artifacts \cup UNION {listArtifactVersions(s, u).objects : u \in truth} :
            Withheld(a.uri) \/ setting.surface[s] # "kernel" => ~a.storagePath

(* Whether an id exists is not told to those who may not read it: a read    *)
(* that is denied once the object exists was denied before it did.          *)
CreationIsNotTold ==
  [][\A s \in Sessions, c \in Commands :
       /\ c \in Minted' \ Minted /\ inspectCommand(s, c)'.outcome = "denied"
          => inspectCommand(s, c).outcome = "denied"
       /\ <<"canonical", c>> \in truth' \ truth /\ inspectEntity(s, <<"canonical", c>>)'.outcome = "denied"
          => /\ inspectEntity(s, <<"canonical", c>>).outcome = "denied"
             /\ getEntityVersion(s, <<"canonical", c>>).outcome = "denied"]_vars

(* A hint that comes with a lifecycle error names moves that the lifecycle  *)
(* law allows from the status the command is in: the server's mirror of     *)
(* validTransitions().  Validating twice is left out: its error is the one  *)
(* the hints read as "still proposed".                                      *)
HintIsLegal ==
  LET target == [validate |-> "validated", approve |-> "approved", reject |-> "rejected",
                 commit |-> "committed", compensate |-> "compensated"]
  IN \A c \in Minted, tool \in {"approve", "reject", "commit", "compensate"} :
       Refusal(tool, c) # None =>
         \A hint \in lifecycleNextValidActions(Refusal(tool, c), Status(c)) \cap DOMAIN target :
           target[hint] \in Law!validTransitions[Status(c)]
===========================================================================
