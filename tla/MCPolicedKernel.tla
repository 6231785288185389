-------------------------- MODULE MCPolicedKernel --------------------------
(* PolicedKernel under the default policies and variations of them.         *)
EXTENDS PolicedKernel

Rule(id, priority, decision) == RoleRule(id, priority, decision, {}, {})

CommitsCanonical  == [Rule(11, 5, "allow") EXCEPT !.principals = {"proposer"},
                        !.capabilities = {"commit_command"}, !.stores = {"canonical"}]
NoIngest          == [Rule(12, 5, "deny") EXCEPT !.capabilities = {"commit_command"},
                        !.commandVerbs = {"ingest_artifact"}]
NoSecrets         == [Rule(13, 5, "deny") EXCEPT !.principals = {"observer", "proposer"},
                        !.capabilities = {"read_owner_truth"}, !.kinds = {"secret"}]
AttributesHidden  == [Rule(14, 5, "allow") EXCEPT !.capabilities = {"read_owner_truth"},
                        !.uriPatterns = {<<"canonical", 1>>}, !.redaction = {"entity_attributes"}]
OneCommandHidden  == [Rule(15, 6, "deny") EXCEPT !.capabilities = {"read_command"},
                        !.uriPatterns = {<<"ledger", 1>>}]
PayloadsHidden    == [Rule(16, 5, "allow") EXCEPT !.capabilities = {"read_command"},
                        !.commandVerbs = {"create_entity"}, !.redaction = {"command_payload"}]
NoDerivative      == [Rule(17, 5, "deny") EXCEPT !.capabilities = {"read_derivative"},
                        !.uriPatterns = {<<"canonical", 1>>}]
AiWrites          == [Rule(18, 4, "allow") EXCEPT !.trustZones = {"ai-facing"},
                        !.capabilities = {"approve_command", "reject_command", "commit_command", "compensate_command"}]
BundlesBare       == [Rule(19, 4, "allow") EXCEPT !.capabilities = {"read_derivative"},
                        !.redaction = {"artifact_content"}]

MCPolicies == DEFAULT_POLICIES \cup
  {CommitsCanonical, NoIngest, NoSecrets, AttributesHidden, OneCommandHidden, PayloadsHidden,
   NoDerivative, AiWrites, BundlesBare}

Variations ==
  { {}, {CommitsCanonical, NoIngest}, {NoSecrets, AttributesHidden, PayloadsHidden, NoDerivative},
    {OneCommandHidden, AiWrites}, {BundlesBare, NoSecrets, AiWrites} }

AllVisible == [stores |-> {"*"}, uris |-> {}, existenceVisible |-> TRUE]
OneHidden  == [stores |-> {"canonical"}, uris |-> {<<"canonical", 2>>}, existenceVisible |-> FALSE]

MCSessions == {"human", "ai"}

Environments ==
  { [principal |-> None, zone |-> None, privileged |-> FALSE],
    [principal |-> [id |-> "ai", roles |-> {"proposer"}, trustZone |-> "ai-facing"],
     zone |-> None, privileged |-> FALSE],
    [principal |-> [id |-> "ai", roles |-> {"proposer"}, trustZone |-> "ai-facing"],
     zone |-> "internal", privileged |-> TRUE] }

Serving(env, human, surface, more) ==
  { [policies |-> DEFAULT_POLICIES \cup more, zones |-> DEFAULT_TRUST_ZONES,
     visibility |-> IF more = {} THEN DEFAULT_VISIBILITY_RULES ELSE <<OneHidden, AllVisible>>,
     who |-> [human |-> human, ai |-> ai],
     surface |-> [human |-> "kernel", ai |-> surface],
     gated |-> IF surface = "mcp" /\ mcpCommitGateActive(env) THEN {"ai"} ELSE {}] :
    ai \in mcpPrincipals(env) }

Admin == [id |-> "human", roles |-> {"cluster-admin"}, trustZone |-> "internal"]
Both  == [Admin EXCEPT !.roles = @ \cup {"proposer"}]

(* An AI on the MCP surface beside an administrator, under every variation, *)
(* or under two when it is trusted; and an observer or a trusted proposer *)
(* on the SDK, under two of them.                                          *)
MCSettings ==
  UNION ({ Serving(env, Admin, "mcp", more) :
             env \in {e \in Environments : ~e.privileged}, more \in Variations } \cup
         { Serving(env, Admin, "mcp", more) :
             env \in {e \in Environments : e.privileged},
             more \in {{}, {OneCommandHidden, AiWrites}} } \cup
         { Serving(env, Both, "sdk", {BundlesBare, NoSecrets, AiWrites}) :
             env \in {e \in Environments : e.principal = None \/ e.privileged} } \cup
         { Serving(env, Both, "sdk", {OneCommandHidden, AiWrites}) :
             env \in {e \in Environments : e.privileged} })

MCRequests ==
  { [identifiers |-> {"x", role}, trustZone |-> zone, capability |-> capability, ownerStore |-> store,
     entityKind |-> kind, resourceUri |-> uri, commandVerb |-> verb] :
      role \in {"observer", "proposer"}, zone \in {"internal", "ai-facing"},
      capability \in {"commit_command", "read_owner_truth", "read_command"},
      store \in {None, "canonical"}, kind \in {None, "secret"},
      uri \in {None, <<"canonical", 1>>}, verb \in {None, "ingest_artifact"} }

MCOffers ==
  { [verb |-> "create_entity", store |-> "canonical", kind |-> "secret"],
    [verb |-> "ingest_artifact", store |-> "artifact", kind |-> None] }

MCHeld == { <<"artifact", 0>> }

MCLost == { <<"canonical", 9>> }
===========================================================================
