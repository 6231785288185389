--------------------------- MODULE PolicyEngine ---------------------------
(***************************************************************************)
(* policy/policy-engine.ts: the decision about one request under a set of  *)
(* policies.  An omitted match list is the empty set; a URI is a pair      *)
(* <<store, id>>, a URI pattern the set of URIs it is a prefix of.  What a *)
(* request leaves out is None.                                             *)
(***************************************************************************)
EXTENDS Naturals

CONSTANTS
  Policies,   \* every policy that a configuration may hold
  None        \* a request's omitted field, an answer's omitted part

OwnerStores == {"canonical", "artifact", "index", "ledger"}

Capabilities == {"discover_existence", "read_owner_truth", "read_derivative",
                 "trace_provenance", "propose_mutation", "validate_command",
                 "approve_command", "reject_command", "commit_command",
                 "compensate_command", "read_receipts", "read_command",
                 "explain_retrieval"}

Before_NoTieRule(p, q) == p.priority < q.priority \/ (p.priority = q.priority /\ p.id < q.id)

(* Array.sort: by priority, at one priority deny before allow, then by id. *)
Before(p, q) ==
  \/ p.priority < q.priority
  \/ p.priority = q.priority /\ p.decision = "deny" /\ q.decision = "allow"
  \/ p.priority = q.priority /\ p.decision = q.decision /\ p.id < q.id

(* Sorting an array of policies puts one of them first.                    *)
ASSUME SortAssumption ==
  /\ \A p \in Policies : p.priority \in Nat /\ p.decision \in {"allow", "deny"}
  /\ \A S \in SUBSET Policies : S # {} => \E p \in S : \A q \in S \ {p} : Before(p, q)
  /\ \A p, q \in Policies : ~(Before(p, q) /\ Before(q, p))

matchPrincipals(r, p) == p.principals = {} \/ p.principals \cap r.identifiers # {}

matchTrustZones(r, p) == p.trustZones = {} \/ r.trustZone \in p.trustZones

matchCapabilities_Hint(r, p) == p.capabilities = {} \/ r.capability # None

matchCapabilities(r, p) == p.capabilities = {} \/ r.capability \in p.capabilities

MatchField_Open(constraint, value, decision) == constraint = {} \/ value \in constraint

(* A field the policy constrains and the request leaves out: a deny still  *)
(* applies, an allow does not.                                             *)
MatchField(constraint, value, decision) ==
  \/ constraint = {}
  \/ value = None /\ decision = "deny"
  \/ value # None /\ value \in constraint

matchStores(r, p) == "*" \in p.stores \/ MatchField(p.stores, r.ownerStore, p.decision)

matchKinds(r, p) == MatchField(p.kinds, r.entityKind, p.decision)

matchUriPatterns(r, p) == MatchField(p.uriPatterns, r.resourceUri, p.decision)

matchCommandVerbs(r, p) == MatchField(p.commandVerbs, r.commandVerb, p.decision)

matchPolicy(r, p) ==
  /\ matchPrincipals(r, p)
  /\ matchTrustZones(r, p)
  /\ matchCapabilities(r, p)
  /\ matchStores(r, p)
  /\ matchKinds(r, p)
  /\ matchUriPatterns(r, p)
  /\ matchCommandVerbs(r, p)

(* The owner store of a request that names only a URI; a receipt URI has a *)
(* store of its own that is none of the four.                              *)
deriveOwnerStore(r) ==
  IF r.ownerStore = None /\ r.resourceUri # None /\ r.resourceUri[1] \in OwnerStores
  THEN [r EXCEPT !.ownerStore = r.resourceUri[1]]
  ELSE r

Matching(policies, r) ==
  LET asked == deriveOwnerStore(r) IN {p \in policies : matchPolicy(asked, p)}

(* The first of the sorted policies that match.                            *)
FirstMatch(matching) ==
  CHOOSE p \in matching : \A q \in matching \ {p} : Before(p, q)

isWriteAction(capability) == capability \in {"commit_command", "compensate_command"}

(* A zone is [approvalMode, redactionRules]; None is a zone nobody defined. *)
applyTrustZoneRestrictions(decision, r, zone) ==
  IF /\ zone # None
     /\ decision.decision = "allow"
     /\ isWriteAction(r.capability)
     /\ zone.approvalMode \in {"require_approval", "require_approval_for_writes"}
  THEN [decision EXCEPT !.requiresApproval = TRUE]
  ELSE decision

defaultDeny ==
  [decision |-> "deny", matchedPolicyId |-> None, redaction |-> {}, requiresApproval |-> FALSE]

evaluatePolicy(policies, r, zone) ==
  LET matching == Matching(policies, r)
      p        == FirstMatch(matching)
  IN IF matching = {} THEN defaultDeny
     ELSE applyTrustZoneRestrictions(
            [decision |-> p.decision, matchedPolicyId |-> p.id,
             redaction |-> p.redaction, requiresApproval |-> FALSE], r, zone)

(* A visibility rule is [stores, uris, existenceVisible]; the first that   *)
(* matches decides, and what no rule matches is hidden.                    *)
scopeMatchesResource(scope, uri, store) ==
  /\ store # None => {"*", store} \cap scope.stores # {}
  /\ uri # None /\ scope.uris # {} => uri \in scope.uris

checkVisibility(rules, uri, store) ==
  /\ uri # None \/ store # None
  /\ \E i \in DOMAIN rules :
       /\ rules[i].existenceVisible
       /\ scopeMatchesResource(rules[i], uri, store)
       /\ \A j \in 1..(i - 1) : ~scopeMatchesResource(rules[j], uri, store)

-----------------------------------------------------------------------------
(* What the decision promises, said without a sort: some allow applies,    *)
(* and every deny that applies is ranked strictly below it.                *)
Permits(policies, r) ==
  \E p \in Matching(policies, r) :
    /\ p.decision = "allow"
    /\ \A q \in Matching(policies, r) : q.decision = "deny" => p.priority < q.priority

(* d says all that r says, and maybe more.                                 *)
Completes(d, r) ==
  /\ d.identifiers = r.identifiers
  /\ d.trustZone = r.trustZone
  /\ d.capability = r.capability
  /\ deriveOwnerStore(r).ownerStore \in {None, deriveOwnerStore(d).ownerStore}
  /\ r.entityKind \in {None, d.entityKind}
  /\ r.resourceUri \in {None, d.resourceUri}
  /\ r.commandVerb \in {None, d.commandVerb}
===========================================================================
