------------------------ MODULE PolicedKernelProofs ------------------------
(***************************************************************************)
(* What the policed kernel promises of writes and reads, for any policies, *)
(* principals, trust zones and commands.                                   *)
(***************************************************************************)
EXTENDS PolicedKernel, PickingProofs

-----------------------------------------------------------------------------
(***************************************************************************)
(* What evaluatePolicy decides, for every set of policies.                 *)
(***************************************************************************)

(* PolicyEvaluationRequest: identifiers and fields of any kind.            *)
RequestsOver(Names, Values) ==
  [identifiers : Names, trustZone : Values, capability : Values, ownerStore : Values,
   entityKind : Values, resourceUri : Values, commandVerb : Values]

(* Sorting some policies puts FirstMatch before the others.                *)
LEMMA FirstIsFirst ==
  ASSUME NEW M \in SUBSET Policies, M # {}
  PROVE  /\ FirstMatch(M) \in M
         /\ \A q \in M \ {FirstMatch(M)} : Before(FirstMatch(M), q)
  <1>1. \E p \in M : \A q \in M \ {p} : Before(p, q)
    BY SortAssumption
  <1> QED
    BY <1>1 DEF FirstMatch

(* Whatever the zone adds, the decision is the first match's, or a denial  *)
(* if nothing matches.                                                     *)
LEMMA DecisionOfFirst ==
  ASSUME NEW P, NEW r, NEW zone
  PROVE  evaluatePolicy(P, r, zone).decision =
           IF Matching(P, r) = {} THEN "deny" ELSE FirstMatch(Matching(P, r)).decision
  <1> DEFINE p == FirstMatch(Matching(P, r))
             d == [decision |-> p.decision, matchedPolicyId |-> p.id,
                   redaction |-> p.redaction, requiresApproval |-> FALSE]
  <1>1. CASE Matching(P, r) = {}
    BY <1>1 DEF evaluatePolicy, defaultDeny
  <1>2. CASE Matching(P, r) # {}
    <2>1. evaluatePolicy(P, r, zone) = applyTrustZoneRestrictions(d, r, zone)
      BY <1>2 DEF evaluatePolicy
    <2>2. applyTrustZoneRestrictions(d, r, zone).decision = d.decision
      BY DEF applyTrustZoneRestrictions
    <2> QED
      BY <1>2, <2>1, <2>2
  <1> QED
    BY <1>1, <1>2

(* evaluatePolicy allows iff some applicable allow ranks strictly above    *)
(* every applicable deny, whatever the policies, their number, the request *)
(* and the zone: the sort, its tie rules and the stop at the first match   *)
(* compute no more and no less than this.                                  *)
THEOREM DecisionMeetsReference ==
  ASSUME NEW P \in SUBSET Policies, NEW r, NEW zone
  PROVE  (evaluatePolicy(P, r, zone).decision = "allow") <=> Permits(P, r)
  <1> DEFINE M == Matching(P, r)
             p == FirstMatch(M)
  <1>1. M \in SUBSET Policies
    BY DEF Matching
  <1>2. CASE M = {}
    <2>1. ~Permits(P, r)
      BY <1>2 DEF Permits
    <2> QED
      BY <1>2, <2>1, DecisionOfFirst
  <1>3. CASE M # {}
    <2>1. p \in M /\ \A q \in M \ {p} : Before(p, q)
      BY <1>1, <1>3, FirstIsFirst
    <2>2. \A q \in M : q.priority \in Nat /\ q.decision \in {"allow", "deny"}
      BY <1>1, SortAssumption
    <2>3. ASSUME p.decision = "allow" PROVE Permits(P, r)
      <3>1. ASSUME NEW q \in M, q.decision = "deny" PROVE p.priority < q.priority
        <4>1. q # p
          BY <2>3, <3>1
        <4>2. Before(p, q)
          BY <2>1, <4>1
        <4> QED
          BY <2>3, <3>1, <4>2 DEF Before
      <3> QED
        BY <2>1, <2>3, <3>1 DEF Permits
    <2>4. ASSUME Permits(P, r) PROVE p.decision = "allow"
      <3>1. PICK a \in M : /\ a.decision = "allow"
                           /\ \A q \in M : q.decision = "deny" => a.priority < q.priority
        BY <2>4 DEF Permits
      <3>2. SUFFICES ASSUME p.decision = "deny" PROVE FALSE
        BY <2>1, <2>2
      <3>3. a # p /\ a.priority < p.priority
        BY <2>1, <3>1, <3>2
      <3>4. Before(p, a)
        BY <2>1, <3>3
      <3>5. p.priority =< a.priority
        BY <2>1, <2>2, <3>4 DEF Before
      <3> QED
        BY <2>1, <2>2, <3>3, <3>5
    <2>5. evaluatePolicy(P, r, zone).decision = p.decision
      BY <1>3, DecisionOfFirst
    <2> QED
      BY <2>3, <2>4, <2>5
  <1> QED
    BY <1>2, <1>3

(* A field that the request fills in can only lose denials and gain        *)
(* allowances.                                                             *)
LEMMA FieldsOfTheCompleted ==
  ASSUME NEW constraint, NEW coarse, NEW fine, coarse \in {None, fine}
  PROVE  /\ MatchField(constraint, coarse, "allow") => MatchField(constraint, fine, "allow")
         /\ MatchField(constraint, fine, "deny") => MatchField(constraint, coarse, "deny")
  BY DEF MatchField

(* deriveOwnerStore leaves the other fields alone.                         *)
LEMMA DerivedFields ==
  ASSUME NEW Names, NEW Values, NEW r \in RequestsOver(Names, Values)
  PROVE  /\ deriveOwnerStore(r).identifiers = r.identifiers
         /\ deriveOwnerStore(r).trustZone   = r.trustZone
         /\ deriveOwnerStore(r).capability  = r.capability
         /\ deriveOwnerStore(r).entityKind  = r.entityKind
         /\ deriveOwnerStore(r).resourceUri = r.resourceUri
         /\ deriveOwnerStore(r).commandVerb = r.commandVerb
  BY DEF deriveOwnerStore, RequestsOver

(* PolicyEnforcedKernel asks twice: before it reads an object, with what   *)
(* the caller gave, and afterwards with the object's store, kind, URI and  *)
(* verb.  What the first question is allowed, the second is allowed too,   *)
(* under any policies: it decides about redaction only.                    *)
THEOREM SecondQuestionAgrees ==
  ASSUME NEW Names, NEW Values,
         NEW r \in RequestsOver(Names, Values), NEW d \in RequestsOver(Names, Values),
         Completes(d, r),
         NEW P \in SUBSET Policies, Permits(P, r)
  PROVE  Permits(P, d)
  <1> DEFINE coarse == deriveOwnerStore(r)
             fine   == deriveOwnerStore(d)
  <1>1. /\ coarse.identifiers = fine.identifiers
        /\ coarse.trustZone = fine.trustZone
        /\ coarse.capability = fine.capability
        /\ coarse.ownerStore \in {None, fine.ownerStore}
        /\ coarse.entityKind \in {None, fine.entityKind}
        /\ coarse.resourceUri \in {None, fine.resourceUri}
        /\ coarse.commandVerb \in {None, fine.commandVerb}
    BY DerivedFields DEF Completes
  <1>2. ASSUME NEW p \in P, p.decision = "allow", p \in Matching(P, r)
        PROVE  p \in Matching(P, d)
    <2>1. matchPolicy(coarse, p)
      BY <1>2 DEF Matching
    <2>2. matchPrincipals(fine, p) /\ matchTrustZones(fine, p) /\ matchCapabilities(fine, p)
      BY <1>1, <2>1 DEF matchPolicy, matchPrincipals, matchTrustZones, matchCapabilities
    <2>3. /\ matchStores(fine, p) /\ matchKinds(fine, p)
          /\ matchUriPatterns(fine, p) /\ matchCommandVerbs(fine, p)
      BY <1>1, <1>2, <2>1, FieldsOfTheCompleted
         DEF matchPolicy, matchStores, matchKinds, matchUriPatterns, matchCommandVerbs
    <2> QED
      BY <2>2, <2>3 DEF Matching, matchPolicy
  <1>3. ASSUME NEW q \in P, q.decision = "deny", q \in Matching(P, d)
        PROVE  q \in Matching(P, r)
    <2>1. matchPolicy(fine, q)
      BY <1>3 DEF Matching
    <2>2. matchPrincipals(coarse, q) /\ matchTrustZones(coarse, q) /\ matchCapabilities(coarse, q)
      BY <1>1, <2>1 DEF matchPolicy, matchPrincipals, matchTrustZones, matchCapabilities
    <2>3. /\ matchStores(coarse, q) /\ matchKinds(coarse, q)
          /\ matchUriPatterns(coarse, q) /\ matchCommandVerbs(coarse, q)
      BY <1>1, <1>3, <2>1, FieldsOfTheCompleted
         DEF matchPolicy, matchStores, matchKinds, matchUriPatterns, matchCommandVerbs
    <2> QED
      BY <2>2, <2>3 DEF Matching, matchPolicy
  <1>4. PICK a \in Matching(P, r) :
          /\ a.decision = "allow"
          /\ \A q \in Matching(P, r) : q.decision = "deny" => a.priority < q.priority
    BY DEF Permits
  <1>5. a \in Matching(P, d)
    BY <1>2, <1>4 DEF Matching
  <1>6. \A q \in Matching(P, d) : q.decision = "deny" => a.priority < q.priority
    BY <1>3, <1>4 DEF Matching
  <1> QED
    BY <1>4, <1>5, <1>6 DEF Permits

(* The same for two requests of one principal for one capability.          *)
RequestOf(identifiers, zone, capability, store, kind, uri, verb) ==
  [identifiers |-> identifiers, trustZone |-> zone, capability |-> capability,
   ownerStore |-> store, entityKind |-> kind, resourceUri |-> uri, commandVerb |-> verb]

LEMMA FillingInKeepsPermission ==
  ASSUME NEW P \in SUBSET Policies, NEW i, NEW z, NEW c,
         NEW o, NEW k, NEW u, NEW v, NEW o2, NEW k2, NEW u2, NEW v2,
         deriveOwnerStore(RequestOf(i, z, c, o, k, u, v)).ownerStore
           \in {None, deriveOwnerStore(RequestOf(i, z, c, o2, k2, u2, v2)).ownerStore},
         k \in {None, k2}, u \in {None, u2}, v \in {None, v2},
         Permits(P, RequestOf(i, z, c, o, k, u, v))
  PROVE  Permits(P, RequestOf(i, z, c, o2, k2, u2, v2))
  <1> DEFINE coarse == RequestOf(i, z, c, o, k, u, v)
             fine   == RequestOf(i, z, c, o2, k2, u2, v2)
             Names  == {i}
             Values == {z, c, o, k, u, v, o2, k2, u2, v2}
  <1>1. coarse \in RequestsOver(Names, Values) /\ fine \in RequestsOver(Names, Values)
    BY DEF RequestOf, RequestsOver
  <1>2. Completes(fine, coarse)
    BY DEF Completes, RequestOf
  <1> HIDE DEF coarse, fine, Names, Values
  <1>3. Permits(P, coarse)
    BY DEF coarse
  <1>4. Permits(P, fine)
    BY <1>1, <1>2, <1>3, SecondQuestionAgrees
  <1> QED
    BY <1>4 DEF fine

-----------------------------------------------------------------------------
(***************************************************************************)
(* The kernel behind the policies.                                         *)
(***************************************************************************)

(* The policies of configuration S permit s this request.                  *)
Permitted(S, s, c, o, k, u, v) ==
  Permits(S.policies,
          RequestOf({S.who[s].id} \cup S.who[s].roles, S.who[s].trustZone, c, o, k, u, v))

(* enforce allows what the policies permit, before a step and after it.    *)
LEMMA EnforceIsPermitted ==
  ASSUME setting \in Settings
  PROVE  \A s, c, o, k, u, v :
           enforce(s, Request(s, c, o, k, u, v)) <=> Permitted(setting, s, c, o, k, u, v)
  <1>1. setting.policies \in SUBSET Policies
    BY SettingsAssumption
  <1> QED
    BY <1>1, DecisionMeetsReference DEF enforce, Decide, Request, RequestOf, Permitted, Who

LEMMA EnforceNext ==
  ASSUME setting \in Settings, setting' = setting
  PROVE  \A s, c, o, k, u, v :
           enforce(s, Request(s, c, o, k, u, v))' <=> Permitted(setting, s, c, o, k, u, v)
  <1>1. \A s, c, o, k, u, v : enforce(s, Request(s, c, o, k, u, v))'
                                <=> enforce(s, Request(s, c, o, k, u, v))
    BY DEF enforce, Decide, Zone, Request, Who
  <1> QED
    BY <1>1, EnforceIsPermitted

(* A question that fills in what another left open, of one principal and   *)
(* for one capability.                                                     *)
LEMMA FillingIn ==
  ASSUME NEW S \in Settings, NEW s, NEW c,
         NEW o, NEW k, NEW u, NEW v, NEW o2, NEW k2, NEW u2, NEW v2,
         \/ o = o2
         \/ o = None /\ u = None,
         k \in {None, k2}, u \in {None, u2}, v \in {None, v2},
         Permitted(S, s, c, o, k, u, v)
  PROVE  Permitted(S, s, c, o2, k2, u2, v2)
  <1> DEFINE i == {S.who[s].id} \cup S.who[s].roles
             z == S.who[s].trustZone
  <1>1. S.policies \in SUBSET Policies
    BY SettingsAssumption
  <1>2. Permits(S.policies, RequestOf(i, z, c, o, k, u, v))
    BY DEF Permitted
  <1>3. deriveOwnerStore(RequestOf(i, z, c, o, k, u, v)).ownerStore
          \in {None, deriveOwnerStore(RequestOf(i, z, c, o2, k2, u2, v2)).ownerStore}
    <2> HIDE DEF i, z
    <2> QED
      BY DEF deriveOwnerStore, RequestOf
  <1>4. Permits(S.policies, RequestOf(i, z, c, o2, k2, u2, v2))
    <2> HIDE DEF i, z
    <2> QED
      BY <1>1, <1>2, <1>3, FillingInKeepsPermission
  <1> QED
    BY <1>4 DEF Permitted

---------------------------------------------------------------------------
Verbs == {None, "create_entity", "update_entity", "ingest_artifact", "link_evidence", "reindex",
          "compensate"}

Stores == {None, "canonical", "artifact", "index"} \cup {o.store : o \in Offers}

Kinds == {None} \cup {o.kind : o \in Offers}

Record == [status : Law!Statuses \cup {"none"}, verb : Verbs, store : Stores, kind : Kinds]

Points == {"idle", "ungated", "writing", "saving", "compensating"}

Sites == ({"canonical", "artifact"} \X Commands) \cup Held \cup Lost

(* The queue holds records, a session that is in a call names a command    *)
(* that was minted, and so does everything written.                        *)
Typed ==
  /\ setting \in Settings
  /\ queue \in [Commands -> Record]
  /\ truth \subseteq Sites /\ indexed \subseteq Sites
  /\ approved \subseteq Commands
  /\ session \in [Sessions -> [pc : Points, command : Commands \cup {None}]]
  /\ \A s \in Sessions : session[s].pc # "idle" => Named(s) \in Minted
  /\ \A w \in writes : w.by \in Sessions /\ w.command \in Minted

(* The policies permit s this way of writing command c.                    *)
MayCommit(s, c)     == Permitted(setting, s, "commit_command", queue[c].store, None, None, queue[c].verb)
MayCompensate(s, c) == Permitted(setting, s, "compensate_command", queue[c].store, None, None, "compensate")

(* A compensating command is not one that can be committed, and a command  *)
(* that counts as approved was.                                            *)
CompensationsRest ==
  \A c \in Commands :
    queue[c].verb = "compensate" => queue[c].status \in {"none", "committed", "compensated"}

ApprovalsRemembered == \A c \in Commands : queue[c].status = "approved" => c \in approved

(* What a call in flight was allowed to write, it is still allowed to.     *)
Allowed ==
  /\ CompensationsRest
  /\ \A s \in Sessions :
       /\ session[s].pc \in {"writing", "saving"} =>
            MayCommit(s, Named(s)) /\ queue[Named(s)].verb # "compensate"
       /\ session[s].pc = "compensating" =>
            MayCompensate(s, Named(s)) /\ s \notin setting.gated

(* A gated session that reads commands is in a commit only of an approved  *)
(* command.                                                                *)
Reader(s) == Permitted(setting, s, "read_command", "ledger", None, None, None)

PastTheGate ==
  /\ ApprovalsRemembered
  /\ \A s \in Sessions :
       /\ s \in setting.gated /\ Reader(s)
       /\ session[s].pc \in {"ungated", "writing", "saving"}
       => Named(s) \in approved

(* A write that the policies permit, of a command that was approved if the *)
(* writer is gated.                                                        *)
GoodWrite(w) ==
  /\ Permitted(setting, w.by, IF w.verb = "compensate" THEN "compensate_command" ELSE "commit_command",
               queue[w.command].store, None, None, w.verb)
  /\ w.by \in setting.gated /\ Reader(w.by) /\ w.verb \in {o.verb : o \in Offers}
     => w.command \in approved

PolicedInv ==
  /\ Typed
  /\ Allowed
  /\ PastTheGate
  /\ \A w \in writes : GoodWrite(w)

LEMMA InitPoliced == Init => PolicedInv
  <1> SUFFICES ASSUME Init PROVE PolicedInv
    OBVIOUS
  <1> USE DEF Init
  <1>1. Typed
    BY DEF Typed, Record, NoCommand, Idle, Points, Verbs, Stores, Kinds, Sites
  <1>2. Allowed
    BY DEF Allowed, CompensationsRest, NoCommand, Idle
  <1>3. PastTheGate
    BY DEF PastTheGate, ApprovalsRemembered, NoCommand, Idle
  <1> QED
    BY <1>1, <1>2, <1>3 DEF PolicedInv

---------------------------------------------------------------------------
(* Writing the queue: a status that changes, and a command that enters.    *)
LEMMA AfterSave ==
  ASSUME Typed, NEW c \in Minted, NEW st \in Law!Statuses, Save(c, st)
  PROVE  /\ queue' \in [Commands -> Record]
         /\ Minted' = Minted
         /\ queue'[c].status = st
         /\ \A d \in Commands : /\ queue'[d].verb = queue[d].verb
                                /\ queue'[d].store = queue[d].store
                                /\ d # c => queue'[d].status = queue[d].status
  <1>1. /\ queue' \in [Commands -> Record]
        /\ queue'[c].status = st
        /\ \A d \in Commands : /\ queue'[d].verb = queue[d].verb
                               /\ queue'[d].store = queue[d].store
                               /\ d # c => queue'[d].status = queue[d].status
    BY DEF Typed, Record, Save, Minted
  <1>2. Minted' = Minted
    BY <1>1 DEF Minted, Status, Law!Statuses
  <1> QED
    BY <1>1, <1>2

LEMMA AfterEntry ==
  ASSUME Typed, NEW c \in Commands, Fresh(c),
         NEW e \in Record, e.status # "none", queue' = [queue EXCEPT ![c] = e]
  PROVE  /\ queue' \in [Commands -> Record]
         /\ c \notin Minted
         /\ Minted' = Minted \cup {c}
         /\ queue'[c] = e
         /\ \A d \in Commands : d # c => queue'[d] = queue[d]
  BY DEF Typed, Minted, Status, Fresh

(* What was minted keeps its verb and its store.                           *)
Kept == \A c \in Minted : queue'[c].verb = queue[c].verb /\ queue'[c].store = queue[c].store

(* A step that writes nothing leaves the writes good.                      *)
LEMMA WritesStayGood ==
  ASSUME Typed, \A w \in writes : GoodWrite(w), setting' = setting, Kept, approved \subseteq approved'
  PROVE  \A w \in writes : GoodWrite(w)'
  BY DEF Typed, Kept, GoodWrite, Reader

(* A step in which no session moves leaves the calls in flight allowed.    *)
LEMMA CallsStayAllowed ==
  ASSUME Typed, Allowed, PastTheGate, setting' = setting, Kept, approved \subseteq approved',
         NEW s \in Sessions, session'[s] = session[s]
  PROVE  /\ session'[s].pc \in {"writing", "saving"} =>
              MayCommit(s, Named(s))' /\ queue'[Named(s)'].verb # "compensate"
         /\ session'[s].pc = "compensating" =>
              MayCompensate(s, Named(s))' /\ s \notin setting'.gated
         /\ s \in setting'.gated /\ Reader(s)' /\ session'[s].pc \in {"ungated", "writing", "saving"}
              => Named(s)' \in approved'
  BY DEF Typed, Allowed, CompensationsRest, PastTheGate, ApprovalsRemembered, Kept, MayCommit, MayCompensate, Reader, Named

---------------------------------------------------------------------------
(* The steps keep the invariant.  First the moves of one command's status. *)
LEMMA StatusStep ==
  ASSUME PolicedInv, NEW s \in Sessions, NEW c \in Commands,
         \/ Validate(s, c) \/ Approve(s, c) \/ Reject(s, c)
  PROVE  PolicedInv'
  <1> USE DEF PolicedInv
  <1>1. PICK st \in {"validated", "approved", "rejected"} :
          /\ Save(c, st)
          /\ c \in Minted
          /\ queue[c].status # "committed"
          /\ queue[c].status # "compensated"
          /\ approved' = IF st = "approved" THEN approved \cup {c} ELSE approved
          /\ UNCHANGED <<setting, truth, indexed, writes, session>>
    BY NoneAssumption DEF Validate, Approve, Reject, Refusal, Status
  <1>2. st \in Law!Statuses
    BY DEF Law!Statuses
  <1>3. /\ queue' \in [Commands -> Record]
        /\ Minted' = Minted
        /\ queue'[c].status = st
        /\ \A d \in Commands : /\ queue'[d].verb = queue[d].verb
                               /\ queue'[d].store = queue[d].store
                               /\ d # c => queue'[d].status = queue[d].status
    BY <1>1, <1>2, AfterSave
  <1>4. Kept /\ approved \subseteq approved'
    BY <1>1, <1>3 DEF Kept, Minted
  <1>5. Typed'
    BY <1>1, <1>3 DEF Typed, Named, Minted
  <1>6. \A w \in writes' : GoodWrite(w)'
    BY <1>1, <1>4, WritesStayGood
  <1>7. Allowed'
    <2>1. queue[c].verb # "compensate"
      BY <1>1 DEF Allowed, CompensationsRest, Minted, Status
    <2> QED
      BY <1>1, <1>3, <1>4, <2>1, CallsStayAllowed DEF Allowed, CompensationsRest
  <1>8. PastTheGate'
    BY <1>1, <1>3, <1>4, CallsStayAllowed DEF PastTheGate, ApprovalsRemembered
  <1> QED
    BY <1>5, <1>6, <1>7, <1>8

(* A proposal enters.                                                      *)
LEMMA ProposeStep ==
  ASSUME PolicedInv, NEW s \in Sessions, NEW c \in Commands, NEW offer \in Offers,
         Propose(s, c, offer)
  PROVE  PolicedInv'
  <1> USE DEF PolicedInv
  <1> DEFINE e == [status |-> "proposed", verb |-> offer.verb, store |-> offer.store, kind |-> offer.kind]
  <1>1. e \in Record /\ offer.verb # "compensate"
    BY OffersAssumption DEF Record, Law!Statuses, Verbs, Stores, Kinds
  <1>2. /\ queue' \in [Commands -> Record]
        /\ c \notin Minted
        /\ Minted' = Minted \cup {c}
        /\ queue'[c] = e
        /\ \A d \in Commands : d # c => queue'[d] = queue[d]
    BY <1>1, AfterEntry DEF Propose
  <1>3. UNCHANGED <<setting, truth, indexed, approved, writes, session>>
    BY DEF Propose
  <1>4. Kept
    BY <1>2 DEF Kept, Minted
  <1>5. Typed'
    BY <1>2, <1>3 DEF Typed, Named
  <1>6. \A w \in writes' : GoodWrite(w)'
    BY <1>3, <1>4, WritesStayGood
  <1>7. Allowed'
    BY <1>1, <1>2, <1>3, <1>4, CallsStayAllowed DEF Allowed, CompensationsRest
  <1>8. PastTheGate'
    BY <1>2, <1>3, <1>4, CallsStayAllowed DEF PastTheGate, ApprovalsRemembered
  <1> QED
    BY <1>5, <1>6, <1>7, <1>8

(* A direct verb or a rebuild: a command that enters committed, and is     *)
(* written by a kernel that no gate guards.                                *)
LEMMA EntryStep ==
  ASSUME PolicedInv, NEW s \in Sessions, NEW c \in Commands, Fresh(c),
         setting.surface[s] = "kernel",
         NEW verb \in Verbs, verb # "compensate", NEW store \in Stores, NEW kind \in Kinds,
         Permitted(setting, s, "commit_command", store, None, None, verb),
         queue' = [queue EXCEPT ![c] = [status |-> "committed", verb |-> verb,
                                        store |-> store, kind |-> kind]],
         writes' = writes \cup {[by |-> s, command |-> c, verb |-> verb]},
         truth' \subseteq Sites, indexed' \subseteq Sites,
         UNCHANGED <<setting, approved, session>>
  PROVE  PolicedInv'
  <1> USE DEF PolicedInv
  <1> DEFINE e == [status |-> "committed", verb |-> verb, store |-> store, kind |-> kind]
  <1>1. e \in Record
    BY DEF Record, Law!Statuses
  <1>2. /\ queue' \in [Commands -> Record]
        /\ c \notin Minted
        /\ Minted' = Minted \cup {c}
        /\ queue'[c] = e
        /\ \A d \in Commands : d # c => queue'[d] = queue[d]
    BY <1>1, AfterEntry
  <1>3. Kept
    BY <1>2 DEF Kept, Minted
  <1>4. Typed'
    BY <1>2 DEF Typed, Named
  <1>5. \A w \in writes' : GoodWrite(w)'
    <2>1. \A w \in writes : GoodWrite(w)'
      BY <1>3, WritesStayGood
    <2>2. GoodWrite([by |-> s, command |-> c, verb |-> verb])'
      <3>1. s \notin setting.gated
        BY SettingsAssumption DEF Typed
      <3> QED
        BY <1>2, <3>1 DEF GoodWrite
    <2> QED
      BY <2>1, <2>2
  <1>6. Allowed'
    BY <1>2, <1>3, CallsStayAllowed DEF Allowed, CompensationsRest
  <1>7. PastTheGate'
    BY <1>2, <1>3, CallsStayAllowed DEF PastTheGate, ApprovalsRemembered
  <1> QED
    BY <1>4, <1>5, <1>6, <1>7
LEMMA DirectStep ==
  ASSUME PolicedInv, NEW s \in Sessions, NEW c \in Commands,
         \/ \E offer \in Offers : CreateEntity(s, c, offer)
         \/ IngestArtifact(s, c) \/ LinkEvidence(s, c)
  PROVE  PolicedInv'
  <1>1. PICK verb \in Verbs, store \in Stores, kind \in Kinds :
          /\ verb # "compensate"
          /\ Direct(s, c, verb, store, kind)
          /\ truth' \subseteq truth \cup Sites
          /\ indexed' \subseteq indexed \cup Sites
    BY DEF CreateEntity, IngestArtifact, LinkEvidence, Verbs, Stores, Kinds, Sites
  <1>2. Permitted(setting, s, "commit_command", store, None, None, verb)
    BY <1>1, EnforceIsPermitted DEF Direct, AsksVerb, PolicedInv, Typed
  <1>3. truth' \subseteq Sites /\ indexed' \subseteq Sites
    BY <1>1 DEF PolicedInv, Typed
  <1> QED
    BY <1>1, <1>2, <1>3, EntryStep DEF Direct

LEMMA RebuildStep ==
  ASSUME PolicedInv, NEW s \in Sessions, NEW c \in Commands, RebuildIndex(s, c)
  PROVE  PolicedInv'
  <1>1. setting \in Settings /\ truth \subseteq Sites
    BY DEF PolicedInv, Typed
  <1>2. Permitted(setting, s, "commit_command", None, None, None, "reindex")
    BY <1>1, EnforceIsPermitted DEF RebuildIndex, AsksVerb
  <1>3. Permitted(setting, s, "commit_command", "index", None, None, "reindex")
    BY <1>1, <1>2, FillingIn
  <1>4. "reindex" \in Verbs /\ "index" \in Stores /\ None \in Kinds
    BY DEF Verbs, Stores, Kinds
  <1> QED
    BY <1>1, <1>3, <1>4, EntryStep DEF RebuildIndex

---------------------------------------------------------------------------
(* The gate, the commit and the compensation.  A gated session that may    *)
(* read commands at all is shown each of them: the gate's read never fails, *)
(* so the gate opens for what is approved only.                            *)
LEMMA GateSees ==
  ASSUME PolicedInv, NEW s \in Sessions, NEW c \in Minted,
         s \in setting.gated, Reader(s), GateOpens(s, c)
  PROVE  c \in approved
  <1>1. setting \in Settings
    BY DEF PolicedInv, Typed
  <1>2. Permitted(setting, s, "read_command", "ledger", None, None, None)
    BY DEF Reader
  <1>3. enforce(s, AsksLedger(s, c))
    <2>1. Permitted(setting, s, "read_command", "ledger", None, <<"ledger", c>>, None)
      BY <1>1, <1>2, FillingIn
    <2> QED
      BY <1>1, <2>1, EnforceIsPermitted DEF AsksLedger
  <1>4. enforce(s, AsksCommand(s, c))
    <2>1. Permitted(setting, s, "read_command", "ledger", None, <<"ledger", c>>, queue[c].verb)
      BY <1>1, <1>2, FillingIn
    <2> QED
      BY <1>1, <2>1, EnforceIsPermitted DEF AsksCommand
  <1>5. inspectCommand(s, c).outcome = "shown"
    BY <1>3, <1>4 DEF inspectCommand, Shown
  <1>6. queue[c].status = "approved"
    BY <1>5 DEF GateOpens, Status
  <1> QED
    BY <1>6 DEF PolicedInv, PastTheGate, ApprovalsRemembered, Minted

(* A session that enters a call, goes on with it or leaves it, and writes  *)
(* something or nothing, when it may.                                      *)
LEMMA CallStep ==
  ASSUME PolicedInv, NEW s \in Sessions, NEW c \in Commands \cup {None}, NEW pc \in Points, NEW W,
         session' = [session EXCEPT ![s] = [pc |-> pc, command |-> c]],
         writes' = writes \cup W,
         UNCHANGED <<setting, queue, approved>>,
         truth' \subseteq Sites, indexed' \subseteq Sites,
         pc # "idle" => c \in Minted,
         \A w \in W : GoodWrite(w) /\ w.by \in Sessions /\ w.command \in Minted,
         pc \in {"writing", "saving"} => MayCommit(s, c) /\ queue[c].verb # "compensate",
         pc = "compensating" => MayCompensate(s, c) /\ s \notin setting.gated,
         s \in setting.gated /\ Reader(s) /\ pc \in {"ungated", "writing", "saving"} => c \in approved
  PROVE  PolicedInv'
  <1> USE DEF PolicedInv
  <1>1. /\ session'[s] = [pc |-> pc, command |-> c]
        /\ \A q \in Sessions : q # s => session'[q] = session[q]
    BY DEF Typed
  <1>2. Kept /\ Minted' = Minted
    BY DEF Kept, Minted, Status
  <1>3. Typed'
    BY <1>1, <1>2 DEF Typed, Named
  <1>4. \A w \in writes' : GoodWrite(w)'
    <2>1. \A w \in writes : GoodWrite(w)'
      BY <1>2, WritesStayGood
    <2>2. \A w \in W : GoodWrite(w)'
      BY DEF GoodWrite, Reader
    <2> QED
      BY <2>1, <2>2
  <1>5. /\ pc \in {"writing", "saving"} => MayCommit(s, c)' /\ queue'[c].verb # "compensate"
        /\ pc = "compensating" => MayCompensate(s, c)' /\ s \notin setting'.gated
        /\ s \in setting'.gated /\ Reader(s)' /\ pc \in {"ungated", "writing", "saving"} => c \in approved'
    BY DEF MayCommit, MayCompensate, Reader
  <1>6. Allowed'
    <2>1. \A q \in Sessions \ {s} :
            /\ session'[q].pc \in {"writing", "saving"} =>
                 MayCommit(q, Named(q))' /\ queue'[Named(q)'].verb # "compensate"
            /\ session'[q].pc = "compensating" =>
                 MayCompensate(q, Named(q))' /\ q \notin setting'.gated
      BY <1>1, <1>2, CallsStayAllowed
    <2>2. Named(s)' = c
      BY <1>1 DEF Named
    <2>3. CompensationsRest'
      BY DEF Allowed, CompensationsRest
    <2> QED
      BY <1>1, <1>5, <2>1, <2>2, <2>3 DEF Allowed, CompensationsRest
  <1>7. PastTheGate'
    <2>1. \A q \in Sessions \ {s} :
            q \in setting'.gated /\ Reader(q)' /\ session'[q].pc \in {"ungated", "writing", "saving"}
              => Named(q)' \in approved'
      BY <1>1, <1>2, CallsStayAllowed
    <2>2. Named(s)' = c
      BY <1>1 DEF Named
    <2>3. ApprovalsRemembered'
      BY DEF PastTheGate, ApprovalsRemembered
    <2> QED
      BY <1>1, <1>5, <2>1, <2>2, <2>3 DEF PastTheGate, ApprovalsRemembered
  <1> QED
    BY <1>3, <1>4, <1>6, <1>7

LEMMA CallCommitStep ==
  ASSUME PolicedInv, NEW s \in Sessions, NEW c \in Commands, CallCommit(s, c)
  PROVE  PolicedInv'
  <1>1. c \in Minted /\ GateOpens(s, c) /\ "ungated" \in Points
    BY DEF CallCommit, Points
  <1>2. s \in setting.gated /\ Reader(s) => c \in approved
    BY <1>1, GateSees
  <1>3. writes' = writes \cup {}
    BY DEF CallCommit
  <1> QED
    BY <1>1, <1>2, <1>3, CallStep DEF CallCommit, PolicedInv, Typed

(* commitMutation: what its gate let in goes on to a write that it may do. *)
LEMMA CommitStep ==
  ASSUME PolicedInv, NEW s \in Sessions, CommitMutation(s)
  PROVE  PolicedInv'
  <1> DEFINE c == Named(s)
  <1>1. /\ setting \in Settings
        /\ c \in Minted /\ c \in Commands
        /\ session[s] = [pc |-> "ungated", command |-> c]
    BY DEF CommitMutation, At, Named, PolicedInv, Typed, Minted
  <1>2. UNCHANGED <<setting, queue, truth, indexed, approved>> /\ writes' = writes \cup {}
    BY DEF CommitMutation
  <1>3. CASE CommitAllowed(s, c) /\ Refusal("commit", c) = None
    <2>1. session' = [session EXCEPT ![s] = [pc |-> "writing", command |-> c]]
      BY <1>1, <1>3 DEF CommitMutation, Go, PolicedInv, Typed
    <2>2. MayCommit(s, c)
      BY <1>1, <1>3, EnforceIsPermitted DEF CommitAllowed, AsksVerb, MayCommit
    <2>3. queue[c].status \notin {"none", "committed", "compensated"}
      BY <1>1, <1>3, NoneAssumption DEF Refusal, Status, Minted
    <2>4. queue[c].verb # "compensate"
      BY <1>1, <2>3 DEF PolicedInv, Allowed, CompensationsRest
    <2>5. s \in setting.gated /\ Reader(s) => c \in approved
      BY <1>1 DEF PolicedInv, PastTheGate, ApprovalsRemembered, Named
    <2>6. "writing" \in Points
      BY DEF Points
    <2> HIDE DEF c
    <2> QED
      BY <1>1, <1>2, <2>1, <2>2, <2>4, <2>5, <2>6, CallStep DEF PolicedInv, Typed
  <1>4. CASE ~(CommitAllowed(s, c) /\ Refusal("commit", c) = None)
    <2>1. session' = [session EXCEPT ![s] = [pc |-> "idle", command |-> None]]
      BY <1>4 DEF CommitMutation, Leave, Idle
    <2>2. "idle" \in Points
      BY DEF Points
    <2> QED
      BY <1>2, <2>1, <2>2, CallStep DEF PolicedInv, Typed
  <1> QED
    BY <1>3, <1>4

(* The write itself.                                                       *)
LEMMA AfterGo ==
  ASSUME PolicedInv, NEW s \in Sessions, NEW pc
  PROVE  [session EXCEPT ![s].pc = pc] = [session EXCEPT ![s] = [pc |-> pc, command |-> Named(s)]]
  <1>1. PICK p, c : session[s] = [pc |-> p, command |-> c]
    BY DEF PolicedInv, Typed
  <1>2. [session[s] EXCEPT !.pc = pc] = [pc |-> pc, command |-> c]
    BY <1>1
  <1> QED
    BY <1>1, <1>2 DEF Named

LEMMA StoreWriteStep ==
  ASSUME PolicedInv, NEW s \in Sessions, StoreWrite(s)
  PROVE  PolicedInv'
  <1> DEFINE c == Named(s)
             w == [by |-> s, command |-> c, verb |-> queue[c].verb]
             W == {w}
  <1>1. /\ c \in Minted /\ c \in Commands
        /\ session[s] = [pc |-> "writing", command |-> c]
    BY DEF StoreWrite, At, Named, PolicedInv, Typed, Minted
  <1>2. /\ UNCHANGED <<setting, queue, indexed, approved>>
        /\ writes' = writes \cup W
    BY DEF StoreWrite
  <1>3. truth' \subseteq Sites
    BY <1>1 DEF StoreWrite, ObjectOf, Sites, PolicedInv, Typed
  <1>4. MayCommit(s, c) /\ queue[c].verb # "compensate"
    BY <1>1 DEF PolicedInv, Allowed, CompensationsRest
  <1>5. s \in setting.gated /\ Reader(s) => c \in approved
    BY <1>1 DEF PolicedInv, PastTheGate, ApprovalsRemembered
  <1>6. GoodWrite(w)
    BY <1>4, <1>5 DEF GoodWrite, MayCommit
  <1>7. session' = [session EXCEPT ![s] = [pc |-> "saving", command |-> c]]
    <2>1. session' = [session EXCEPT ![s].pc = "saving"]
      BY DEF StoreWrite, Go
    <2> QED
      BY <1>1, <2>1, AfterGo
  <1>8. \A v \in W : GoodWrite(v) /\ v.by \in Sessions /\ v.command \in Minted
    BY <1>1, <1>6
  <1>9. "saving" \in Points /\ indexed' \subseteq Sites
    BY <1>2 DEF Points, PolicedInv, Typed
  <1> HIDE DEF c, w, W
  <1> QED
    BY <1>1, <1>2, <1>3, <1>4, <1>5, <1>7, <1>8, <1>9, CallStep

LEMMA CompensateStep ==
  ASSUME PolicedInv, NEW s \in Sessions, NEW c \in Commands, CompensateMutation(s, c)
  PROVE  PolicedInv'
  <1>1. MayCompensate(s, c)
    BY EnforceIsPermitted DEF CompensateMutation, CompensateAllowed, AsksVerb, MayCompensate, PolicedInv, Typed
  <1>2. "compensating" \in Points /\ writes' = writes \cup {}
    BY DEF CompensateMutation, Points
  <1> QED
    BY <1>1, <1>2, CallStep DEF CompensateMutation, PolicedInv, Typed

(* A session that leaves its call, while a minted command changes status   *)
(* or another is minted.                                                   *)
LEMMA LeaveStep ==
  ASSUME PolicedInv, NEW s \in Sessions, Leave(s), Kept,
         queue' \in [Commands -> Record],
         Minted \subseteq Minted', Minted' \subseteq Commands,
         CompensationsRest', ApprovalsRemembered',
         \A w \in writes' \ writes : GoodWrite(w) /\ w.by \in Sessions /\ w.command \in Minted,
         truth' \subseteq Sites, indexed' \subseteq Sites,
         UNCHANGED <<setting, approved>>
  PROVE  PolicedInv'
  <1> USE DEF PolicedInv
  <1>1. /\ session'[s].pc = "idle"
        /\ \A q \in Sessions : q # s => session'[q] = session[q]
        /\ session' \in [Sessions -> [pc : Points, command : Commands \cup {None}]]
    BY DEF Typed, Leave, Idle, Points
  <1>2. Typed'
    BY <1>1 DEF Typed, Named
  <1>3. \A w \in writes' : GoodWrite(w)'
    <2>1. \A w \in writes : GoodWrite(w)'
      BY WritesStayGood
    <2>2. \A w \in writes' \ writes : GoodWrite(w)'
      BY DEF GoodWrite, Reader, Kept
    <2> QED
      BY <2>1, <2>2
  <1>4. Allowed'
    BY <1>1, CallsStayAllowed DEF Allowed, CompensationsRest
  <1>5. PastTheGate'
    BY <1>1, CallsStayAllowed DEF PastTheGate, ApprovalsRemembered
  <1> QED
    BY <1>2, <1>3, <1>4, <1>5

LEMMA SaveCommittedStep ==
  ASSUME PolicedInv, NEW s \in Sessions, SaveCommitted(s)
  PROVE  PolicedInv'
  <1> DEFINE c == Named(s)
  <1>1. c \in Minted /\ c \in Commands /\ queue[c].verb # "compensate"
    BY DEF SaveCommitted, At, PolicedInv, Typed, Allowed, CompensationsRest, Minted
  <1>2. Save(c, "committed") /\ "committed" \in Law!Statuses
    BY DEF SaveCommitted, Law!Statuses
  <1>3. /\ queue' \in [Commands -> Record]
        /\ Minted' = Minted
        /\ queue'[c].status = "committed"
        /\ \A d \in Commands : /\ queue'[d].verb = queue[d].verb
                               /\ queue'[d].store = queue[d].store
                               /\ d # c => queue'[d].status = queue[d].status
    BY <1>1, <1>2, AfterSave DEF PolicedInv
  <1>4. CompensationsRest' /\ ApprovalsRemembered'
    BY <1>1, <1>3 DEF SaveCommitted, PolicedInv, Allowed, CompensationsRest, PastTheGate, ApprovalsRemembered
  <1>5. indexed' \subseteq Sites /\ truth' \subseteq Sites
    BY <1>1 DEF SaveCommitted, ObjectOf, Sites, PolicedInv, Typed
  <1>6. /\ Leave(s)
        /\ UNCHANGED <<setting, writes, approved>>
    BY DEF SaveCommitted
  <1>7. Kept /\ Minted \subseteq Commands
    BY <1>3 DEF Kept, Minted
  <1> HIDE DEF c
  <1> QED
    BY <1>3, <1>4, <1>5, <1>6, <1>7, LeaveStep

(* The compensating command enters, its original is compensated.           *)
LEMMA SaveCompensationStep ==
  ASSUME PolicedInv, NEW s \in Sessions, NEW d \in Commands, SaveCompensation(s, d)
  PROVE  PolicedInv'
  <1> DEFINE c == Named(s)
             w == [by |-> s, command |-> c, verb |-> "compensate"]
  <1>1. /\ c \in Minted /\ c \in Commands
        /\ d \notin Minted /\ d # c
        /\ MayCompensate(s, c) /\ s \notin setting.gated
    BY DEF SaveCompensation, At, Fresh, PolicedInv, Typed, Allowed, CompensationsRest, Minted
  <1>2. queue' = [queue EXCEPT ![c].status = "compensated",
                               ![d] = [status |-> "committed", verb |-> "compensate",
                                       store |-> queue[c].store, kind |-> queue[c].kind]]
    BY DEF SaveCompensation
  <1> HIDE DEF c
  <1>3. queue[c] \in Record
    BY <1>1 DEF PolicedInv, Typed
  <1>4. /\ queue'[d] = [status |-> "committed", verb |-> "compensate",
                        store |-> queue[c].store, kind |-> queue[c].kind]
        /\ queue'[c].status = "compensated"
        /\ queue'[c].verb = queue[c].verb /\ queue'[c].store = queue[c].store
        /\ \A e \in Commands \ {c, d} : queue'[e] = queue[e]
        /\ queue' \in [Commands -> Record]
    BY <1>1, <1>2, <1>3 DEF PolicedInv, Typed, Record, Verbs, Law!Statuses
  <1>5. Minted' = Minted \cup {d}
    BY <1>1, <1>4 DEF Minted, Status
  <1>6. Kept
    BY <1>1, <1>4 DEF Kept, Minted
  <1>7. CompensationsRest' /\ ApprovalsRemembered'
    BY <1>4 DEF SaveCompensation, PolicedInv, Allowed, CompensationsRest, PastTheGate, ApprovalsRemembered
  <1>8. \A x \in writes' \ writes : GoodWrite(x) /\ x.by \in Sessions /\ x.command \in Minted
    <2>1. writes' \ writes \subseteq {w}
      BY DEF SaveCompensation, c
    <2>2. GoodWrite(w) /\ w.by \in Sessions /\ w.command \in Minted
      BY <1>1 DEF GoodWrite, MayCompensate
    <2> QED
      BY <2>1, <2>2
  <1>9. /\ Leave(s)
        /\ UNCHANGED <<setting, truth, indexed, approved>>
    BY DEF SaveCompensation
  <1>10. Minted' \subseteq Commands /\ truth' \subseteq Sites /\ indexed' \subseteq Sites
    BY <1>9 DEF PolicedInv, Typed, Minted
  <1> HIDE DEF w
  <1> QED
    BY <1>4, <1>5, <1>6, <1>7, <1>8, <1>9, <1>10, LeaveStep

LEMMA StutterStep ==
  ASSUME PolicedInv, UNCHANGED vars
  PROVE  PolicedInv'
  BY DEF vars, PolicedInv, Typed, Allowed, CompensationsRest, PastTheGate, ApprovalsRemembered, GoodWrite,
         Reader, MayCommit, MayCompensate, Named, Minted, Status

(* The invariant holds for ever.                                           *)
THEOREM PolicedInvariant == Spec => []PolicedInv
  <1>1. ASSUME PolicedInv, [Next]_vars
        PROVE  PolicedInv'
    <2>1. CASE UNCHANGED vars
      BY <1>1, <2>1, StutterStep
    <2>2. CASE Next
      <3>1. PICK s \in Sessions :
              \/ CommitMutation(s) \/ StoreWrite(s) \/ SaveCommitted(s)
              \/ \E c \in Commands :
                   \/ \E offer \in Offers : Propose(s, c, offer) \/ CreateEntity(s, c, offer)
                   \/ Validate(s, c) \/ Approve(s, c) \/ Reject(s, c) \/ CallCommit(s, c)
                   \/ CompensateMutation(s, c) \/ SaveCompensation(s, c)
                   \/ IngestArtifact(s, c) \/ LinkEvidence(s, c) \/ RebuildIndex(s, c)
        BY <2>2 DEF Next
      <3>2. CASE CommitMutation(s) \/ StoreWrite(s) \/ SaveCommitted(s)
        BY <1>1, <3>2, CommitStep, StoreWriteStep, SaveCommittedStep
      <3>3. CASE \E c \in Commands, offer \in Offers : Propose(s, c, offer)
        BY <1>1, <3>3, ProposeStep
      <3>4. CASE \E c \in Commands : Validate(s, c) \/ Approve(s, c) \/ Reject(s, c)
        BY <1>1, <3>4, StatusStep
      <3>5. CASE \E c \in Commands :
                   CallCommit(s, c) \/ CompensateMutation(s, c) \/ SaveCompensation(s, c)
        BY <1>1, <3>5, CallCommitStep, CompensateStep, SaveCompensationStep
      <3>6. CASE \E c \in Commands : \/ \E offer \in Offers : CreateEntity(s, c, offer)
                                     \/ IngestArtifact(s, c) \/ LinkEvidence(s, c)
        BY <1>1, <3>6, DirectStep
      <3>7. CASE \E c \in Commands : RebuildIndex(s, c)
        BY <1>1, <3>7, RebuildStep
      <3> QED
        BY <3>1, <3>2, <3>3, <3>4, <3>5, <3>6, <3>7
    <2> QED
      BY <1>1, <2>1, <2>2
  <1> QED
    BY <1>1, InitPoliced, PTL DEF Spec

(* Every variable holds what the code may put there.                       *)
THEOREM TypesHold == Spec => []PolicedTypeOK
  <1>1. PolicedInv => PolicedTypeOK
    BY DEF PolicedInv, Typed, PolicedTypeOK, Record, Sites, Points, Status
  <1> QED
    BY <1>1, PolicedInvariant, PTL

(* The engine decides as the reference does, in every configuration and    *)
(* for any request (evaluatePolicy).                                       *)
THEOREM DecisionsAreReferences == Spec => []DecisionIsReference
  <1>1. PolicedInv => DecisionIsReference
    <2> SUFFICES ASSUME PolicedInv PROVE DecisionIsReference
      OBVIOUS
    <2>1. setting.policies \in SUBSET Policies
      BY SettingsAssumption DEF PolicedInv, Typed
    <2> QED
      BY <2>1, DecisionMeetsReference DEF DecisionIsReference
  <1> QED
    BY <1>1, PolicedInvariant, PTL

(* Every write, by commit, compensation, direct verb or rebuild, is one    *)
(* that the policies permit its writer for the verb and the store of the   *)
(* command it writes, whatever others did meanwhile.                       *)
THEOREM WritesAreAuthorized == Spec => []WritesAuthorized
  <1>1. PolicedInv => WritesAuthorized
    BY DEF PolicedInv, WritesAuthorized, GoodWrite, Permitted, AsksVerb, Request, RequestOf, Who
  <1> QED
    BY <1>1, PolicedInvariant, PTL

(* What a gated session that reads commands writes was approved (the MCP   *)
(* server's gate): its read of the command never fails, so the gate never  *)
(* opens on an error.                                                      *)
THEOREM GatedWritesAreApproved == Spec => []GatedWritesApproved
  <1>1. PolicedInv => GatedWritesApproved
    <2> SUFFICES ASSUME PolicedInv, NEW w \in writes,
                        w.by \in setting.gated,
                        enforce(w.by, AsksStore(w.by, "read_command", "ledger")),
                        w.verb \in {o.verb : o \in Offers}
                 PROVE  w.command \in approved
      BY DEF GatedWritesApproved
    <2>1. Reader(w.by)
      BY EnforceIsPermitted DEF PolicedInv, Typed, Reader, AsksStore
    <2> QED
      BY <2>1 DEF PolicedInv, GoodWrite
  <1> QED
    BY <1>1, PolicedInvariant, PTL

(* Of the default policies, those that let anybody write are the           *)
(* administrators'.                                                        *)
LEMMA DefaultAllowances ==
  ASSUME NEW p \in DEFAULT_POLICIES, p.decision = "allow"
  PROVE  \/ p.principals = {"cluster-admin"}
         \/ /\ p.capabilities # {}
            /\ "commit_command" \notin p.capabilities
            /\ "compensate_command" \notin p.capabilities
  BY DEF DEFAULT_POLICIES, RoleRule, Reads

(* Under the default policies only administrators write.                   *)
THEOREM DutiesAreSeparate == Spec => []DefaultsSeparateDuties
  <1>1. PolicedInv => DefaultsSeparateDuties
    <2> SUFFICES ASSUME PolicedInv, setting.policies = DEFAULT_POLICIES, NEW w \in writes
                 PROVE  "cluster-admin" \in Who(w.by).roles
      BY DEF DefaultsSeparateDuties
    <2> DEFINE cap == IF w.verb = "compensate" THEN "compensate_command" ELSE "commit_command"
               r == RequestOf({Who(w.by).id} \cup Who(w.by).roles, Who(w.by).trustZone, cap,
                              queue[w.command].store, None, None, w.verb)
    <2>1. setting \in Settings /\ w.by \in Sessions /\ Permits(DEFAULT_POLICIES, r)
      BY DEF PolicedInv, Typed, GoodWrite, Permitted, Who
    <2>2. PICK p \in DEFAULT_POLICIES : p.decision = "allow" /\ matchPolicy(deriveOwnerStore(r), p)
      BY <2>1 DEF Permits, Matching
    <2>3. /\ deriveOwnerStore(r).identifiers = {Who(w.by).id} \cup Who(w.by).roles
          /\ deriveOwnerStore(r).capability = cap
      BY DEF deriveOwnerStore, RequestOf
    <2>4. p.principals = {"cluster-admin"}
      <3>1. p.capabilities = {} \/ cap \in p.capabilities
        BY <2>2, <2>3 DEF matchPolicy, matchCapabilities
      <3> QED
        BY <2>2, <3>1, DefaultAllowances
    <2>5. "cluster-admin" \in {Who(w.by).id} \cup Who(w.by).roles
      BY <2>2, <2>3, <2>4 DEF matchPolicy, matchPrincipals
    <2> QED
      BY <2>1, <2>5, SettingsAssumption DEF Who
  <1> QED
    BY <1>1, PolicedInvariant, PTL

(* No index record is shown of a source whose owner truth the principal    *)
(* may not read, though findSources asks about it without its kind when     *)
(* the source itself was filtered out.                                     *)
THEOREM RecordsFollow == Spec => []RecordsFollowOwnerTruth
  <1>1. PolicedInv => RecordsFollowOwnerTruth
    <2> SUFFICES ASSUME PolicedInv, NEW s \in Sessions, NEW u \in findSources(s).records
                 PROVE  Permits(setting.policies, IF u \in truth THEN AsksObject(s, u) ELSE AsksSource(s, u))
      BY DEF RecordsFollowOwnerTruth
    <2>1. setting \in Settings
      BY DEF PolicedInv, Typed
    <2>2. \A r : enforce(s, r) => Permits(setting.policies, r)
      BY <2>1, SettingsAssumption, DecisionMeetsReference DEF enforce, Decide
    <2> DEFINE found == indexed \cap truth
               shown == {o.uri : o \in ReadableEntities(s, found)} \cup {o.uri : o \in ReadableArtifacts(s, found)}
    <2>3. RecordShown(s, u, shown)
      BY DEF findSources, SearchIn
    <2>4. \A x \in shown : x \in truth /\ enforce(s, AsksObject(s, x))
      BY DEF ReadableEntities, ReadableArtifacts, redactEntity, redactArtifact, Entity, Artifact
    <2>5. CASE u \in shown
      BY <2>2, <2>4, <2>5
    <2>6. CASE enforce(s, AsksSource(s, u))
      <3>1. Permitted(setting, s, "read_owner_truth", u[1], None, u, None)
        BY <2>1, <2>6, EnforceIsPermitted DEF AsksSource
      <3>2. Permitted(setting, s, "read_owner_truth", u[1], KindOf(u), u, None)
        BY <2>1, <3>1, FillingIn
      <3>3. enforce(s, AsksObject(s, u))
        BY <2>1, <3>2, EnforceIsPermitted DEF AsksObject
      <3> QED
        BY <2>2, <2>6, <3>3
    <2> QED
      BY <2>3, <2>5, <2>6 DEF RecordShown
  <1> QED
    BY <1>1, PolicedInvariant, PTL

(* Whether an id exists is not told by a denial: who may ask about a       *)
(* command or an entity at all is never denied it once it exists.          *)
THEOREM CreationStaysUntold == Spec => CreationIsNotTold
  <1>1. ASSUME PolicedInv, [Next]_vars, NEW s \in Sessions, NEW c \in Commands
        PROVE  /\ c \in Minted' \ Minted /\ inspectCommand(s, c)'.outcome = "denied"
                  => inspectCommand(s, c).outcome = "denied"
               /\ <<"canonical", c>> \in truth' \ truth /\ inspectEntity(s, <<"canonical", c>>)'.outcome = "denied"
                  => /\ inspectEntity(s, <<"canonical", c>>).outcome = "denied"
                     /\ getEntityVersion(s, <<"canonical", c>>).outcome = "denied"
    <2>1. setting \in Settings /\ setting' = setting
      BY <1>1 DEF PolicedInv, Typed, vars, Next, CommitMutation, StoreWrite, SaveCommitted, Propose,
                  CreateEntity, Validate, Approve, Reject, CallCommit, CompensateMutation,
                  SaveCompensation, IngestArtifact, LinkEvidence, RebuildIndex, Direct
    <2>2. ASSUME c \in Minted', enforce(s, AsksLedger(s, c))
          PROVE  inspectCommand(s, c)'.outcome = "shown"
      <3>1. Permitted(setting, s, "read_command", "ledger", None, <<"ledger", c>>, None)
        BY <2>1, <2>2, EnforceIsPermitted DEF AsksLedger
      <3>2. Permitted(setting, s, "read_command", "ledger", None, <<"ledger", c>>, queue'[c].verb)
        BY <2>1, <3>1, FillingIn
      <3>3. enforce(s, AsksLedger(s, c))' /\ enforce(s, AsksCommand(s, c))'
        BY <2>1, <3>1, <3>2, EnforceNext DEF AsksLedger, AsksCommand
      <3> QED
        BY <2>2, <3>3 DEF inspectCommand, Shown
    <2>3. ASSUME <<"canonical", c>> \in truth', enforce(s, AsksStore(s, "read_owner_truth", "canonical"))
          PROVE  inspectEntity(s, <<"canonical", c>>)'.outcome = "shown"
      <3> DEFINE u == <<"canonical", c>>
      <3>1. Permitted(setting, s, "read_owner_truth", "canonical", None, None, None)
        BY <2>1, <2>3, EnforceIsPermitted DEF AsksStore
      <3>2. Permitted(setting, s, "read_owner_truth", "canonical", queue'[c].kind, u, None)
        BY <2>1, <3>1, FillingIn
      <3>3. enforce(s, AsksStore(s, "read_owner_truth", "canonical"))' /\ enforce(s, AsksObject(s, u))'
        BY <2>1, <3>1, <3>2, EnforceNext DEF AsksStore, AsksObject, KindOf
      <3> QED
        BY <2>3, <3>3 DEF inspectEntity, EntityAt, enforce, Shown
    <2> QED
      BY <2>2, <2>3 DEF inspectCommand, inspectEntity, getEntityVersion, EntityAt, Denied
  <1>2. PolicedInv /\ [Next]_vars
        => [\A s \in Sessions, c \in Commands :
             /\ c \in Minted' \ Minted /\ inspectCommand(s, c)'.outcome = "denied"
                => inspectCommand(s, c).outcome = "denied"
             /\ <<"canonical", c>> \in truth' \ truth /\ inspectEntity(s, <<"canonical", c>>)'.outcome = "denied"
                => /\ inspectEntity(s, <<"canonical", c>>).outcome = "denied"
                   /\ getEntityVersion(s, <<"canonical", c>>).outcome = "denied"]_vars
    BY <1>1
  <1> QED
    BY <1>2, PolicedInvariant, PTL DEF Spec, CreationIsNotTold

(* A hint that comes with a lifecycle error of approve, reject, commit or  *)
(* compensate names a move the lifecycle law allows (the MCP server's      *)
(* lifecycleNextValidActions against validTransitions).                    *)
THEOREM HintsAreLegal == Spec => []HintIsLegal
  <1>1. PolicedInv => HintIsLegal
    <2> DEFINE target == [validate |-> "validated", approve |-> "approved", reject |-> "rejected",
                          commit |-> "committed", compensate |-> "compensated"]
    <2> SUFFICES ASSUME PolicedInv, NEW c \in Minted,
                        NEW tool \in {"approve", "reject", "commit", "compensate"},
                        Refusal(tool, c) # None,
                        NEW hint \in lifecycleNextValidActions(Refusal(tool, c), Status(c)) \cap DOMAIN target
                 PROVE  target[hint] \in Law!validTransitions[Status(c)]
      BY DEF HintIsLegal
    <2>1. Status(c) \in Law!Statuses
      BY DEF PolicedInv, Typed, Minted, Status, Record
    <2>2. CASE Refusal(tool, c) = "COMMAND_NOT_VALIDATED"
      <3>1. Status(c) = "proposed"
        BY <2>1, <2>2, NoneAssumption DEF Refusal, Law!Statuses
      <3>2. hint \in {"validate", "reject"}
        BY <2>2 DEF lifecycleNextValidActions
      <3> QED
        BY <3>1, <3>2 DEF Law!validTransitions
    <2>3. CASE Refusal(tool, c) = "COMMAND_REJECTED"
      BY <2>3 DEF lifecycleNextValidActions
    <2>4. CASE Refusal(tool, c) = "COMMAND_ALREADY_TERMINAL"
      <3>1. Status(c) = "committed" /\ hint = "compensate"
        BY <2>4 DEF lifecycleNextValidActions
      <3> QED
        BY <3>1 DEF Law!validTransitions
    <2>5. CASE Refusal(tool, c) = "INVALID_STATE_TRANSITION"
      <3>1. \/ Status(c) = "proposed" /\ hint \in {"validate", "reject"}
            \/ Status(c) = "validated" /\ hint \in {"approve", "reject"}
            \/ Status(c) = "approved" /\ hint \in {"commit", "reject"}
            \/ Status(c) = "committed" /\ hint = "compensate"
        BY <2>1, <2>5 DEF lifecycleNextValidActions, Law!Statuses
      <3> QED
        BY <3>1 DEF Law!validTransitions
    <2>6. Refusal(tool, c) \in {"COMMAND_NOT_VALIDATED", "COMMAND_REJECTED", "COMMAND_ALREADY_TERMINAL",
                               "INVALID_STATE_TRANSITION", None}
      BY DEF Refusal
    <2> QED
      BY <2>2, <2>3, <2>4, <2>5, <2>6
  <1> QED
    BY <1>1, PolicedInvariant, PTL

---------------------------------------------------------------------------
(* An artifact's answer after redaction and after a surface has had it.    *)
Art(u, path, snippet) == [uri |-> u, storagePath |-> path, snippet |-> snippet]

LEMMA Redacted ==
  ASSUME NEW u, NEW path \in BOOLEAN, NEW snippet \in BOOLEAN, NEW rules
  PROVE  /\ redactArtifact(Art(u, path, snippet), rules)
              = Art(u, path /\ "artifact_content" \notin rules, snippet)
         /\ redactResolvedArtifact(Art(u, path, snippet), rules)
              = Art(u, path /\ "artifact_content" \notin rules, snippet /\ "artifact_content" \notin rules)
  <1>1. \A q \in BOOLEAN : [Art(u, path, snippet) EXCEPT !.storagePath = q] = Art(u, q, snippet)
    BY DEF Art
  <1>2. \A q, n \in BOOLEAN : [Art(u, q, snippet) EXCEPT !.snippet = n] = Art(u, q, n)
    BY DEF Art
  <1>3. Art(u, path, snippet).storagePath = path
        /\ \A q \in BOOLEAN : Art(u, q, snippet).snippet = snippet
    BY DEF Art
  <1> DEFINE q == path /\ "artifact_content" \notin rules
             n == snippet /\ "artifact_content" \notin rules
  <1>4. q \in BOOLEAN /\ n \in BOOLEAN
    OBVIOUS
  <1>5. redactArtifact(Art(u, path, snippet), rules) = Art(u, q, snippet)
    BY <1>1, <1>3, <1>4 DEF redactArtifact
  <1>6. redactResolvedArtifact(Art(u, path, snippet), rules) = Art(u, q, n)
    BY <1>2, <1>3, <1>4, <1>5 DEF redactResolvedArtifact
  <1> QED
    BY <1>5, <1>6

Rules(s, u) == collectRedactionRules(s, Decide(s, AsksObject(s, u)))

(* sanitizeArtifactForOutput leaves a path to the kernel's callers only.   *)
LEMMA Sanitized ==
  ASSUME NEW s, NEW artifacts, NEW a \in sanitizeArtifactForOutput(s, artifacts),
         \A x \in artifacts : \E u : \E path, snippet \in BOOLEAN : x = Art(u, path, snippet)
  PROVE  \E u : \E path, snippet, kept \in BOOLEAN :
           /\ Art(u, path, snippet) \in artifacts
           /\ a = Art(u, kept, snippet)
           /\ kept => path /\ setting.surface[s] = "kernel"
  <1>1. CASE setting.surface[s] = "kernel"
    <2>1. a \in artifacts
      BY <1>1 DEF sanitizeArtifactForOutput
    <2> QED
      BY <1>1, <2>1
  <1>2. CASE setting.surface[s] # "kernel"
    <2>1. PICK x \in artifacts : a = [x EXCEPT !.storagePath = FALSE]
      BY <1>2 DEF sanitizeArtifactForOutput
    <2>2. PICK u : \E path, snippet \in BOOLEAN : x = Art(u, path, snippet)
      BY <2>1
    <2>3. PICK path \in BOOLEAN, snippet \in BOOLEAN : x = Art(u, path, snippet)
      BY <2>2
    <2>4. \A q \in BOOLEAN : [Art(u, path, snippet) EXCEPT !.storagePath = q] = Art(u, q, snippet)
      BY DEF Art
    <2> QED
      BY <2>1, <2>3, <2>4
  <1> QED
    BY <1>1, <1>2

(* What searches and lists show of an artifact.                            *)
LEMMA ListedArtifacts ==
  ASSUME NEW s, NEW uris, NEW a \in sanitizeArtifactForOutput(s, ReadableArtifacts(s, uris))
  PROVE  a.storagePath => "artifact_content" \notin Rules(s, a.uri) /\ setting.surface[s] = "kernel"
  <1>1. ASSUME NEW x \in ReadableArtifacts(s, uris)
        PROVE  \E u : x = Art(u, "artifact_content" \notin Rules(s, u), FALSE)
    <2>1. PICK u : x = redactArtifact(Artifact(u), Rules(s, u))
      BY DEF ReadableArtifacts, Rules
    <2>2. Artifact(u) = Art(u, TRUE, FALSE)
      BY DEF Artifact, Art
    <2>3. x = Art(u, TRUE /\ "artifact_content" \notin Rules(s, u), FALSE)
      BY <2>1, <2>2, Redacted
    <2> QED
      BY <2>3
  <1>2. \A x \in ReadableArtifacts(s, uris) :
          \E u : \E path, snippet \in BOOLEAN : x = Art(u, path, snippet)
    BY <1>1
  <1>3. PICK u : \E path, snippet, kept \in BOOLEAN :
          /\ Art(u, path, snippet) \in ReadableArtifacts(s, uris)
          /\ a = Art(u, kept, snippet)
          /\ kept => path /\ setting.surface[s] = "kernel"
    BY <1>2, Sanitized
  <1>4. PICK path \in BOOLEAN, snippet \in BOOLEAN, kept \in BOOLEAN :
          /\ Art(u, path, snippet) \in ReadableArtifacts(s, uris)
          /\ a = Art(u, kept, snippet)
          /\ kept => path /\ setting.surface[s] = "kernel"
    BY <1>3
  <1>5. path = ("artifact_content" \notin Rules(s, u))
    <2>1. PICK v : Art(u, path, snippet) = Art(v, "artifact_content" \notin Rules(s, v), FALSE)
      BY <1>1, <1>4
    <2>2. u = v /\ path = ("artifact_content" \notin Rules(s, v))
      BY <2>1 DEF Art
    <2> QED
      BY <2>2
  <1> QED
    BY <1>4, <1>5 DEF Art

(* What a bundle shows of an artifact.                                     *)
LEMMA BundledArtifacts ==
  ASSUME NEW s, NEW a \in retrieveBundle(s).artifacts
  PROVE  LET gate == collectRedactionRules(s, Decide(s, AsksStore(s, "read_derivative", "index")))
         IN  /\ a.storagePath \/ a.snippet => "artifact_content" \notin Rules(s, a.uri) \cup gate
             /\ a.storagePath => setting.surface[s] = "kernel"
  <1> DEFINE gate  == collectRedactionRules(s, Decide(s, AsksStore(s, "read_derivative", "index")))
             found == indexed \cap truth
             wrapped == {redactResolvedArtifact(Wrapped(u), Rules(s, u)) :
                           u \in {v \in found : v[1] = "artifact" /\ enforce(s, AsksObject(s, v))}}
             bare == {redactResolvedArtifact(x, gate) : x \in wrapped}
             Clear(u) == "artifact_content" \notin Rules(s, u) \cup gate
  <1>1. a \in BundleArm(s, sanitizeArtifactForOutput(s, bare))
    BY DEF retrieveBundle, Rules
  <1>2. ASSUME NEW x \in bare PROVE \E u : x = Art(u, Clear(u), Clear(u))
    <2>1. PICK u : x = redactResolvedArtifact(redactResolvedArtifact(Wrapped(u), Rules(s, u)), gate)
      OBVIOUS
    <2>2. Wrapped(u) = Art(u, TRUE, TRUE)
      BY DEF Wrapped, Art
    <2> DEFINE n == "artifact_content" \notin Rules(s, u)
    <2>3. n \in BOOLEAN /\ redactResolvedArtifact(Wrapped(u), Rules(s, u)) = Art(u, n, n)
      BY <2>2, Redacted
    <2> HIDE DEF n
    <2>4. x = Art(u, n /\ "artifact_content" \notin gate, n /\ "artifact_content" \notin gate)
      BY <2>1, <2>3, Redacted
    <2>5. (n /\ "artifact_content" \notin gate) = Clear(u)
      BY DEF n
    <2> QED
      BY <2>4, <2>5
  <1> HIDE DEF gate, bare
  <1>3. PICK y \in sanitizeArtifactForOutput(s, bare) :
          a = y \/ a = [y EXCEPT !.snippet = FALSE]
    BY <1>1 DEF BundleArm
  <1>4. PICK u : \E path, snippet, kept \in BOOLEAN :
          /\ Art(u, path, snippet) \in bare
          /\ y = Art(u, kept, snippet)
          /\ kept => path /\ setting.surface[s] = "kernel"
    <2>1. \A x \in bare : \E v : \E path, snippet \in BOOLEAN : x = Art(v, path, snippet)
      BY <1>2
    <2> QED
      BY <2>1, Sanitized
  <1>5. PICK path \in BOOLEAN, snippet \in BOOLEAN, kept \in BOOLEAN :
          /\ Art(u, path, snippet) \in bare
          /\ y = Art(u, kept, snippet)
          /\ kept => path /\ setting.surface[s] = "kernel"
    BY <1>4
  <1>6. path = Clear(u) /\ snippet = Clear(u)
    <2>1. PICK v : Art(u, path, snippet) = Art(v, Clear(v), Clear(v))
      BY <1>2, <1>5
    <2> HIDE DEF Clear
    <2>2. u = v /\ path = Clear(v) /\ snippet = Clear(v)
      BY <2>1 DEF Art
    <2> QED
      BY <2>2
  <1>7. \E shown \in BOOLEAN : a = Art(u, kept, shown) /\ (shown => snippet)
    <2>1. \A q \in BOOLEAN : [Art(u, kept, snippet) EXCEPT !.snippet = q] = Art(u, kept, q)
      BY DEF Art
    <2> QED
      BY <1>3, <1>5, <2>1
  <1>8. a.uri = u /\ a.storagePath = kept /\ (a.snippet => snippet)
    BY <1>7 DEF Art
  <1> QED
    BY <1>5, <1>6, <1>8 DEF gate

(* Where a rule withholds artifact content no surface returns it, be it by *)
(* path or by snippet, and no surface but the kernel returns a path.       *)
THEOREM ContentIsWithheld == Spec => []ContentWithheld
  <1>1. ContentWithheld
    <2> SUFFICES ASSUME NEW s \in Sessions
        PROVE LET gate == collectRedactionRules(s, Decide(s, AsksStore(s, "read_derivative", "index")))
                  Withheld(u) == "artifact_content" \in collectRedactionRules(s, Decide(s, AsksObject(s, u)))
              IN /\ \A a \in retrieveBundle(s).artifacts :
                      /\ Withheld(a.uri) \/ "artifact_content" \in gate => ~a.storagePath /\ ~a.snippet
                      /\ setting.surface[s] # "kernel" => ~a.storagePath
                 /\ \A a \in findSources(s).artifacts \cup UNION {listArtifactVersions(s, u).objects : u \in truth} :
                      Withheld(a.uri) \/ setting.surface[s] # "kernel" => ~a.storagePath
      BY DEF ContentWithheld
    <2>1. \A a \in findSources(s).artifacts \cup UNION {listArtifactVersions(s, u).objects : u \in truth} :
            \E uris : a \in sanitizeArtifactForOutput(s, ReadableArtifacts(s, uris))
      BY DEF findSources, SearchIn, listArtifactVersions, Shown, Denied
    <2> QED
      BY <2>1, BundledArtifacts, ListedArtifacts DEF Rules
  <1> QED
    BY <1>1, PTL

---------------------------------------------------------------------------
(* Every place that is known is one of the start, or what one command      *)
(* creates.                                                                *)
Known(u) == u \in Held \cup Lost \/ \E c \in Minted : u \in ObjectOf(c)

PlacesKnown ==
  /\ IsFiniteSet(truth) /\ IsFiniteSet(indexed)
  /\ \A u \in truth \cup indexed : Known(u)

(* What is minted stays so and keeps its verb.                             *)
LEMMA VerbsStay ==
  ASSUME PolicedInv, [Next]_vars
  PROVE  \A c \in Minted : c \in Minted' /\ queue'[c].verb = queue[c].verb
  <1>t. Typed /\ \A s \in Sessions : session[s].pc # "idle" => Named(s) \in Minted
    BY DEF PolicedInv, Typed
  <1>1. ASSUME NEW c \in Minted, NEW st \in Law!Statuses, Save(c, st)
        PROVE  \A d \in Minted : d \in Minted' /\ queue'[d].verb = queue[d].verb
    BY <1>t, <1>1, AfterSave DEF Minted
  <1>2. ASSUME NEW c \in Commands, NEW e, Fresh(c), queue' = [queue EXCEPT ![c] = e]
        PROVE  \A d \in Minted : d \in Minted' /\ queue'[d].verb = queue[d].verb
    BY <1>t, <1>2 DEF Fresh, Minted, Status, Typed
  <1>3. ASSUME NEW s \in Sessions, NEW d \in Commands, SaveCompensation(s, d)
        PROVE  \A c \in Minted : c \in Minted' /\ queue'[c].verb = queue[c].verb
    <2>1. Named(s) \in Minted /\ d \notin Minted
      BY <1>t, <1>3 DEF SaveCompensation, At, Fresh
    <2> DEFINE f == [status |-> "committed", verb |-> "compensate",
                     store |-> queue[Named(s)].store, kind |-> queue[Named(s)].kind]
    <2>2. queue' = [queue EXCEPT ![Named(s)].status = "compensated", ![d] = f]
      BY <1>3 DEF SaveCompensation
    <2> HIDE DEF f
    <2>3. \A c \in Minted : queue'[c] = IF c = Named(s) THEN [queue[c] EXCEPT !.status = "compensated"] ELSE queue[c]
      BY <1>t, <2>1, <2>2 DEF Typed, Minted
    <2>4. \A r \in Record : [r EXCEPT !.status = "compensated"].status = "compensated"
                            /\ [r EXCEPT !.status = "compensated"].verb = r.verb
      BY DEF Record
    <2> QED
      BY <1>t, <2>3, <2>4 DEF Minted, Status, Typed
  <1>4. ASSUME UNCHANGED queue
        PROVE  \A c \in Minted : c \in Minted' /\ queue'[c].verb = queue[c].verb
    BY <1>4 DEF Minted, Status
  <1>5. "committed" \in Law!Statuses /\ {"validated", "approved", "rejected"} \subseteq Law!Statuses
    BY DEF Law!Statuses
  <1>6. CASE UNCHANGED vars
    BY <1>4, <1>6 DEF vars
  <1>7. ASSUME NEW s \in Sessions, CommitMutation(s) \/ StoreWrite(s)
        PROVE  UNCHANGED queue
    BY <1>7 DEF CommitMutation, StoreWrite
  <1>8. ASSUME NEW s \in Sessions, SaveCommitted(s)
        PROVE  Named(s) \in Minted /\ Save(Named(s), "committed")
    BY <1>t, <1>8 DEF SaveCommitted, At
  <1>9. ASSUME NEW s \in Sessions, NEW c \in Commands, Validate(s, c) \/ Approve(s, c) \/ Reject(s, c)
        PROVE  c \in Minted /\ \E st \in Law!Statuses : Save(c, st)
    BY <1>5, <1>9 DEF Validate, Approve, Reject
  <1>10. ASSUME NEW s \in Sessions, NEW c \in Commands,
                \/ \E offer \in Offers : Propose(s, c, offer) \/ CreateEntity(s, c, offer)
                \/ IngestArtifact(s, c) \/ LinkEvidence(s, c) \/ RebuildIndex(s, c)
         PROVE  Fresh(c) /\ \E e : queue' = [queue EXCEPT ![c] = e]
    BY <1>10 DEF Propose, CreateEntity, IngestArtifact, LinkEvidence, RebuildIndex, Direct
  <1>11. ASSUME NEW s \in Sessions, NEW c \in Commands, CallCommit(s, c) \/ CompensateMutation(s, c)
         PROVE  UNCHANGED queue
    BY <1>11 DEF CallCommit, CompensateMutation
  <1> QED
    BY <1>1, <1>2, <1>3, <1>4, <1>5, <1>6, <1>7, <1>8, <1>9, <1>10, <1>11 DEF Next

(* A step adds to the places at most what one minted command creates.      *)
LEMMA PlacesGrow ==
  ASSUME PolicedInv, [Next]_vars
  PROVE  \E E : /\ E = {} \/ \E c \in Minted' : E = ObjectOf(c)'
                /\ truth' \in {truth, truth \cup E}
                /\ indexed' \in {indexed, indexed \cup E, truth}
  <1>t. Typed /\ \A s \in Sessions : session[s].pc # "idle" => Named(s) \in Minted
    BY DEF PolicedInv, Typed
  <1>0. \A c \in Minted : c \in Minted' /\ ObjectOf(c)' = ObjectOf(c)
    BY VerbsStay DEF ObjectOf
  <1>1. ASSUME NEW s \in Sessions, StoreWrite(s) \/ SaveCommitted(s)
        PROVE  /\ Named(s) \in Minted
               /\ truth' \in {truth, truth \cup ObjectOf(Named(s))}
               /\ indexed' \in {indexed, indexed \cup ObjectOf(Named(s))}
    BY <1>t, <1>1 DEF StoreWrite, SaveCommitted, At
  <1>2. ASSUME NEW s \in Sessions, NEW c \in Commands,
               (\E offer \in Offers : CreateEntity(s, c, offer)) \/ IngestArtifact(s, c)
        PROVE  /\ c \in Minted'
               /\ truth' = truth \cup ObjectOf(c)' /\ indexed' = indexed \cup ObjectOf(c)'
    <2>1. PICK verb, store, kind :
            /\ queue' = [queue EXCEPT ![c] = [status |-> "committed", verb |-> verb,
                                              store |-> store, kind |-> kind]]
            /\ \/ verb = "create_entity" /\ truth' = truth \cup {<<"canonical", c>>}
                  /\ indexed' = indexed \cup {<<"canonical", c>>}
               \/ verb = "ingest_artifact" /\ truth' = truth \cup {<<"artifact", c>>}
                  /\ indexed' = indexed \cup {<<"artifact", c>>}
      BY <1>2 DEF CreateEntity, IngestArtifact, Direct
    <2>2. queue'[c] = [status |-> "committed", verb |-> verb, store |-> store, kind |-> kind]
      BY <1>t, <2>1 DEF Typed
    <2>3. queue'[c].status = "committed" /\ queue'[c].verb = verb
      BY <2>2
    <2> QED
      BY <2>1, <2>3 DEF Minted, Status, ObjectOf
  <1>3. ASSUME NEW s \in Sessions, NEW c \in Commands, LinkEvidence(s, c) \/ RebuildIndex(s, c)
        PROVE  truth' = truth /\ indexed' \in {indexed, truth}
    BY <1>3 DEF LinkEvidence, RebuildIndex
  <1>4. ASSUME NEW s \in Sessions, NEW c \in Commands,
               \/ \E offer \in Offers : Propose(s, c, offer)
               \/ Validate(s, c) \/ Approve(s, c) \/ Reject(s, c) \/ CallCommit(s, c)
               \/ CompensateMutation(s, c) \/ SaveCompensation(s, c)
        PROVE  UNCHANGED <<truth, indexed>>
    BY <1>4 DEF Propose, Validate, Approve, Reject, CallCommit, CompensateMutation, SaveCompensation
  <1>5. ASSUME NEW s \in Sessions, CommitMutation(s)
        PROVE  UNCHANGED <<truth, indexed>>
    BY <1>5 DEF CommitMutation
  <1>6. CASE UNCHANGED vars
    BY <1>6 DEF vars
  <1> QED
    BY <1>0, <1>1, <1>2, <1>3, <1>4, <1>5, <1>6 DEF Next

THEOREM PlacesAreKnown == Spec => []PlacesKnown
  <1>1. Init => PlacesKnown
    <2> SUFFICES ASSUME Init PROVE PlacesKnown
      OBVIOUS
    <2>1. IsFiniteSet(Held) /\ IsFiniteSet(Held \cup Lost)
      BY IdsAssumption, FS_Subset
    <2> QED
      BY <2>1 DEF Init, PlacesKnown, Known
  <1>2. ASSUME PolicedInv, [Next]_vars, PlacesKnown PROVE PlacesKnown'
    <2>1. PICK E : /\ E = {} \/ \E c \in Minted' : E = ObjectOf(c)'
                   /\ truth' \in {truth, truth \cup E}
                   /\ indexed' \in {indexed, indexed \cup E, truth}
      BY <1>2, PlacesGrow
    <2>2. E = {} \/ \E u : E = {u}
      BY <2>1 DEF ObjectOf
    <2>3. IsFiniteSet(truth \cup E) /\ IsFiniteSet(indexed \cup E)
      <3>1. ASSUME NEW u, E = {u} PROVE IsFiniteSet(truth \cup E) /\ IsFiniteSet(indexed \cup E)
        BY <1>2, <3>1, FS_AddElement DEF PlacesKnown
      <3> QED
        BY <1>2, <2>2, <3>1 DEF PlacesKnown
    <2>4. \A u : Known(u) => Known(u)'
      BY <1>2, VerbsStay DEF Known, ObjectOf
    <2>5. \A u \in E : Known(u)'
      BY <2>1 DEF Known
    <2> QED
      BY <1>2, <2>1, <2>3, <2>4, <2>5 DEF PlacesKnown
  <1> QED
    BY <1>1, <1>2, PolicedInvariant, PTL DEF Spec

LEMMA IdsDistinct ==
  ASSUME PolicedInv, PlacesKnown
  PROVE  /\ \A u \in indexed : u[2] \in Nat
         /\ \A u, v \in indexed : u[2] = v[2] => u = v
  <1>1. \A c \in Minted : c \in Commands /\ c \in Nat
    BY IdsAssumption DEF Minted
  <1>2. \A c \in Minted : \A u \in ObjectOf(c) : u[2] = c
    BY DEF ObjectOf
  <1>3. \A c \in Minted : \A u, v \in ObjectOf(c) : u = v
    BY DEF ObjectOf
  <1> QED
    BY <1>1, <1>2, <1>3, IdsAssumption DEF PlacesKnown, Known
---------------------------------------------------------------------------
(* The ranks of finitely many places run from 0 without a gap.             *)
LEMMA Ranks ==
  ASSUME NEW S, IsFiniteSet(S),
         \A u \in S : u[2] \in Nat,
         \A u, v \in S : u[2] = v[2] => u = v
  PROVE  LET Rank(u) == Cardinality({v \in S : v[2] < u[2]})
         IN /\ Cardinality(S) \in Nat
            /\ \A u \in S : Rank(u) \in 0..(Cardinality(S) - 1)
            /\ \A u, v \in S : Rank(u) = Rank(v) => u = v
            /\ \A i \in 0..(Cardinality(S) - 1) : \E u \in S : Rank(u) = i
  <1> DEFINE B(u)    == {v \in S : v[2] < u[2]}
             Rank(u) == Cardinality(B(u))
             n       == Cardinality(S)
  <1>0. n \in Nat
    BY FS_CardinalityType
  <1>1. \A u \in S : IsFiniteSet(B(u)) /\ Rank(u) \in Nat
    BY FS_Subset, FS_CardinalityType
  <1>2. ASSUME NEW T \in SUBSET S, NEW u \in S, u \notin T, IsFiniteSet(T)
        PROVE  Cardinality(T) + 1 = Cardinality(T \cup {u}) /\ IsFiniteSet(T \cup {u})
    BY <1>2, FS_AddElement
  <1>3. ASSUME NEW T, IsFiniteSet(T), NEW R \in SUBSET T
        PROVE  Cardinality(R) <= Cardinality(T)
    BY <1>3, FS_Subset
  <1>4. ASSUME NEW u \in S PROVE Rank(u) \in 0..(n - 1)
    <2>1. u \notin B(u)
      OBVIOUS
    <2>2. Rank(u) + 1 = Cardinality(B(u) \cup {u})
      <3> HIDE DEF B
      <3>1. B(u) \in SUBSET S
        BY DEF B
      <3> QED
        BY <1>1, <1>2, <2>1, <3>1
    <2>3. Cardinality(B(u) \cup {u}) <= n
      BY <1>3
    <2> HIDE DEF B, n
    <2> QED
      BY <1>0, <1>1, <2>2, <2>3
  <1>5. ASSUME NEW u \in S, NEW v \in S, u[2] < v[2] PROVE Rank(u) < Rank(v)
    <2>1. u \notin B(u) /\ B(u) \cup {u} \in SUBSET B(v) /\ B(u) \in SUBSET S
      BY <1>5
    <2> HIDE DEF B
    <2>2. Rank(u) + 1 = Cardinality(B(u) \cup {u})
      BY <1>1, <1>2, <2>1
    <2>3. Cardinality(B(u) \cup {u}) <= Rank(v)
      BY <1>1, <1>3, <2>1
    <2> QED
      BY <1>1, <2>2, <2>3
  <1>6. \A u, v \in S : Rank(u) = Rank(v) => u = v
    <2> SUFFICES ASSUME NEW u \in S, NEW v \in S, Rank(u) = Rank(v), u # v PROVE FALSE
      OBVIOUS
    <2>1. u[2] < v[2] \/ v[2] < u[2]
      OBVIOUS
    <2> HIDE DEF Rank
    <2>2. Rank(u) < Rank(v) \/ Rank(v) < Rank(u)
      BY <1>5, <2>1
    <2>3. Rank(u) \in Nat
      BY <1>1 DEF Rank
    <2> QED
      BY <2>2, <2>3
  <1> DEFINE r == [u \in S |-> Rank(u)]
             I == 0..(n - 1)
  <1>7. r \in Injection(S, I)
    <2>1. r \in [S -> I]
      <3> HIDE DEF Rank, n
      <3> QED
        BY <1>4
    <2>2. \A u, v \in S : r[u] = r[v] => u = v
      <3> HIDE DEF Rank
      <3> QED
        BY <1>6
    <2> HIDE DEF r, I
    <2> QED
      BY <2>1, <2>2 DEF Injection, IsInjective
  <1>8. IsFiniteSet(I) /\ Cardinality(I) = n
    <2>1. n - 1 \in Int /\ 0 \in Int /\ (0 > n - 1 => n = 0) /\ n - 1 - 0 + 1 = n
      BY <1>0
    <2> HIDE DEF n
    <2> QED
      BY <2>1, FS_Interval
  <1>9. r \in Surjection(S, I)
    <2> HIDE DEF r, I
    <2> QED
      BY <1>7, <1>8, FS_Injection
  <1>10. \A i \in I : \E u \in S : Rank(u) = i
    <2>1. \A i \in I : \E u \in S : r[u] = i
      <3> HIDE DEF r, I
      <3> QED
        BY <1>9 DEF Surjection
    <2> HIDE DEF Rank, I
    <2> QED
      BY <2>1
  <1> QED
    BY <1>0, <1>4, <1>6, <1>10

(* A slice that ends before the last record is full.                       *)
LEMMA SliceIsFull ==
  ASSUME PolicedInv, PlacesKnown, NEW limit \in Nat, NEW o \in Nat, limit # 0,
         o + limit <= Cardinality(indexed)
  PROVE  Cardinality(Slice(limit, o)) = limit
  <1> DEFINE n == Cardinality(indexed)
  <1>1. /\ n \in Nat
        /\ \A u \in indexed : Position(u) \in 0..(n - 1)
        /\ \A u, v \in indexed : Position(u) = Position(v) => u = v
        /\ \A i \in 0..(n - 1) : \E u \in indexed : Position(u) = i
    BY IdsDistinct, Ranks DEF Position, PlacesKnown
  <1> DEFINE S == Slice(limit, o)
             I == o..(o + limit - 1)
             r == [u \in S |-> Position(u)]
  <1>2. \A u : u \in S <=> u \in indexed /\ Position(u) \in I
    BY <1>1 DEF Slice
  <1> HIDE DEF S
  <1>3. r \in [S -> I] /\ \A u, v \in S : r[u] = r[v] => u = v
    BY <1>1, <1>2
  <1>4. \A i \in I : \E u \in S : r[u] = i
    <2>1. \A i \in I : i \in 0..(n - 1)
      BY <1>1
    <2> QED
      BY <1>1, <1>2, <2>1
  <1>5. r \in Injection(S, I) /\ r \in Surjection(S, I)
    <2> HIDE DEF r, I
    <2> QED
      BY <1>3, <1>4 DEF Injection, IsInjective, Surjection
  <1>6. IsFiniteSet(I) /\ Cardinality(I) = limit
    <2>1. /\ o \in Int /\ o + limit - 1 \in Int
          /\ ~ (o > o + limit - 1)
          /\ o + limit - 1 - o + 1 = limit
      OBVIOUS
    <2> QED
      BY <2>1, FS_Interval
  <1>7. Cardinality(S) = Cardinality(I)
    <2> HIDE DEF r, I
    <2> QED
      BY <1>5, <1>6, FS_Injection
  <1> QED
    BY <1>6, <1>7 DEF S

(* A page's records are those of the search that the page's slice holds.   *)
LEMMA PageIsPart ==
  ASSUME NEW s, NEW hits \in SUBSET indexed
  PROVE  SearchIn(s, hits).records = findSources(s).records \cap hits
  <1> DEFINE Shown1(H) == {v \in H \cap truth : v[1] \in {"canonical", "artifact"} /\ enforce(s, AsksObject(s, v))}
             Shown2(H) == {e.uri : e \in ReadableEntities(s, H \cap truth)}
                            \cup {a.uri : a \in ReadableArtifacts(s, H \cap truth)}
  <1>1. \A v, rules : redactEntity(Entity(v), rules).uri = v /\ redactArtifact(Artifact(v), rules).uri = v
    BY DEF redactEntity, redactArtifact, Entity, Artifact
  <1>2. ASSUME NEW H PROVE Shown2(H) = Shown1(H)
    <2>1. {e.uri : e \in ReadableEntities(s, H \cap truth)}
            = {v \in H \cap truth : v[1] = "canonical" /\ enforce(s, AsksObject(s, v))}
      BY <1>1 DEF ReadableEntities
    <2>2. {a.uri : a \in ReadableArtifacts(s, H \cap truth)}
            = {v \in H \cap truth : v[1] = "artifact" /\ enforce(s, AsksObject(s, v))}
      BY <1>1 DEF ReadableArtifacts
    <2> QED
      BY <2>1, <2>2
  <1>3. ASSUME NEW H
        PROVE  SearchIn(s, H).records =
                 IF enforce(s, AsksStore(s, "discover_existence", "index"))
                 THEN {u \in H : RecordShown(s, u, Shown2(H))} ELSE {}
    BY DEF SearchIn
  <1> HIDE DEF Shown2
  <1>4. ASSUME NEW u \in hits
        PROVE  RecordShown(s, u, Shown2(hits)) <=> RecordShown(s, u, Shown2(indexed))
    BY <1>2 DEF RecordShown
  <1>5. findSources(s).records = SearchIn(s, indexed).records
    BY DEF findSources
  <1> QED
    BY <1>3, <1>4, <1>5
(* A walk over pages that were not cut short reaches every record.         *)
LEMMA WalkReachesAll ==
  ASSUME PolicedInv, PlacesKnown, NEW s, NEW limit \in 1..2
  PROVE  LET pages  == {[at |-> o, page |-> findPage(s, limit, o)] :
                          o \in {n \in 0..Cardinality(indexed) : n % limit = 0}}
             walked == {p \in pages : \A q \in pages : q.at < p.at => q.page.nextCursor = q.at + limit}
             items  == UNION {p.page.items : p \in walked}
         IN /\ items \subseteq findSources(s).records
            /\ items = findSources(s).records \/ \E p \in walked : p.page.items # Slice(limit, p.at)
  <1> DEFINE N       == Cardinality(indexed)
             Starts  == {n \in 0..N : n % limit = 0}
             Page(o) == [at |-> o, page |-> findPage(s, limit, o)]
             pages   == {Page(o) : o \in Starts}
             walked  == {p \in pages : \A q \in pages : q.at < p.at => q.page.nextCursor = q.at + limit}
             items   == UNION {p.page.items : p \in walked}
             Reached(o) == \A q \in Starts : q < o => findPage(s, limit, q).nextCursor = q + limit
  <1>0. /\ N \in Nat
        /\ \A u \in indexed : Position(u) \in 0..(N - 1)
    BY IdsDistinct, Ranks DEF Position, PlacesKnown
  <1>1. /\ \A n \in Nat : /\ n - (n % limit) \in Nat /\ (n - (n % limit)) % limit = 0
                          /\ n - (n % limit) <= n /\ n < n - (n % limit) + limit
        /\ \A q, m \in Nat : q % limit = 0 /\ m % limit = 0 /\ q < m => q + limit <= m
        /\ limit \in Nat /\ limit # 0
    <2>1. CASE limit = 1
      BY <2>1
    <2>2. CASE limit = 2
      BY <2>2
    <2> QED
      BY <2>1, <2>2
  <1>2. \A o : /\ Slice(limit, o) \in SUBSET indexed
               /\ findPage(s, limit, o).items = findSources(s).records \cap Slice(limit, o)
               /\ Cardinality(findPage(s, limit, o).items) = limit
                    => findPage(s, limit, o).nextCursor = o + limit
    <2>1. \A o : Slice(limit, o) \in SUBSET indexed
      BY DEF Slice
    <2> QED
      BY <2>1, PageIsPart DEF findPage
  <1>3. \A o : Page(o).at = o /\ Page(o).page = findPage(s, limit, o)
    OBVIOUS
  <1> HIDE DEF Page
  <1>4. \A p : p \in walked <=> \E o \in Starts : p = Page(o) /\ Reached(o)
    BY <1>3
  <1>5. items \subseteq findSources(s).records
    <2>1. \A p \in walked : p.page.items \subseteq findSources(s).records
      BY <1>2, <1>3, <1>4
    <2> HIDE DEF walked
    <2> QED
      BY <2>1
  <1>6. ASSUME \A p \in walked : p.page.items = Slice(limit, p.at)
        PROVE  findSources(s).records \subseteq items
    <2>1. \A o \in Starts : Reached(o) => findPage(s, limit, o).items = Slice(limit, o) /\ Slice(limit, o) \subseteq items
      <3> SUFFICES ASSUME NEW o \in Starts, Reached(o)
                   PROVE  findPage(s, limit, o).items = Slice(limit, o) /\ Slice(limit, o) \subseteq items
        OBVIOUS
      <3>1. Page(o) \in walked
        BY <1>4
      <3>2. findPage(s, limit, o).items = Slice(limit, o)
        BY <1>3, <1>6, <3>1
      <3>3. findPage(s, limit, o).items \subseteq items
        <4> HIDE DEF walked
        <4> QED
          BY <1>3, <3>1
      <3> QED
        BY <3>2, <3>3
    <2> SUFFICES ASSUME NEW u \in findSources(s).records PROVE u \in items
      OBVIOUS
    <2>2. u \in indexed
      BY DEF findSources, SearchIn
    <2>3. PICK o \in Nat : o = Position(u) - (Position(u) % limit)
      BY <1>0, <1>1, <2>2
    <2>4. /\ Position(u) \in Nat /\ Position(u) < N
          /\ o <= Position(u) /\ Position(u) < o + limit /\ o \in Starts
      <3>1. Position(u) \in Nat /\ Position(u) < N
        BY <1>0, <2>2
      <3>2. o <= Position(u) /\ Position(u) < o + limit /\ o % limit = 0
        BY <1>1, <2>3, <3>1
      <3> QED
        BY <1>0, <3>1, <3>2
    <2> DEFINE Missed == {q \in Starts : q <= o /\ ~ Reached(q)}
    <2> HIDE DEF items, Reached, walked, pages
    <2>5. Missed = {}
      <3> SUFFICES ASSUME Missed # {} PROVE FALSE
        OBVIOUS
      <3>1. Missed \in SUBSET Nat
        OBVIOUS
      <3>2. PICK m \in Missed : \A q \in Missed : m <= q
        <4> HIDE DEF Missed
        <4> QED
          BY <3>1, LeastExists
      <3>3. PICK q \in Starts : q < m /\ findPage(s, limit, q).nextCursor # q + limit
        BY DEF Reached
      <3>4. q \in Nat /\ m \in Nat /\ q % limit = 0 /\ m % limit = 0 /\ m <= o
        BY <1>0
      <3>5. Reached(q)
        <4>1. q \notin Missed
          <5>1. ~ (m <= q)
            BY <3>3, <3>4
          <5> HIDE DEF Missed
          <5> QED
            BY <3>2, <5>1
        <4>2. q <= o
          BY <3>3, <3>4
        <4> QED
          BY <4>1, <4>2
      <3>6. q + limit <= N
        <4>1. q + limit <= m
          BY <1>1, <3>3, <3>4
        <4> HIDE DEF N
        <4> QED
          BY <1>0, <1>1, <2>4, <3>4, <4>1
      <3>7. Cardinality(Slice(limit, q)) = limit
        <4> QED
          BY <1>1, <3>4, <3>6, SliceIsFull
      <3> QED
        BY <1>2, <2>1, <3>3, <3>5, <3>7
    <2>6. Reached(o)
      BY <2>4, <2>5
    <2>7. u \in Slice(limit, o)
      BY <2>2, <2>4 DEF Slice
    <2> QED
      BY <2>1, <2>4, <2>6, <2>7
  <1> HIDE DEF walked, items
  <1>7. items = findSources(s).records \/ \E p \in walked : p.page.items # Slice(limit, p.at)
    BY <1>5, <1>6
  <1> QED
    BY <1>5, <1>7 DEF walked, items, Page

(* What the engine decides is an allowance or a denial.                    *)
LEMMA DecidesOneWay ==
  ASSUME setting \in Settings, NEW s, NEW r
  PROVE  Decide(s, r).decision = "deny" \/ enforce(s, r)
  <1> DEFINE M == Matching(setting.policies, r)
  <1>1. M \in SUBSET Policies
    BY SettingsAssumption DEF Matching
  <1>2. Decide(s, r).decision = IF M = {} THEN "deny" ELSE FirstMatch(M).decision
    BY DecisionOfFirst DEF Decide
  <1>3. M # {} => FirstMatch(M).decision \in {"allow", "deny"}
    <2>1. M # {} => FirstMatch(M) \in M
      <3> HIDE DEF M
      <3> QED
        BY <1>1, FirstIsFirst
    <2> QED
      BY <1>1, <2>1, SortAssumption
  <1> QED
    BY <1>2, <1>3 DEF enforce

(* What a single read shows, every view that is not refused shows, redacted *)
(* no less; lists of commands are complete, and a walk over pages that were *)
(* not cut short is: in every configuration and for any number of objects.  *)
THEOREM AllViewsAgree == Spec => []ViewsAgree
  <1>1. ASSUME PolicedInv, PlacesKnown PROVE ViewsAgree
    <2>0. setting \in Settings
      BY <1>1 DEF PolicedInv, Typed
    <2>1. ASSUME NEW s \in Sessions, NEW u \in truth \cap indexed, u[1] = "canonical",
                 inspectEntity(s, u).outcome = "shown"
          PROVE  /\ listEntityVersions(s, u) = inspectEntity(s, u)
                 /\ getEntityVersion(s, u) = inspectEntity(s, u)
                 /\ findSources(s).outcome = "shown" => inspectEntity(s, u).objects \subseteq findSources(s).entities
                 /\ \A e \in retrieveBundle(s).entities : e.uri = u /\ e.attributes => e \in inspectEntity(s, u).objects
      <3> DEFINE shown == redactEntity(Entity(u), Rules(s, u))
      <3>1. /\ enforce(s, AsksStore(s, "read_owner_truth", "canonical"))
            /\ enforce(s, AsksObject(s, u))
            /\ inspectEntity(s, u) = Shown({shown}) /\ getEntityVersion(s, u) = Shown({shown})
        <4>1. u \in truth
          BY <2>1
        <4>2. "denied" # "shown"
          OBVIOUS
        <4>3. /\ enforce(s, AsksStore(s, "read_owner_truth", "canonical"))
              /\ Decide(s, AsksObject(s, u)).decision # "deny"
          BY <2>1, <4>1 DEF inspectEntity, EntityAt, Denied
        <4>4. enforce(s, AsksObject(s, u))
          BY <2>0, <4>3, DecidesOneWay
        <4> QED
          BY <4>1, <4>3, <4>4 DEF inspectEntity, getEntityVersion, EntityAt, Rules
      <3>2. \A v, rules : /\ redactEntity(Entity(v), rules) = [uri |-> v, attributes |-> "entity_attributes" \notin rules]
        BY DEF redactEntity, Entity
      <3>3. \A uris : u \in uris => shown \in ReadableEntities(s, uris)
        BY <2>1, <3>1 DEF ReadableEntities, Rules
      <3>4. ReadableEntities(s, {u} \cap truth) = {shown}
        BY <2>1, <3>1 DEF ReadableEntities, Rules
      <3>5. listEntityVersions(s, u) = Shown({shown})
        BY <3>1, <3>4 DEF listEntityVersions
      <3>6. ASSUME NEW e \in retrieveBundle(s).entities, e.uri = u, e.attributes
            PROVE  e = shown
        <4>1. PICK v, blanket : e = redactEntity(redactEntity(Entity(v), Rules(s, v)), blanket)
          BY <3>6 DEF retrieveBundle, ReadableEntities, Rules
        <4> DEFINE b == "entity_attributes" \notin Rules(s, v)
        <4>2. redactEntity(Entity(v), Rules(s, v)) = [uri |-> v, attributes |-> b] /\ b \in BOOLEAN
          BY <3>2
        <4> HIDE DEF b
        <4>3. redactEntity([uri |-> v, attributes |-> b], blanket)
                = [uri |-> v, attributes |-> b /\ "entity_attributes" \notin blanket]
          BY DEF redactEntity
        <4>4. e = [uri |-> v, attributes |-> b /\ "entity_attributes" \notin blanket]
          BY <4>1, <4>2, <4>3
        <4>5. v = u /\ b
          BY <3>6, <4>4
        <4>6. e = [uri |-> u, attributes |-> b]
          BY <3>6, <4>4, <4>5
        <4> QED
          BY <4>2, <4>5, <4>6
      <3>7. findSources(s).outcome = "shown" => shown \in findSources(s).entities
        BY <2>1, <3>3 DEF findSources, SearchIn
      <3> QED
        BY <3>1, <3>5, <3>6, <3>7 DEF Shown
    <2>2. ASSUME NEW s \in Sessions, listCommands(s).outcome = "shown"
          PROVE  listCommands(s).objects = UNION {inspectCommand(s, c).objects : c \in Minted}
      <3>1. enforce(s, AsksStore(s, "read_command", "ledger"))
        BY <2>2 DEF listCommands, Denied
      <3>2. \A c : enforce(s, AsksLedger(s, c))
        <4>1. Permitted(setting, s, "read_command", "ledger", None, None, None)
          BY <2>0, <3>1, EnforceIsPermitted DEF AsksStore
        <4>2. \A c : Permitted(setting, s, "read_command", "ledger", None, <<"ledger", c>>, None)
          BY <2>0, <4>1, FillingIn
        <4> QED
          <5> TAKE c
          <5>1. Permitted(setting, s, "read_command", "ledger", None, <<"ledger", c>>, None)
            BY <4>2
          <5> QED
            BY <2>0, <5>1, EnforceIsPermitted DEF AsksLedger
      <3>3. \A c \in Minted : inspectCommand(s, c).objects = IF enforce(s, AsksCommand(s, c)) THEN {AsCommand(s, c)} ELSE {}
        BY <3>2 DEF inspectCommand, Denied, Shown
      <3>4. listCommands(s).objects = {AsCommand(s, c) : c \in {d \in Minted : enforce(s, AsksCommand(s, d))}}
        BY <3>1 DEF listCommands, Shown
      <3> DEFINE all == UNION {inspectCommand(s, c).objects : c \in Minted}
      <3>5. \A c \in Minted : enforce(s, AsksCommand(s, c)) => AsCommand(s, c) \in all
        BY <3>3
      <3>6. \A x \in all : \E c \in Minted : x \in inspectCommand(s, c).objects
        OBVIOUS
      <3> HIDE DEF all
      <3>7. \A x \in all : x \in listCommands(s).objects
        BY <3>3, <3>4, <3>6
      <3>8. \A x \in listCommands(s).objects : x \in all
        BY <3>4, <3>5
      <3>9. listCommands(s).objects = all
        BY <3>7, <3>8
      <3> QED
        BY <3>9 DEF all
    <2>3. ASSUME NEW s \in Sessions, NEW limit \in 1..2
          PROVE LET pages  == {[at |-> o, page |-> findPage(s, limit, o)] :
                                 o \in {n \in 0..Cardinality(indexed) : n % limit = 0}}
                    walked == {p \in pages : \A q \in pages : q.at < p.at => q.page.nextCursor = q.at + limit}
                    items  == UNION {p.page.items : p \in walked}
                IN /\ items \subseteq findSources(s).records
                   /\ items = findSources(s).records \/ \E p \in walked : p.page.items # Slice(limit, p.at)
      BY <1>1, WalkReachesAll
    <2> QED
      BY <2>1, <2>2, <2>3 DEF ViewsAgree
  <1> QED
    BY <1>1, PolicedInvariant, PlacesAreKnown, PTL
============================================================================
