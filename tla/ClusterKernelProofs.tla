------------------------ MODULE ClusterKernelProofs ------------------------
(***************************************************************************)
(* What ClusterKernel keeps for any commands, calls, contents and entities, *)
(* with any overlap, faults and crashes where a theorem assumes no less.    *)
(* First the typing invariant: facts about the operators, one lemma per     *)
(* action, and TypedStep that collects them.  Then what a step can do to    *)
(* each shared variable (EventsStep, ExecutedStep, ...), from which the     *)
(* inductive invariant KernelInv follows without a look at the actions      *)
(* again.  Last what a step can do to one call (CallStep, BeginCall,        *)
(* ContinueCall), from which every store write is traced to its record; and *)
(* what the traces of PickingProofs show of the ledger so written.          *)
(***************************************************************************)
EXTENDS KernelTraces, PickingProofs, WellFoundedInduction

(* What TypeOK needs to be inductive: a call under way has a command, and a *)
(* command that is in use has a verb and a target of that verb's shape.     *)

Named ==
  /\ \A k \in Calls : pc[k] # "idle" => cmd[k] \in Commands
  /\ \A k \in Calls : cmd[k] \in Commands => verb[cmd[k]] # "none"
  /\ \A c \in Commands : status[c] # "none" => verb[c] # "none"
  /\ \A c \in Commands : verb[c] # "none" => target[c] \in TargetsOf(verb[c])

Typed == TypeOK /\ Named

LEMMA TargetFacts ==
  ASSUME NEW v \in Verbs, NEW t \in TargetsOf(v)
  PROVE  /\ t \in Targets
         /\ v \in {"update_entity", "link_evidence"} => t.entity \in Ids
         /\ v = "link_evidence" => t.artifact \in Ids
         /\ v = "ingest_artifact" => t.content \in Contents
  BY DEF TargetsOf, Targets, Ids

LEMMA TypedInit == Init => Typed
  BY KernelAssumption DEF Init, Typed, TypeOK, QueueOK, StoresOK, LedgerOK, CallsOK, Named, Ids,
                          InFlight, Ended, Receipts

(* A call that is under way has a command, with a payload of its verb's     *)
(* shape.                                                                   *)
LEMMA CallFacts ==
  ASSUME Typed, NEW k \in Calls, pc[k] # "idle"
  PROVE  /\ cmd[k] \in Commands
         /\ verb[cmd[k]] \in Verbs
         /\ target[cmd[k]] \in TargetsOf(verb[cmd[k]])
  BY DEF Typed, TypeOK, QueueOK, CallsOK, Named

LEMMA LedgerEventTyped ==
  ASSUME NEW kind \in EventKinds, NEW c \in Commands \cup {None},
         NEW k \in Calls \cup {None}, NEW s \in Ids \cup {None}
  PROVE  LedgerEvent(kind, c, k, s) \in Events
  BY DEF LedgerEvent, Events

LEMMA EventOfTyped ==
  ASSUME Typed, NEW k \in Calls, pc[k] # "idle"
  PROVE  EventOf(k) \in Events /\ SubjectOf(k) \in Ids \cup {None}
<1>1. SubjectOf(k) \in Ids \cup {None}
  BY CallFacts, TargetFacts DEF SubjectOf, Ids, Targets
<1>2. KindOf(k) \in EventKinds
  BY DEF KindOf, EventKinds
<1>3. previous[k] \in Nat /\ parent[k] \in Nat
  BY DEF Typed, TypeOK, CallsOK
<1> QED
  BY <1>1, <1>2, <1>3, CallFacts DEF EventOf, Events

LEMMA AppendTyped ==
  ASSUME events \in Seq(Events), NEW e \in Events,
         recordProvenance(e) \/ recordProvenanceThrows(e)
  PROVE  events' \in Seq(Events)
  BY DEF recordProvenance, recordProvenanceThrows

(* A non-empty set of positions has a last one.                             *)
LEMMA LastExists ==
  ASSUME NEW s \in Seq(Events), NEW S \in SUBSET DOMAIN s, S # {}
  PROVE  \E i \in S : \A j \in S : j <= i
<1> DEFINE T == {Len(s) - i : i \in S}
<1>1. T \in SUBSET Nat /\ T # {}
  OBVIOUS
<1>2. PICK m \in T : \A n \in T : ~ (<<n, m>> \in OpToRel(<, Nat))
  BY <1>1, WFMin, NatLessThanWellFounded
<1>3. ASSUME NEW n \in T PROVE m <= n
  <2>1. n \in Nat /\ m \in Nat
    BY <1>1
  <2>2. n < m => <<n, m>> \in OpToRel(<, Nat)
    BY <2>1 DEF OpToRel
  <2>3. ~ (n < m)
    BY <1>2, <2>2
  <2> QED
    BY <2>1, <2>3
<1>4. PICK i \in S : m = Len(s) - i
  BY <1>2
<1>5. \A j \in S : Len(s) - i <= Len(s) - j
  BY <1>3, <1>4
<1> QED
  BY <1>5

(***************************************************************************)
(* One lemma per action: it keeps Typed.  Each step is one conjunct of      *)
(* Typed, and cites the action and the conjuncts it reads.                  *)
(***************************************************************************)
LEMMA Typed_proposeMutation ==
  ASSUME Typed, NEW c \in Commands, proposeMutation(c)
  PROVE  Typed'
<1>0. TypeOK /\ Named
  BY DEF Typed
<1>o. PICK v \in Offered, ok \in BOOLEAN : \E t \in TargetsOf(v) :
        /\ pending' = IF v = "ingest_artifact" THEN pending \cup {t.content} ELSE pending
        /\ \/ /\ SetStatus(c, "proposed")
              /\ verb'   = [verb EXCEPT ![c] = v]
              /\ target' = [target EXCEPT ![c] = t]
              /\ valid'  = [valid EXCEPT ![c] = ok]
           \/ UNCHANGED queue
  BY DEF proposeMutation
<1>p. PICK t \in TargetsOf(v) :
        /\ pending' = IF v = "ingest_artifact" THEN pending \cup {t.content} ELSE pending
        /\ \/ /\ SetStatus(c, "proposed")
              /\ verb'   = [verb EXCEPT ![c] = v]
              /\ target' = [target EXCEPT ![c] = t]
              /\ valid'  = [valid EXCEPT ![c] = ok]
           \/ UNCHANGED queue
  BY <1>o
<1>v. v \in Verbs
  BY KernelAssumption
<1>1. QueueOK'
  <2>1. pending' \subseteq Contents
    BY <1>0, <1>p, <1>v, TargetFacts DEF TypeOK, QueueOK
  <2>2. CASE UNCHANGED queue
    BY <1>0, <2>1, <2>2 DEF TypeOK, QueueOK, queue
  <2>3. CASE ~UNCHANGED queue
    BY <1>0, <1>p, <1>v, <2>1, <2>3, TargetFacts DEF TypeOK, QueueOK, SetStatus
  <2> QED
    BY <2>2, <2>3
<1>2. StoresOK'
  BY <1>0 DEF TypeOK, StoresOK, proposeMutation, stores
<1>3. LedgerOK'
  BY <1>0 DEF TypeOK, LedgerOK, proposeMutation, ledger
<1>4. CallsOK'
  BY <1>0 DEF TypeOK, CallsOK, proposeMutation, locals
<1>5. Named'
  <2>1. UNCHANGED <<pc, cmd>> /\ Fresh(c)
    BY DEF proposeMutation, locals
  <2>2. CASE UNCHANGED queue
    BY <1>0, <2>1, <2>2 DEF Named, queue
  <2>3. CASE ~UNCHANGED queue
    <3>1. /\ status' = [status EXCEPT ![c] = "proposed"]
          /\ verb'   = [verb EXCEPT ![c] = v]
          /\ target' = [target EXCEPT ![c] = t]
      BY <1>p, <2>3 DEF SetStatus
    <3>2. v # "none"
      BY <1>v DEF Verbs
    <3> QED
      BY <1>0, <2>1, <3>1, <3>2 DEF TypeOK, QueueOK, CallsOK, Named, Fresh
  <2> QED
    BY <2>2, <2>3
<1> QED
  BY <1>1, <1>2, <1>3, <1>4, <1>5 DEF Typed, TypeOK

LEMMA Typed_validateMutation ==
  ASSUME Typed, NEW c \in Commands, validateMutation(c)
  PROVE  Typed'
<1>0. TypeOK /\ Named
  BY DEF Typed
<1>1. QueueOK'
  BY <1>0, TargetFacts DEF TypeOK, QueueOK, validateMutation, SetStatus, Verbs, queue
<1>2. StoresOK'
  BY <1>0 DEF TypeOK, StoresOK, validateMutation, stores
<1>3. LedgerOK'
  BY <1>0 DEF TypeOK, LedgerOK, validateMutation, ledger
<1>4. CallsOK'
  BY <1>0 DEF TypeOK, CallsOK, validateMutation, locals
<1>5. Named'
  BY <1>0 DEF TypeOK, QueueOK, CallsOK, Named, validateMutation, SetStatus, locals
<1> QED
  BY <1>1, <1>2, <1>3, <1>4, <1>5 DEF Typed, TypeOK

LEMMA Typed_approveMutation ==
  ASSUME Typed, NEW c \in Commands, approveMutation(c)
  PROVE  Typed'
<1>0. TypeOK /\ Named
  BY DEF Typed
<1>1. QueueOK'
  BY <1>0, TargetFacts DEF TypeOK, QueueOK, approveMutation, SetStatus, Verbs
<1>2. StoresOK'
  BY <1>0 DEF TypeOK, StoresOK, approveMutation, stores
<1>3. LedgerOK'
  BY <1>0, AppendTyped, LedgerEventTyped, TargetFacts DEF TypeOK, LedgerOK, approveMutation,
                                                          SetStatus, EventKinds, ledger
<1>4. CallsOK'
  BY <1>0 DEF TypeOK, CallsOK, approveMutation, locals
<1>5. Named'
  BY <1>0 DEF TypeOK, Named, approveMutation, SetStatus, locals
<1> QED
  BY <1>1, <1>2, <1>3, <1>4, <1>5 DEF Typed, TypeOK

LEMMA Typed_rejectMutation ==
  ASSUME Typed, NEW c \in Commands, rejectMutation(c)
  PROVE  Typed'
<1>0. TypeOK /\ Named
  BY DEF Typed
<1>1. QueueOK'
  BY <1>0, TargetFacts DEF TypeOK, QueueOK, rejectMutation, SetStatus, Verbs
<1>2. StoresOK'
  BY <1>0 DEF TypeOK, StoresOK, rejectMutation, stores
<1>3. LedgerOK'
  BY <1>0, AppendTyped, LedgerEventTyped, TargetFacts DEF TypeOK, LedgerOK, rejectMutation,
                                                          SetStatus, EventKinds, ledger
<1>4. CallsOK'
  BY <1>0 DEF TypeOK, CallsOK, rejectMutation, locals
<1>5. Named'
  BY <1>0 DEF TypeOK, Named, rejectMutation, SetStatus, locals
<1> QED
  BY <1>1, <1>2, <1>3, <1>4, <1>5 DEF Typed, TypeOK

LEMMA Typed_commitMutation ==
  ASSUME Typed, NEW k \in Calls, NEW c \in Commands, commitMutation(k, c)
  PROVE  Typed'
<1>0. TypeOK /\ Named
  BY DEF Typed
<1>1. QueueOK'
  BY <1>0 DEF TypeOK, QueueOK, commitMutation, BeginCommit, Goto, BeginCommitFrom
<1>2. StoresOK'
  BY <1>0 DEF TypeOK, StoresOK, commitMutation, BeginCommit, Goto, BeginCommitFrom, stores
<1>3. LedgerOK'
  BY <1>0 DEF TypeOK, LedgerOK, commitMutation, BeginCommit, Goto, BeginCommitFrom, ledger
<1>4. CallsOK'
  BY <1>0, TargetFacts DEF TypeOK, CallsOK, commitMutation, BeginCommit, Goto, BeginCommitFrom,
                           InFlight
<1>5. Named'
  BY <1>0 DEF TypeOK, QueueOK, CallsOK, Named, commitMutation, BeginCommit, Goto,
              BeginCommitFrom
<1> QED
  BY <1>1, <1>2, <1>3, <1>4, <1>5 DEF Typed, TypeOK

LEMMA Typed_commitUpdate ==
  ASSUME Typed, NEW k \in Calls, NEW c \in Commands, commitUpdate(k, c)
  PROVE  Typed'
<1>0. TypeOK /\ Named
  BY DEF Typed
<1>1. QueueOK'
  BY <1>0 DEF TypeOK, QueueOK, commitUpdate, BeginCommit, Goto, BeginCommitFrom
<1>2. StoresOK'
  BY <1>0 DEF TypeOK, StoresOK, commitUpdate, BeginCommit, Goto, BeginCommitFrom, stores
<1>3. LedgerOK'
  BY <1>0 DEF TypeOK, LedgerOK, commitUpdate, BeginCommit, Goto, BeginCommitFrom, ledger
<1>4. CallsOK'
  <2>1. verb[c] = "update_entity" /\ target[c] \in TargetsOf(verb[c])
    BY <1>0 DEF commitUpdate, Named
  <2>2. target[c].entity \in Ids
    BY <2>1, TargetFacts DEF Verbs
  <2>3. previous' \in [Calls -> Nat]
    BY <1>0, <2>2 DEF TypeOK, CallsOK, StoresOK, commitUpdate
  <2> QED
    BY <1>0, <2>3 DEF TypeOK, CallsOK, commitUpdate, BeginCommit, BeginCommitFrom, Goto,
                      InFlight
<1>5. Named'
  BY <1>0 DEF TypeOK, QueueOK, CallsOK, Named, commitUpdate, BeginCommit, Goto, BeginCommitFrom
<1> QED
  BY <1>1, <1>2, <1>3, <1>4, <1>5 DEF Typed, TypeOK

LEMMA Typed_commitIngest ==
  ASSUME Typed, NEW k \in Calls, NEW c \in Commands, commitIngest(k, c)
  PROVE  Typed'
<1>0. TypeOK /\ Named
  BY DEF Typed
<1>1. QueueOK'
  BY <1>0 DEF TypeOK, QueueOK, commitIngest, BeginCommit, Goto, BeginCommitFrom
<1>2. StoresOK'
  BY <1>0 DEF TypeOK, StoresOK, commitIngest, BeginCommit, Goto, BeginCommitFrom, stores
<1>3. LedgerOK'
  BY <1>0 DEF TypeOK, LedgerOK, commitIngest, BeginCommit, Goto, BeginCommitFrom, ledger
<1>4. CallsOK'
  BY <1>0, TargetFacts DEF TypeOK, CallsOK, commitIngest, BeginCommit, Goto, BeginCommitFrom,
                           QueueOK, InFlight, Ended
<1>5. Named'
  BY <1>0 DEF TypeOK, QueueOK, CallsOK, Named, commitIngest, BeginCommit, Goto, BeginCommitFrom
<1> QED
  BY <1>1, <1>2, <1>3, <1>4, <1>5 DEF Typed, TypeOK

LEMMA Typed_commitUnknownVerb ==
  ASSUME Typed, NEW k \in Calls, NEW c \in Commands, commitUnknownVerb(k, c)
  PROVE  Typed'
<1>0. TypeOK /\ Named
  BY DEF Typed
<1>1. QueueOK'
  BY <1>0, TargetFacts DEF TypeOK, QueueOK, commitUnknownVerb, BeginCommit, Goto, SetStatus,
                           BeginCommitFrom, Verbs, queue
<1>2. StoresOK'
  BY <1>0 DEF TypeOK, StoresOK, commitUnknownVerb, BeginCommit, Goto, SetStatus,
              BeginCommitFrom, stores
<1>3. LedgerOK'
  BY <1>0 DEF TypeOK, LedgerOK, commitUnknownVerb, BeginCommit, Goto, SetStatus,
              BeginCommitFrom, ledger
<1>4. CallsOK'
  BY <1>0, TargetFacts DEF TypeOK, CallsOK, commitUnknownVerb, BeginCommit, Goto, SetStatus,
                           BeginCommitFrom, QueueOK, InFlight, Ended
<1>5. Named'
  BY <1>0 DEF TypeOK, QueueOK, CallsOK, Named, commitUnknownVerb, BeginCommit, Goto, SetStatus,
              BeginCommitFrom
<1> QED
  BY <1>1, <1>2, <1>3, <1>4, <1>5 DEF Typed, TypeOK

LEMMA Typed_createEntity ==
  ASSUME Typed, NEW k \in Calls, NEW c \in Commands, createEntity(k, c)
  PROVE  Typed'
<1>0. TypeOK /\ Named
  BY DEF Typed
<1>1. QueueOK'
  BY <1>0, TargetFacts DEF TypeOK, QueueOK, createEntity, callDirect, Goto, Verbs
<1>2. StoresOK'
  BY <1>0 DEF TypeOK, StoresOK, createEntity, callDirect, stores
<1>3. LedgerOK'
  BY <1>0 DEF TypeOK, LedgerOK, createEntity, callDirect, ledger
<1>4. CallsOK'
  BY <1>0, TargetFacts DEF TypeOK, CallsOK, createEntity, callDirect, Goto, InFlight
<1>5. Named'
  BY <1>0 DEF TypeOK, QueueOK, CallsOK, Named, createEntity, callDirect, Goto, Fresh
<1> QED
  BY <1>1, <1>2, <1>3, <1>4, <1>5 DEF Typed, TypeOK

LEMMA Typed_ingestArtifact ==
  ASSUME Typed, NEW k \in Calls, NEW c \in Commands, ingestArtifact(k, c)
  PROVE  Typed'
<1>0. TypeOK /\ Named
  BY DEF Typed
<1>1. QueueOK'
  BY <1>0, TargetFacts DEF TypeOK, QueueOK, ingestArtifact, callDirect, Goto, Verbs
<1>2. StoresOK'
  BY <1>0 DEF TypeOK, StoresOK, ingestArtifact, callDirect, stores
<1>3. LedgerOK'
  BY <1>0 DEF TypeOK, LedgerOK, ingestArtifact, callDirect, ledger
<1>4. CallsOK'
  BY <1>0, TargetFacts DEF TypeOK, CallsOK, ingestArtifact, callDirect, Goto, InFlight
<1>5. Named'
  BY <1>0 DEF TypeOK, QueueOK, CallsOK, Named, ingestArtifact, callDirect, Goto, Fresh
<1> QED
  BY <1>1, <1>2, <1>3, <1>4, <1>5 DEF Typed, TypeOK

LEMMA Typed_linkEvidence ==
  ASSUME Typed, NEW k \in Calls, NEW c \in Commands, linkEvidence(k, c)
  PROVE  Typed'
<1>0. TypeOK /\ Named
  BY DEF Typed
<1>1. QueueOK'
  BY <1>0, TargetFacts DEF TypeOK, QueueOK, linkEvidence, callDirect, Goto, Verbs
<1>2. StoresOK'
  BY <1>0 DEF TypeOK, StoresOK, linkEvidence, callDirect, stores
<1>3. LedgerOK'
  BY <1>0 DEF TypeOK, LedgerOK, linkEvidence, callDirect, ledger
<1>4. CallsOK'
  BY <1>0, TargetFacts DEF TypeOK, CallsOK, linkEvidence, callDirect, Goto, InFlight
<1>5. Named'
  BY <1>0 DEF TypeOK, QueueOK, CallsOK, Named, linkEvidence, callDirect, Goto, Fresh
<1> QED
  BY <1>1, <1>2, <1>3, <1>4, <1>5 DEF Typed, TypeOK

LEMMA Typed_rebuildIndex ==
  ASSUME Typed, NEW k \in Calls, NEW c \in Commands, rebuildIndex(k, c)
  PROVE  Typed'
<1>0. TypeOK /\ Named
  BY DEF Typed
<1>1. QueueOK'
  BY <1>0, TargetFacts DEF TypeOK, QueueOK, rebuildIndex, callDirect, Goto, Verbs
<1>2. StoresOK'
  BY <1>0 DEF TypeOK, StoresOK, rebuildIndex, callDirect, stores
<1>3. LedgerOK'
  BY <1>0 DEF TypeOK, LedgerOK, rebuildIndex, callDirect, ledger
<1>4. CallsOK'
  BY <1>0, TargetFacts DEF TypeOK, CallsOK, rebuildIndex, callDirect, Goto, InFlight
<1>5. Named'
  BY <1>0 DEF TypeOK, QueueOK, CallsOK, Named, rebuildIndex, callDirect, Goto, Fresh
<1> QED
  BY <1>1, <1>2, <1>3, <1>4, <1>5 DEF Typed, TypeOK

LEMMA Typed_CompensateBoth ==
  ASSUME Typed, NEW k \in Calls, NEW c \in Commands, NEW d \in Commands, CompensateBoth(k, c, d)
  PROVE  Typed'
<1>0. TypeOK /\ Named
  BY DEF Typed
<1>1. QueueOK'
  <2>1. PICK t \in TargetsOf("compensate") : target' = [target EXCEPT ![d] = t]
    BY DEF CompensateBoth, compensateMutation
  <2>2. t \in Targets
    BY <2>1, TargetFacts DEF Verbs
  <2>3. target' \in [Commands -> Targets \cup {None}]
    BY <1>0, <2>1, <2>2 DEF TypeOK, QueueOK
  <2> QED
    BY <1>0, <2>3 DEF TypeOK, QueueOK, CompensateBoth, compensateMutation, SetStatus, Verbs
<1>2. StoresOK'
  BY <1>0 DEF TypeOK, StoresOK, CompensateBoth, compensateMutation, stores
<1>3. LedgerOK'
  BY <1>0, AppendTyped, LedgerEventTyped, TargetFacts DEF TypeOK, LedgerOK, CompensateBoth,
                                                          compensateMutation, Goto, EventKinds,
                                                          ledger
<1>4. CallsOK'
  <2>1. event' \in [Calls -> Nat]
    BY <1>0 DEF TypeOK, CallsOK, LedgerOK, CompensateBoth, recordProvenance,
                recordProvenanceThrows, Goto
  <2>2. pc' \in [Calls -> {"idle"} \cup InFlight \cup Ended]
    BY <1>0 DEF TypeOK, CallsOK, CompensateBoth, Goto, InFlight
  <2> QED
    BY <1>0, <2>1, <2>2 DEF TypeOK, CallsOK, CompensateBoth, compensateMutation
<1>5. Named'
  BY <1>0 DEF TypeOK, QueueOK, CallsOK, Named, CompensateBoth, compensateMutation,
              recordProvenance, Goto, recordProvenanceThrows, Fresh
<1> QED
  BY <1>1, <1>2, <1>3, <1>4, <1>5 DEF Typed, TypeOK

LEMMA Typed_CompensateThrows ==
  ASSUME Typed, NEW k \in Calls, NEW c \in Commands, NEW d \in Commands, CompensateThrows(k, c, d)
  PROVE  Typed'
<1>0. TypeOK /\ Named
  BY DEF Typed
<1>1. QueueOK'
  <2>1. PICK t \in TargetsOf("compensate") : target' = [target EXCEPT ![d] = t]
    BY DEF CompensateThrows, compensateMutation
  <2>2. t \in Targets
    BY <2>1, TargetFacts DEF Verbs
  <2>3. target' \in [Commands -> Targets \cup {None}]
    BY <1>0, <2>1, <2>2 DEF TypeOK, QueueOK
  <2> QED
    BY <1>0, <2>3 DEF TypeOK, QueueOK, CompensateThrows, compensateMutation, SetStatus, Verbs
<1>2. StoresOK'
  BY <1>0 DEF TypeOK, StoresOK, CompensateThrows, compensateMutation, stores
<1>3. LedgerOK'
  BY <1>0 DEF TypeOK, LedgerOK, CompensateThrows, compensateMutation
<1>4. CallsOK'
  BY <1>0, TargetFacts DEF TypeOK, CallsOK, CompensateThrows, compensateMutation, SetStatus,
                           Goto, InFlight
<1>5. Named'
  BY <1>0 DEF TypeOK, QueueOK, CallsOK, Named, CompensateThrows, compensateMutation, SetStatus,
              Goto, Fresh
<1> QED
  BY <1>1, <1>2, <1>3, <1>4, <1>5 DEF Typed, TypeOK

LEMMA Typed_CrashInCompensate ==
  ASSUME Typed, NEW k \in Calls, NEW c \in Commands, NEW d \in Commands, CrashInCompensate(k, c, d)
  PROVE  Typed'
<1>0. TypeOK /\ Named
  BY DEF Typed
<1>1. QueueOK'
  <2>1. PICK t \in TargetsOf("compensate") : target' = [target EXCEPT ![d] = t]
    BY DEF CrashInCompensate, compensateMutation
  <2>2. t \in Targets
    BY <2>1, TargetFacts DEF Verbs
  <2>3. target' \in [Commands -> Targets \cup {None}]
    BY <1>0, <2>1, <2>2 DEF TypeOK, QueueOK
  <2> QED
    BY <1>0, <2>3 DEF TypeOK, QueueOK, CrashInCompensate, compensateMutation, SetStatus, Verbs
<1>2. StoresOK'
  BY <1>0 DEF TypeOK, StoresOK, CrashInCompensate, compensateMutation, stores
<1>3. LedgerOK'
  BY <1>0 DEF TypeOK, LedgerOK, CrashInCompensate, compensateMutation
<1>4. CallsOK'
  BY <1>0, TargetFacts DEF TypeOK, CallsOK, CrashInCompensate, compensateMutation, SetStatus,
                           QueueOK, InFlight, Ended
<1>5. Named'
  <2>1. PICK t \in TargetsOf("compensate") : target' = [target EXCEPT ![d] = t]
    BY DEF CrashInCompensate, compensateMutation
  <2>2. /\ verb' = [verb EXCEPT ![d] = "compensate"]
        /\ cmd'  = [cmd EXCEPT ![k] = d]
        /\ Fresh(d) /\ status[c] = "committed"
    BY DEF CrashInCompensate, compensateMutation
  <2>3. \A e \in Commands : e # d => (status'[e] # "none" <=> status[e] # "none")
    BY <1>0, <2>2 DEF CrashInCompensate, SetStatus, TypeOK, QueueOK
  <2>4. \A j \in Calls : pc'[j] # "idle" => j = k \/ pc[j] # "idle"
    BY DEF CrashInCompensate, InFlight
  <2>5. /\ \A e \in Commands : verb'[e] = IF e = d THEN "compensate" ELSE verb[e]
        /\ \A e \in Commands : target'[e] = IF e = d THEN t ELSE target[e]
        /\ \A j \in Calls : cmd'[j] = IF j = k THEN d ELSE cmd[j]
    BY <1>0, <2>1, <2>2 DEF TypeOK, QueueOK, CallsOK
  <2> QED
    BY <1>0, <2>1, <2>3, <2>4, <2>5 DEF Named
<1> QED
  BY <1>1, <1>2, <1>3, <1>4, <1>5 DEF Typed, TypeOK

LEMMA Typed_ReadParent ==
  ASSUME Typed, NEW k \in Calls, ReadParent(k)
  PROVE  Typed'
<1>0. TypeOK /\ Named
  BY DEF Typed
<1>1. QueueOK'
  BY <1>0 DEF TypeOK, QueueOK, ReadParent, queue
<1>2. StoresOK'
  BY <1>0 DEF TypeOK, StoresOK, ReadParent, stores
<1>3. LedgerOK'
  BY <1>0 DEF TypeOK, LedgerOK, ReadParent, ledger
<1>4. CallsOK'
  <2>1. DOMAIN events \subseteq Nat
    BY <1>0 DEF TypeOK, LedgerOK
  <2> DEFINE own == {i \in DOMAIN events : events[i].subject = target[cmd[k]].entity}
  <2>3. own = {} \/ LastOf(own) \in own
    BY <1>0, LastExists DEF TypeOK, LedgerOK, LastOf
  <2>2. parent' = [parent EXCEPT ![k] = IF own = {} THEN 0 ELSE LastOf(own)]
    BY DEF ReadParent
  <2>4. (IF own = {} THEN 0 ELSE LastOf(own)) \in Nat
    BY <2>1, <2>3
  <2>5. parent' \in [Calls -> Nat]
    BY <1>0, <2>2, <2>4 DEF TypeOK, CallsOK
  <2> QED
    BY <1>0, <2>5 DEF TypeOK, CallsOK, ReadParent, Goto, InFlight
<1>5. Named'
  BY <1>0 DEF TypeOK, Named, ReadParent, Goto, queue, stores, ledger
<1> QED
  BY <1>1, <1>2, <1>3, <1>4, <1>5 DEF Typed, TypeOK

LEMMA Typed_CreateInStore ==
  ASSUME Typed, NEW k \in Calls, CreateInStore(k)
  PROVE  Typed'
<1>0. TypeOK /\ Named
  BY DEF Typed
<1>1. QueueOK'
  BY <1>0 DEF TypeOK, QueueOK, CreateInStore, At, Land, Goto, queue
<1>2. StoresOK'
  BY <1>0 DEF TypeOK, StoresOK, CreateInStore
<1>3. LedgerOK'
  BY <1>0 DEF TypeOK, LedgerOK, CreateInStore, At, Land, Goto
<1>4. CallsOK'
  BY <1>0, TargetFacts, CallFacts DEF TypeOK, CallsOK, CreateInStore, At, Land, Goto, InFlight
<1>5. Named'
  BY <1>0 DEF TypeOK, Named, CreateInStore, At, Land, Goto, queue
<1> QED
  BY <1>1, <1>2, <1>3, <1>4, <1>5 DEF Typed, TypeOK

LEMMA Typed_UpdateInStore ==
  ASSUME Typed, NEW k \in Calls, UpdateInStore(k)
  PROVE  Typed'
<1>0. TypeOK /\ Named
  BY DEF Typed
<1>1. QueueOK'
  BY <1>0 DEF TypeOK, QueueOK, UpdateInStore, At, Land, Goto, queue
<1>2. StoresOK'
  BY <1>0, TargetFacts, CallFacts DEF TypeOK, StoresOK, UpdateInStore, At, Land, Goto
<1>3. LedgerOK'
  BY <1>0 DEF TypeOK, LedgerOK, UpdateInStore, At, Land, Goto
<1>4. CallsOK'
  <2>1. target[cmd[k]].entity \in Ids
    <3>1. pc[k] # "idle" /\ verb[cmd[k]] = "update_entity"
      BY DEF UpdateInStore, At
    <3> QED
      BY <3>1, TargetFacts, CallFacts
  <2>2. version[target[cmd[k]].entity] + 1 \in Nat
    BY <1>0, <2>1 DEF TypeOK, StoresOK
  <2> QED
    BY <1>0, <2>2 DEF TypeOK, CallsOK, UpdateInStore, At, Land, Goto, InFlight, Ended
<1>5. Named'
  BY <1>0 DEF TypeOK, Named, UpdateInStore, At, Land, Goto, queue
<1> QED
  BY <1>1, <1>2, <1>3, <1>4, <1>5 DEF Typed, TypeOK

LEMMA Typed_IngestInStore ==
  ASSUME Typed, NEW k \in Calls, IngestInStore(k)
  PROVE  Typed'
<1>0. TypeOK /\ Named
  BY DEF Typed
<1>1. QueueOK'
  BY <1>0 DEF TypeOK, QueueOK, IngestInStore, At, Land, Goto, queue
<1>2. StoresOK'
  BY <1>0 DEF TypeOK, StoresOK, IngestInStore, Ids
<1>3. LedgerOK'
  BY <1>0 DEF TypeOK, LedgerOK, IngestInStore, At, Land, Goto
<1>4. CallsOK'
  BY <1>0, TargetFacts, CallFacts DEF TypeOK, CallsOK, IngestInStore, At, Land, Goto, InFlight
<1>5. Named'
  BY <1>0 DEF TypeOK, Named, IngestInStore, At, Land, Goto, queue
<1> QED
  BY <1>1, <1>2, <1>3, <1>4, <1>5 DEF Typed, TypeOK

LEMMA Typed_LinkEvidence ==
  ASSUME Typed, NEW k \in Calls, LinkEvidence(k)
  PROVE  Typed'
<1>0. TypeOK /\ Named
  BY DEF Typed
<1>1. QueueOK'
  BY <1>0 DEF TypeOK, QueueOK, LinkEvidence, At, Land, Goto, queue
<1>2. StoresOK'
  BY <1>0 DEF TypeOK, StoresOK, LinkEvidence, stores
<1>3. LedgerOK'
  BY <1>0, AppendTyped, LedgerEventTyped, TargetFacts, CallFacts
     DEF TypeOK, LedgerOK, LinkEvidence, At, Land, Goto, EventKinds
<1>4. CallsOK'
  BY <1>0, TargetFacts, CallFacts DEF TypeOK, CallsOK, LinkEvidence, At, Land, Goto, InFlight
<1>5. Named'
  BY <1>0 DEF TypeOK, Named, LinkEvidence, At, Land, Goto, queue, stores
<1> QED
  BY <1>1, <1>2, <1>3, <1>4, <1>5 DEF Typed, TypeOK

LEMMA Typed_Reindex ==
  ASSUME Typed, NEW k \in Calls, Reindex(k)
  PROVE  Typed'
<1>0. TypeOK /\ Named
  BY DEF Typed
<1>1. QueueOK'
  BY <1>0 DEF TypeOK, QueueOK, Reindex, At, Land, Goto, queue
<1>2. StoresOK'
  BY <1>0 DEF TypeOK, StoresOK, Reindex, stores
<1>3. LedgerOK'
  BY <1>0 DEF TypeOK, LedgerOK, Reindex, At, Land, Goto
<1>4. CallsOK'
  BY <1>0, TargetFacts, CallFacts DEF TypeOK, CallsOK, Reindex, At, Land, Goto, InFlight
<1>5. Named'
  BY <1>0 DEF TypeOK, Named, Reindex, At, Land, Goto, queue, stores
<1> QED
  BY <1>1, <1>2, <1>3, <1>4, <1>5 DEF Typed, TypeOK

LEMMA Typed_MutateThrows ==
  ASSUME Typed, NEW k \in Calls, MutateThrows(k)
  PROVE  Typed'
<1>0. TypeOK /\ Named
  BY DEF Typed
<1>1. QueueOK'
  BY <1>0 DEF TypeOK, QueueOK, MutateThrows, queue
<1>2. StoresOK'
  BY <1>0 DEF TypeOK, StoresOK, MutateThrows, stores
<1>3. LedgerOK'
  BY <1>0 DEF TypeOK, LedgerOK, MutateThrows, ledger
<1>4. CallsOK'
  BY <1>0, TargetFacts, CallFacts DEF TypeOK, CallsOK, MutateThrows, Goto, QueueOK, InFlight,
                                      Ended, locals
<1>5. Named'
  BY <1>0 DEF TypeOK, Named, MutateThrows, Goto, queue, stores, ledger, locals
<1> QED
  BY <1>1, <1>2, <1>3, <1>4, <1>5 DEF Typed, TypeOK

LEMMA Typed_LinkThrows ==
  ASSUME Typed, NEW k \in Calls, LinkThrows(k)
  PROVE  Typed'
<1>0. TypeOK /\ Named
  BY DEF Typed
<1>1. QueueOK'
  BY <1>0 DEF TypeOK, QueueOK, LinkThrows, queue
<1>2. StoresOK'
  BY <1>0 DEF TypeOK, StoresOK, LinkThrows, stores
<1>3. LedgerOK'
  BY <1>0, AppendTyped, LedgerEventTyped, TargetFacts, CallFacts
     DEF TypeOK, LedgerOK, LinkThrows, At, Goto, EventKinds, ledger
<1>4. CallsOK'
  BY <1>0, TargetFacts, CallFacts DEF TypeOK, CallsOK, LinkThrows, At, recordProvenanceThrows,
                                      Goto, QueueOK, InFlight, Ended, locals
<1>5. Named'
  BY <1>0 DEF TypeOK, Named, LinkThrows, At, Goto, queue, stores, ledger, locals
<1> QED
  BY <1>1, <1>2, <1>3, <1>4, <1>5 DEF Typed, TypeOK

LEMMA Typed_CreateThrowsLate ==
  ASSUME Typed, NEW k \in Calls, CreateThrowsLate(k)
  PROVE  Typed'
<1>0. TypeOK /\ Named
  BY DEF Typed
<1>1. QueueOK'
  BY <1>0 DEF TypeOK, QueueOK, CreateThrowsLate, At, Land, Goto, queue
<1>2. StoresOK'
  BY <1>0 DEF TypeOK, StoresOK, CreateThrowsLate
<1>3. LedgerOK'
  BY <1>0 DEF TypeOK, LedgerOK, CreateThrowsLate, At, Land, Goto
<1>4. CallsOK'
  BY <1>0, TargetFacts, CallFacts DEF TypeOK, CallsOK, CreateThrowsLate, At, Land, Goto,
                                      QueueOK, InFlight, Ended
<1>5. Named'
  BY <1>0 DEF TypeOK, Named, CreateThrowsLate, At, Land, Goto, queue
<1> QED
  BY <1>1, <1>2, <1>3, <1>4, <1>5 DEF Typed, TypeOK

LEMMA Typed_UpdateThrowsLate ==
  ASSUME Typed, NEW k \in Calls, UpdateThrowsLate(k)
  PROVE  Typed'
<1>0. TypeOK /\ Named
  BY DEF Typed
<1>1. QueueOK'
  BY <1>0 DEF TypeOK, QueueOK, UpdateThrowsLate, At, Land, Goto, queue
<1>2. StoresOK'
  BY <1>0, TargetFacts, CallFacts DEF TypeOK, StoresOK, UpdateThrowsLate, At, Land, Goto
<1>3. LedgerOK'
  BY <1>0 DEF TypeOK, LedgerOK, UpdateThrowsLate, At, Land, Goto
<1>4. CallsOK'
  BY <1>0, KernelAssumption, TargetFacts, CallFacts DEF TypeOK, CallsOK, UpdateThrowsLate, At,
                                                        Land, Goto, QueueOK, StoresOK, LedgerOK,
                                                        InFlight, Ended, CanFail
<1>5. Named'
  BY <1>0 DEF TypeOK, Named, UpdateThrowsLate, At, Land, Goto, queue
<1> QED
  BY <1>1, <1>2, <1>3, <1>4, <1>5 DEF Typed, TypeOK

LEMMA Typed_IngestThrowsLate ==
  ASSUME Typed, NEW k \in Calls, IngestThrowsLate(k)
  PROVE  Typed'
<1>0. TypeOK /\ Named
  BY DEF Typed
<1>1. QueueOK'
  BY <1>0 DEF TypeOK, QueueOK, IngestThrowsLate, At, Land, Goto, queue
<1>2. StoresOK'
  BY <1>0 DEF TypeOK, StoresOK, IngestThrowsLate, Ids
<1>3. LedgerOK'
  BY <1>0 DEF TypeOK, LedgerOK, IngestThrowsLate, At, Land, Goto
<1>4. CallsOK'
  BY <1>0, TargetFacts, CallFacts DEF TypeOK, CallsOK, IngestThrowsLate, At, Land, Goto,
                                      QueueOK, InFlight, Ended
<1>5. Named'
  BY <1>0 DEF TypeOK, Named, IngestThrowsLate, At, Land, Goto, queue
<1> QED
  BY <1>1, <1>2, <1>3, <1>4, <1>5 DEF Typed, TypeOK

LEMMA Typed_IndexRecord ==
  ASSUME Typed, NEW k \in Calls, IndexRecord(k)
  PROVE  Typed'
<1>0. TypeOK /\ Named
  BY DEF Typed
<1>1. QueueOK'
  BY <1>0 DEF TypeOK, QueueOK, IndexRecord, queue
<1>2. StoresOK'
  BY <1>0 DEF TypeOK, StoresOK, IndexRecord, stores
<1>3. LedgerOK'
  BY <1>0 DEF TypeOK, LedgerOK, IndexRecord, ledger
<1>4. CallsOK'
  <2>1. pc' \in [Calls -> {"idle"} \cup InFlight \cup Ended]
    BY <1>0 DEF TypeOK, CallsOK, IndexRecord, Goto, InFlight, Ended
  <2> QED
    BY <1>0, <2>1 DEF TypeOK, CallsOK, IndexRecord, locals
<1>5. Named'
  BY <1>0, KernelAssumption DEF TypeOK, QueueOK, CallsOK, Named, IndexRecord, Goto, queue,
                                stores, ledger, locals
<1> QED
  BY <1>1, <1>2, <1>3, <1>4, <1>5 DEF Typed, TypeOK

LEMMA Typed_RecordEvent ==
  ASSUME Typed, NEW k \in Calls, RecordEvent(k)
  PROVE  Typed'
<1>0. TypeOK /\ Named
  BY DEF Typed
<1>1. QueueOK'
  BY <1>0, TargetFacts, CallFacts DEF TypeOK, QueueOK, RecordEvent, Unstage, Goto, Verbs, queue
<1>2. StoresOK'
  BY <1>0 DEF TypeOK, StoresOK, RecordEvent, stores
<1>3. LedgerOK'
  BY <1>0, AppendTyped, LedgerEventTyped, EventOfTyped, TargetFacts, CallFacts
     DEF TypeOK, LedgerOK, RecordEvent, Unstage, Goto, QueueOK, CallsOK, EventKinds
<1>4. CallsOK'
  BY <1>0, TargetFacts, CallFacts DEF TypeOK, CallsOK, RecordEvent, Unstage, Goto, InFlight
<1>5. Named'
  BY <1>0 DEF TypeOK, Named, RecordEvent, Unstage, Goto, queue, stores
<1> QED
  BY <1>1, <1>2, <1>3, <1>4, <1>5 DEF Typed, TypeOK

LEMMA Typed_RecordThrows ==
  ASSUME Typed, NEW k \in Calls, RecordThrows(k)
  PROVE  Typed'
<1>0. TypeOK /\ Named
  BY DEF Typed
<1>1. QueueOK'
  BY <1>0, TargetFacts, CallFacts DEF TypeOK, QueueOK, RecordThrows, Unstage, Goto, Verbs, queue
<1>2. StoresOK'
  BY <1>0 DEF TypeOK, StoresOK, RecordThrows, stores
<1>3. LedgerOK'
  BY <1>0, AppendTyped, LedgerEventTyped, EventOfTyped, TargetFacts, CallFacts
     DEF TypeOK, LedgerOK, RecordThrows, Unstage, Goto, QueueOK, CallsOK, EventKinds, ledger
<1>4. CallsOK'
  BY <1>0, TargetFacts, CallFacts DEF TypeOK, CallsOK, RecordThrows, Unstage, Goto, InFlight,
                                      locals
<1>5. Named'
  BY <1>0 DEF TypeOK, Named, RecordThrows, Unstage, Goto, queue, stores, ledger, locals
<1> QED
  BY <1>1, <1>2, <1>3, <1>4, <1>5 DEF Typed, TypeOK

LEMMA Typed_SaveCommitted ==
  ASSUME Typed, NEW k \in Calls, SaveCommitted(k)
  PROVE  Typed'
<1>0. TypeOK /\ Named
  BY DEF Typed
<1>1. QueueOK'
  BY <1>0, TargetFacts, CallFacts DEF TypeOK, QueueOK, SaveCommitted, SetStatus, Goto, Verbs
<1>2. StoresOK'
  BY <1>0 DEF TypeOK, StoresOK, SaveCommitted, stores
<1>3. LedgerOK'
  BY <1>0, TargetFacts, CallFacts DEF TypeOK, LedgerOK, SaveCommitted, SetStatus, Goto, QueueOK,
                                      CallsOK, Receipts, ReceiptOf, ledger
<1>4. CallsOK'
  <2>1. pc' \in [Calls -> {"idle"} \cup InFlight \cup Ended]
    BY <1>0 DEF TypeOK, CallsOK, SaveCommitted, Goto, InFlight, Ended
  <2> QED
    BY <1>0, <2>1 DEF TypeOK, CallsOK, SaveCommitted, locals
<1>5. Named'
  BY <1>0 DEF TypeOK, QueueOK, CallsOK, Named, SaveCommitted, SetStatus, Goto, locals
<1> QED
  BY <1>1, <1>2, <1>3, <1>4, <1>5 DEF Typed, TypeOK

LEMMA Typed_SaveThrows ==
  ASSUME Typed, NEW k \in Calls, SaveThrows(k)
  PROVE  Typed'
<1>0. TypeOK /\ Named
  BY DEF Typed
<1>1. QueueOK'
  BY <1>0 DEF TypeOK, QueueOK, SaveThrows, SetStatus
<1>2. StoresOK'
  BY <1>0 DEF TypeOK, StoresOK, SaveThrows, stores
<1>3. LedgerOK'
  BY <1>0 DEF TypeOK, LedgerOK, SaveThrows, ledger
<1>4. CallsOK'
  BY <1>0, TargetFacts, CallFacts DEF TypeOK, CallsOK, SaveThrows, Goto, InFlight, locals
<1>5. Named'
  BY <1>0, CallFacts DEF TypeOK, QueueOK, CallsOK, Named, SaveThrows, SetStatus, Goto, locals
<1> QED
  BY <1>1, <1>2, <1>3, <1>4, <1>5 DEF Typed, TypeOK

LEMMA Typed_EmitReceipt ==
  ASSUME Typed, NEW k \in Calls, EmitReceipt(k)
  PROVE  Typed'
<1>0. TypeOK /\ Named
  BY DEF Typed
<1>1. QueueOK'
  BY <1>0 DEF TypeOK, QueueOK, EmitReceipt, queue
<1>2. StoresOK'
  BY <1>0 DEF TypeOK, StoresOK, EmitReceipt, stores
<1>3. LedgerOK'
  BY <1>0, TargetFacts, CallFacts DEF TypeOK, LedgerOK, EmitReceipt, Goto, QueueOK, CallsOK,
                                      Receipts, ReceiptOf, ledger
<1>4. CallsOK'
  <2>1. pc' \in [Calls -> {"idle"} \cup InFlight \cup Ended]
    BY <1>0 DEF TypeOK, CallsOK, EmitReceipt, Goto, InFlight, Ended
  <2> QED
    BY <1>0, <2>1 DEF TypeOK, CallsOK, EmitReceipt, locals
<1>5. Named'
  BY <1>0, KernelAssumption DEF TypeOK, QueueOK, CallsOK, Named, EmitReceipt, Goto, queue,
                                stores, ledger, locals
<1> QED
  BY <1>1, <1>2, <1>3, <1>4, <1>5 DEF Typed, TypeOK

LEMMA Typed_recordOrphanMutation ==
  ASSUME Typed, NEW k \in Calls, recordOrphanMutation(k)
  PROVE  Typed'
<1>0. TypeOK /\ Named
  BY DEF Typed
<1>1. QueueOK'
  BY <1>0 DEF TypeOK, QueueOK, recordOrphanMutation, queue
<1>2. StoresOK'
  BY <1>0 DEF TypeOK, StoresOK, recordOrphanMutation, stores
<1>3. LedgerOK'
  BY <1>0, AppendTyped, LedgerEventTyped, EventOfTyped, TargetFacts, CallFacts
     DEF TypeOK, LedgerOK, recordOrphanMutation, Goto, QueueOK, CallsOK, EventKinds, ledger
<1>4. CallsOK'
  BY <1>0, TargetFacts, CallFacts DEF TypeOK, CallsOK, recordOrphanMutation, recordProvenance,
                                      recordProvenanceThrows, Goto, QueueOK, InFlight, Ended,
                                      locals
<1>5. Named'
  BY <1>0 DEF TypeOK, Named, recordOrphanMutation, Goto, queue, stores, ledger, locals
<1> QED
  BY <1>1, <1>2, <1>3, <1>4, <1>5 DEF Typed, TypeOK

LEMMA Typed_Crash ==
  ASSUME Typed, Crash
  PROVE  Typed'
<1>0. TypeOK /\ Named
  BY DEF Typed
<1>1. \A k \in Calls : Unstage(k) => pending' \subseteq pending \/ pending' = pending
  BY DEF Unstage
<1>2. QueueOK'
  BY <1>0, <1>1, CallFacts DEF TypeOK, QueueOK, Crash, SetStatus
<1>3. StoresOK' /\ LedgerOK'
  BY <1>0 DEF TypeOK, StoresOK, LedgerOK, Crash, stores, ledger
<1>4. CallsOK'
  BY <1>0 DEF TypeOK, CallsOK, Crash, LoseCalls, Ended, locals
<1>5. Named'
  <2>1. UNCHANGED <<verb, target, cmd>>
    BY DEF Crash, locals
  <2>2. \A k \in Calls : pc'[k] # "idle" => pc[k] # "idle"
    BY DEF Crash, LoseCalls, InFlight
  <2>3. \A c \in Commands : status'[c] # "none" => status[c] # "none" \/ \E k \in Calls : cmd[k] = c
    BY <1>0 DEF Crash, SetStatus, TypeOK, QueueOK
  <2> QED
    BY <1>0, <2>1, <2>2, <2>3 DEF Named
<1> QED
  BY <1>2, <1>3, <1>4, <1>5 DEF Typed, TypeOK

LEMMA TypedStep ==
  ASSUME Typed, [Next]_vars
  PROVE  Typed'
<1>1. ASSUME NEW c \in Commands, Step(c) PROVE Typed'
  BY <1>1, Typed_proposeMutation, Typed_validateMutation, Typed_approveMutation,
     Typed_rejectMutation DEF Step
<1>2. ASSUME NEW k \in Calls, Continue(k) PROVE Typed'
  BY <1>2, Typed_ReadParent, Typed_CreateInStore, Typed_UpdateInStore, Typed_IngestInStore,
     Typed_LinkEvidence, Typed_Reindex, Typed_MutateThrows, Typed_LinkThrows,
     Typed_CreateThrowsLate, Typed_UpdateThrowsLate, Typed_IngestThrowsLate,
     Typed_IndexRecord, Typed_RecordEvent, Typed_RecordThrows, Typed_SaveCommitted,
     Typed_SaveThrows, Typed_EmitReceipt, Typed_recordOrphanMutation DEF Continue
<1>3. ASSUME NEW k \in Calls, NEW c \in Commands, Begin(k, c) PROVE Typed'
  BY <1>3, Typed_commitMutation, Typed_commitUpdate, Typed_commitIngest,
     Typed_commitUnknownVerb, Typed_createEntity, Typed_ingestArtifact, Typed_linkEvidence,
     Typed_rebuildIndex, Typed_CompensateBoth, Typed_CompensateThrows,
     Typed_CrashInCompensate DEF Begin
<1>4. CASE UNCHANGED vars
  BY <1>4 DEF Typed, TypeOK, QueueOK, StoresOK, LedgerOK, CallsOK, Named,
              vars, queue, stores, ledger, locals
<1> QED
  BY <1>1, <1>2, <1>3, <1>4, Typed_Crash DEF Next

(* The state of every run is well typed, whatever the numbers of commands,  *)
(* calls, contents and entities, and whatever fails, crashes or overlaps.   *)
THEOREM TypeCorrect == Spec => []TypeOK
<1>1. Typed => TypeOK
  BY DEF Typed
<1> QED
  BY <1>1, TypedInit, TypedStep, PTL DEF Spec

---------------------------------------------------------------------------
(* What a step does to the ledger: it appends at most one event.            *)
LEMMA EventsStep ==
  ASSUME Typed, [Next]_vars
  PROVE  events' = events \/ \E e \in Events : events' = Append(events, e)
<1>0. events' \in Seq(Events)
  BY TypedStep DEF Typed, TypeOK, LedgerOK
<1>1. ASSUME NEW c \in Commands, Step(c) PROVE events' = events \/ \E e : events' = Append(events, e)
  BY <1>1 DEF Step, proposeMutation, validateMutation, approveMutation, rejectMutation,
              recordProvenance, recordProvenanceThrows, ledger
<1>2. ASSUME NEW k \in Calls, Continue(k) PROVE events' = events \/ \E e : events' = Append(events, e)
  BY <1>2 DEF Continue, ReadParent, CreateInStore, UpdateInStore, IngestInStore, LinkEvidence,
              Reindex, MutateThrows, LinkThrows, CreateThrowsLate, UpdateThrowsLate,
              IngestThrowsLate, IndexRecord, RecordEvent, RecordThrows, SaveCommitted,
              SaveThrows, EmitReceipt, recordOrphanMutation,
              recordProvenance, recordProvenanceThrows, ledger
<1>3. ASSUME NEW k \in Calls, NEW c \in Commands, Begin(k, c) PROVE events' = events \/ \E e : events' = Append(events, e)
  BY <1>3 DEF Begin, commitMutation, commitUpdate, commitIngest, commitUnknownVerb, BeginCommit,
              BeginCommitFrom, createEntity, ingestArtifact, linkEvidence, rebuildIndex,
              callDirect, CompensateBoth, CompensateThrows, CrashInCompensate, recordProvenance,
              recordProvenanceThrows, ledger
<1>4. CASE UNCHANGED vars \/ Crash
  BY <1>4 DEF vars, ledger, Crash
<1>5. events' = events \/ \E e : events' = Append(events, e)
  BY <1>1, <1>2, <1>3, <1>4 DEF Next
<1> QED
  BY <1>0, <1>5 DEF Typed, TypeOK

(* No step takes an executed command back.                                  *)
LEMMA ExecutedStep ==
  ASSUME Typed, [Next]_vars, NEW c \in Commands
  PROVE  status[c] \in Executed => status'[c] \in Executed
<1> DEFINE Claim == status[c] \in Executed => status'[c] \in Executed
<1>0. TypeOK /\ Named
  BY DEF Typed
<1>1. ASSUME NEW d \in Commands, Step(d) PROVE Claim
  <2>1. CASE status' = status
    BY <2>1
  <2>2. status[d] \notin Executed /\ (status' = status \/ \E s : SetStatus(d, s))
    BY <1>1 DEF Step, proposeMutation, validateMutation, approveMutation, rejectMutation,
                Fresh, Executed, queue
  <2> QED
    BY <1>0, <2>1, <2>2 DEF SetStatus, TypeOK, QueueOK
<1>2. ASSUME NEW j \in Calls, Continue(j) PROVE Claim
  BY <1>0, <1>2 DEF Continue, ReadParent, CreateInStore, UpdateInStore, IngestInStore,
                    LinkEvidence, Reindex,
              MutateThrows, LinkThrows, CreateThrowsLate, UpdateThrowsLate, IngestThrowsLate,
              IndexRecord, RecordEvent, RecordThrows, SaveCommitted, SaveThrows, EmitReceipt,
              recordOrphanMutation,
              At, Land, SetStatus, Executed, queue, TypeOK, QueueOK, CallsOK
<1>3. ASSUME NEW j \in Calls, NEW d \in Commands, Begin(j, d) PROVE Claim
  BY <1>0, <1>3 DEF Begin, commitMutation, commitUpdate, commitIngest, commitUnknownVerb,
              BeginCommit, BeginCommitFrom, createEntity, ingestArtifact, linkEvidence,
              rebuildIndex, callDirect, CompensateBoth, CompensateThrows, CrashInCompensate,
              compensateMutation,
              SetStatus, Executed, Fresh, queue, TypeOK, QueueOK, CallsOK
<1>4. CASE UNCHANGED vars \/ Crash
  BY <1>0, <1>4 DEF vars, queue, Crash, SetStatus, Executed, TypeOK, QueueOK, CallsOK
<1> QED
  BY <1>1, <1>2, <1>3, <1>4 DEF Next

(* A command that exists keeps its verb.                                    *)
LEMMA VerbStep ==
  ASSUME Typed, [Next]_vars, NEW c \in Commands, status[c] # "none" \/ \E k \in Calls : cmd[k] = c
  PROVE  verb'[c] = verb[c]
<1> DEFINE Claim == verb'[c] = verb[c]
<1>0. TypeOK /\ Named
  BY DEF Typed
<1>1. ASSUME NEW d \in Commands, Step(d) PROVE Claim
  BY <1>0, <1>1 DEF Step, proposeMutation, validateMutation, approveMutation, rejectMutation,
              Fresh, queue, TypeOK, QueueOK, CallsOK
<1>2. ASSUME NEW j \in Calls, Continue(j) PROVE Claim
  BY <1>0, <1>2 DEF Continue, ReadParent, CreateInStore, UpdateInStore, IngestInStore,
                    LinkEvidence, Reindex,
              MutateThrows, LinkThrows, CreateThrowsLate, UpdateThrowsLate, IngestThrowsLate,
              IndexRecord, RecordEvent, RecordThrows, SaveCommitted, SaveThrows, EmitReceipt,
              recordOrphanMutation,
              At, Land, queue, TypeOK, QueueOK, CallsOK
<1>3. ASSUME NEW j \in Calls, NEW d \in Commands, Begin(j, d) PROVE Claim
  BY <1>0, <1>3 DEF Begin, commitMutation, commitUpdate, commitIngest, commitUnknownVerb,
              BeginCommit, BeginCommitFrom, createEntity, ingestArtifact, linkEvidence,
              rebuildIndex, callDirect, CompensateBoth, CompensateThrows, CrashInCompensate,
              compensateMutation,
              Fresh, queue, TypeOK, QueueOK, CallsOK
<1>4. CASE UNCHANGED vars \/ Crash
  BY <1>0, <1>4 DEF vars, queue, Crash, TypeOK
<1> QED
  BY <1>1, <1>2, <1>3, <1>4 DEF Next

(* Who executes a command: a save after its event, or a compensation.       *)
LEMMA ExecuteStep ==
  ASSUME Typed, [Next]_vars, NEW c \in Commands, status'[c] \in Executed
  PROVE  status[c] \in Executed \/ verb'[c] = "compensate" \/ \E k \in Calls : pc[k] = "save" /\ cmd[k] = c
<1> DEFINE Claim == status[c] \in Executed \/ verb'[c] = "compensate" \/ \E k \in Calls : pc[k] = "save" /\ cmd[k] = c
<1>0. TypeOK /\ Named
  BY DEF Typed
<1>1. ASSUME NEW d \in Commands, Step(d) PROVE Claim
  BY <1>0, <1>1 DEF Step, proposeMutation, validateMutation, approveMutation, rejectMutation,
              SetStatus, Executed, queue, TypeOK, QueueOK, CallsOK
<1>2. ASSUME NEW j \in Calls, Continue(j) PROVE Claim
  BY <1>0, <1>2 DEF Continue, ReadParent, CreateInStore, UpdateInStore, IngestInStore,
                    LinkEvidence, Reindex,
              MutateThrows, LinkThrows, CreateThrowsLate, UpdateThrowsLate, IngestThrowsLate,
              IndexRecord, RecordEvent, RecordThrows, SaveCommitted, SaveThrows, EmitReceipt,
              recordOrphanMutation,
              At, Land, SetStatus, Executed, queue, TypeOK, QueueOK, CallsOK
<1>3. ASSUME NEW j \in Calls, NEW d \in Commands, Begin(j, d) PROVE Claim
  <2>1. CASE \E b \in Commands : CompensateBoth(j, d, b) \/ CompensateThrows(j, d, b) \/ CrashInCompensate(j, d, b)
    <3>0. PICK b \in Commands : CompensateBoth(j, d, b) \/ CompensateThrows(j, d, b) \/ CrashInCompensate(j, d, b)
      BY <2>1
    <3>1. compensateMutation(j, d, b)
      BY <3>0 DEF CompensateBoth, CompensateThrows, CrashInCompensate
    <3>2. verb'[b] = "compensate" /\ status[d] \in Executed
      BY <1>0, <3>1 DEF compensateMutation, Executed, TypeOK, QueueOK
    <3>3. \A e \in Commands : e # d /\ e # b => status'[e] = status[e]
      BY <1>0, <3>0 DEF CompensateBoth, CompensateThrows, CrashInCompensate, SetStatus, TypeOK,
                        QueueOK
    <3> QED
      BY <3>2, <3>3
  <2>2. CASE ~ \E b \in Commands : CompensateBoth(j, d, b) \/ CompensateThrows(j, d, b) \/ CrashInCompensate(j, d, b)
    BY <1>0, <1>3, <2>2 DEF Begin, commitMutation, commitUpdate, commitIngest,
                commitUnknownVerb, BeginCommit, BeginCommitFrom, createEntity, ingestArtifact,
                linkEvidence, rebuildIndex, callDirect, SetStatus, Executed, TypeOK, QueueOK
  <2> QED
    BY <2>1, <2>2
<1>4. CASE UNCHANGED vars \/ Crash
  BY <1>0, <1>4 DEF vars, queue, Crash, SetStatus, Executed, TypeOK, QueueOK, CallsOK
<1> QED
  BY <1>1, <1>2, <1>3, <1>4 DEF Next

(* How a call comes to hold the position of its event.                      *)
LEMMA RecordedStep ==
  ASSUME Typed, [Next]_vars, NEW k \in Calls, pc'[k] \in {"save", "receipt"}
  PROVE  (pc'[k] = pc[k] /\ event'[k] = event[k] /\ cmd'[k] = cmd[k]) \/ RecordEvent(k) \/ \E a, b \in Commands : CompensateBoth(k, a, b)
<1> DEFINE Claim == (pc'[k] = pc[k] /\ event'[k] = event[k] /\ cmd'[k] = cmd[k]) \/ RecordEvent(k) \/ \E a, b \in Commands : CompensateBoth(k, a, b)
<1>0. TypeOK /\ Named
  BY DEF Typed
<1>1. ASSUME NEW d \in Commands, Step(d) PROVE Claim
  BY <1>0, <1>1 DEF Step, proposeMutation, validateMutation, approveMutation, rejectMutation,
              locals, TypeOK, QueueOK, CallsOK
<1>2. ASSUME NEW j \in Calls, Continue(j) PROVE Claim
  BY <1>0, <1>2 DEF Continue, ReadParent, CreateInStore, UpdateInStore, IngestInStore,
                    LinkEvidence, Reindex,
              MutateThrows, LinkThrows, CreateThrowsLate, UpdateThrowsLate, IngestThrowsLate,
              IndexRecord, RecordEvent, RecordThrows, SaveCommitted, SaveThrows, EmitReceipt,
              recordOrphanMutation,
              At, Land, Goto, locals, TypeOK, QueueOK, CallsOK
<1>3. ASSUME NEW j \in Calls, NEW d \in Commands, Begin(j, d) PROVE Claim
  <2>1. CASE \E b \in Commands : CompensateBoth(j, d, b) \/ CompensateThrows(j, d, b) \/ CrashInCompensate(j, d, b)
    <3>1. PICK b \in Commands : CompensateBoth(j, d, b) \/ CompensateThrows(j, d, b) \/ CrashInCompensate(j, d, b)
      BY <2>1
    <3>2. CASE k = j
      BY <1>0, <3>1, <3>2 DEF CompensateThrows, CrashInCompensate, compensateMutation, Goto,
                              InFlight, TypeOK, CallsOK
    <3>3. CASE k # j
      BY <1>0, <3>1, <3>3 DEF CompensateBoth, CompensateThrows, CrashInCompensate,
                              compensateMutation, Goto, InFlight, TypeOK, CallsOK
    <3> QED
      BY <3>2, <3>3
  <2>2. CASE ~ \E b \in Commands : CompensateBoth(j, d, b) \/ CompensateThrows(j, d, b) \/ CrashInCompensate(j, d, b)
    BY <1>0, <1>3, <2>2 DEF Begin, commitMutation, commitUpdate, commitIngest,
                commitUnknownVerb, BeginCommit, BeginCommitFrom, createEntity, ingestArtifact,
                linkEvidence, rebuildIndex, callDirect, Goto, TypeOK, CallsOK
  <2> QED
    BY <2>1, <2>2
<1>4. CASE UNCHANGED vars \/ Crash
  BY <1>0, <1>4 DEF vars, locals, Crash, LoseCalls, InFlight, TypeOK
<1> QED
  BY <1>1, <1>2, <1>3, <1>4 DEF Next

(* Who mints a receipt.                                                     *)
LEMMA ReceiptStep ==
  ASSUME Typed, [Next]_vars, NEW r \in receipts', r \notin receipts
  PROVE  \E k \in Calls : r = ReceiptOf(k) /\ UNCHANGED events /\ (SaveCommitted(k) \/ EmitReceipt(k))
<1> DEFINE Claim == \E k \in Calls : r = ReceiptOf(k) /\ UNCHANGED events /\ (SaveCommitted(k) \/ EmitReceipt(k))
<1>0. TypeOK /\ Named
  BY DEF Typed
<1>1. ASSUME NEW d \in Commands, Step(d) PROVE Claim
  BY <1>0, <1>1 DEF Step, proposeMutation, validateMutation, approveMutation, rejectMutation,
              ledger
<1>2. ASSUME NEW j \in Calls, Continue(j) PROVE Claim
  BY <1>0, <1>2 DEF Continue, ReadParent, CreateInStore, UpdateInStore, IngestInStore,
                    LinkEvidence, Reindex,
              MutateThrows, LinkThrows, CreateThrowsLate, UpdateThrowsLate, IngestThrowsLate,
              IndexRecord, RecordEvent, RecordThrows, SaveCommitted, SaveThrows, EmitReceipt,
              recordOrphanMutation,
              Land, ledger
<1>3. ASSUME NEW j \in Calls, NEW d \in Commands, Begin(j, d) PROVE Claim
  BY <1>0, <1>3 DEF Begin, commitMutation, commitUpdate, commitIngest, commitUnknownVerb,
              BeginCommit, BeginCommitFrom, createEntity, ingestArtifact, linkEvidence,
              rebuildIndex, callDirect, CompensateBoth, CompensateThrows, CrashInCompensate,
              compensateMutation,
              ledger
<1>4. CASE UNCHANGED vars \/ Crash
  BY <1>0, <1>4 DEF vars, ledger, Crash
<1> QED
  BY <1>1, <1>2, <1>3, <1>4 DEF Next

---------------------------------------------------------------------------
(***************************************************************************)
(* The inductive invariant.  CommittedHasEvent alone is not inductive: a    *)
(* save executes a command and relies on the event that an earlier step of  *)
(* the same call appended, so the invariant must say what a call that is    *)
(* about to save or to mint its receipt has recorded.                       *)
(***************************************************************************)
Recorded ==
  \A k \in Calls : pc[k] \in {"save", "receipt"} =>
    /\ event[k] \in DOMAIN events
    /\ events[event[k]].command = cmd[k]
    /\ pc[k] = "save" => events[event[k]].kind \in RecordKinds
    /\ pc[k] = "receipt" => /\ events[event[k]].kind = "command_compensated"
                            /\ status[cmd[k]] \in Executed

KernelInv == Typed /\ Recorded /\ CommittedHasEvent /\ ReceiptProvesExecution

(* The ledger is append-only: a position keeps its event.                   *)
LEMMA EventsKept ==
  ASSUME Typed, [Next]_vars, NEW i \in DOMAIN events
  PROVE  i \in DOMAIN events' /\ events'[i] = events[i]
<1>1. events \in Seq(Events)
  BY DEF Typed, TypeOK, LedgerOK
<1>2. CASE events' = events
  BY <1>2
<1>3. ASSUME NEW e \in Events, events' = Append(events, e)
      PROVE  i \in DOMAIN events' /\ events'[i] = events[i]
  BY <1>1, <1>3
<1> QED
  BY <1>2, <1>3, EventsStep

(* The position a call notes is that of the event it appends.               *)
LEMMA AppendedLast ==
  ASSUME events \in Seq(Events), NEW e \in Events, events' = Append(events, e)
  PROVE  Len(events) + 1 \in DOMAIN events' /\ events'[Len(events) + 1] = e
  OBVIOUS

LEMMA RecordedKept ==
  ASSUME KernelInv, [Next]_vars
  PROVE  Recorded'
<1> SUFFICES ASSUME NEW k \in Calls, pc'[k] \in {"save", "receipt"}
             PROVE  /\ event'[k] \in DOMAIN events'
                    /\ events'[event'[k]].command = cmd'[k]
                    /\ pc'[k] = "save" => events'[event'[k]].kind \in RecordKinds
                    /\ pc'[k] = "receipt" => /\ events'[event'[k]].kind = "command_compensated"
                                             /\ status'[cmd'[k]] \in Executed
  BY DEF Recorded
<1>0. Typed /\ Recorded /\ events \in Seq(Events)
  BY DEF KernelInv, Typed, TypeOK, LedgerOK
<1>1. CASE pc'[k] = pc[k] /\ event'[k] = event[k] /\ cmd'[k] = cmd[k]
  <2>1. cmd[k] \in Commands
    BY <1>0, <1>1, CallFacts
  <2> QED
    BY <1>0, <1>1, <2>1, EventsKept, ExecutedStep DEF Recorded
<1>2. CASE RecordEvent(k)
  <2>1. EventOf(k) \in Events
    BY <1>0, <1>2, EventOfTyped DEF RecordEvent
  <2>2. event'[k] \in DOMAIN events' /\ events'[event'[k]] = EventOf(k)
    BY <1>0, <1>2, <2>1, AppendedLast DEF RecordEvent, recordProvenance, Typed, TypeOK, CallsOK
  <2>3. pc'[k] = "save" /\ cmd'[k] = cmd[k]
    BY <1>0, <1>2 DEF RecordEvent, Goto, Typed, TypeOK
  <2>4. EventOf(k).command = cmd[k] /\ EventOf(k).kind \in RecordKinds
    BY DEF EventOf, KindOf, RecordKinds
  <2> QED
    BY <2>2, <2>3, <2>4
<1>3. ASSUME NEW c \in Commands, NEW d \in Commands, CompensateBoth(k, c, d)
      PROVE  /\ event'[k] \in DOMAIN events'
             /\ events'[event'[k]].command = cmd'[k]
             /\ pc'[k] = "receipt"
             /\ events'[event'[k]].kind = "command_compensated"
             /\ status'[cmd'[k]] \in Executed
  <2> DEFINE e == LedgerEvent("command_compensated", d, k, None)
  <2>1. e \in Events
    BY LedgerEventTyped DEF EventKinds
  <2>2. pc'[k] = "receipt" /\ events' = Append(events, e) /\ event'[k] = Len(events) + 1
    BY <1>0, <1>3 DEF CompensateBoth, Goto, recordProvenance, Typed, TypeOK, CallsOK
  <2>3. event'[k] \in DOMAIN events' /\ events'[event'[k]] = e
    BY <1>0, <2>1, <2>2, AppendedLast
  <2>4. cmd'[k] = d /\ status'[d] \in Executed
    BY <1>0, <1>3 DEF CompensateBoth, compensateMutation, Executed, Typed, TypeOK, QueueOK,
                      CallsOK
  <2> QED
    BY <2>2, <2>3, <2>4 DEF LedgerEvent
<1> QED
  BY <1>0, <1>1, <1>2, <1>3, RecordedStep

LEMMA CommittedHasEventKept ==
  ASSUME KernelInv, [Next]_vars
  PROVE  CommittedHasEvent'
<1> SUFFICES ASSUME NEW c \in Commands, status'[c] \in Executed, verb'[c] # "compensate"
             PROVE  \E i \in DOMAIN events' : events'[i].command = c /\ events'[i].kind \in RecordKinds
  BY DEF CommittedHasEvent
<1>0. Typed /\ Recorded /\ CommittedHasEvent
  BY DEF KernelInv
<1>1. CASE status[c] \in Executed
  <2>1. verb'[c] = verb[c]
    BY <1>0, <1>1, VerbStep DEF Executed
  <2>2. PICK i \in DOMAIN events : events[i].command = c /\ events[i].kind \in RecordKinds
    BY <1>0, <1>1, <2>1 DEF CommittedHasEvent
  <2> QED
    BY <1>0, <2>2, EventsKept
<1>2. ASSUME NEW k \in Calls, pc[k] = "save", cmd[k] = c
      PROVE  \E i \in DOMAIN events' : events'[i].command = c /\ events'[i].kind \in RecordKinds
  <2>1. /\ event[k] \in DOMAIN events
        /\ events[event[k]].command = c /\ events[event[k]].kind \in RecordKinds
    BY <1>0, <1>2 DEF Recorded
  <2> QED
    BY <1>0, <2>1, EventsKept
<1> QED
  BY <1>0, <1>1, <1>2, ExecuteStep

LEMMA ReceiptProvesExecutionKept ==
  ASSUME KernelInv, [Next]_vars
  PROVE  ReceiptProvesExecution'
<1> SUFFICES ASSUME NEW r \in receipts'
             PROVE  /\ status'[r.command] \in Executed
                    /\ r.event \in DOMAIN events'
                    /\ events'[r.event].command = r.command
                    /\ events'[r.event].kind \in RecordKinds \cup {"command_compensated"}
  BY DEF ReceiptProvesExecution
<1>0. Typed /\ Recorded /\ ReceiptProvesExecution
  BY DEF KernelInv
<1>1. CASE r \in receipts
  <2>1. r.command \in Commands
    BY <1>0, <1>1 DEF Typed, TypeOK, LedgerOK, Receipts
  <2>2. /\ status[r.command] \in Executed
        /\ r.event \in DOMAIN events
        /\ events[r.event].command = r.command
        /\ events[r.event].kind \in RecordKinds \cup {"command_compensated"}
    BY <1>0, <1>1 DEF ReceiptProvesExecution
  <2> QED
    BY <1>0, <2>1, <2>2, EventsKept, ExecutedStep
<1>2. CASE r \notin receipts
  <2>1. PICK k \in Calls : r = ReceiptOf(k) /\ UNCHANGED events /\ (SaveCommitted(k) \/ EmitReceipt(k))
    BY <1>0, <1>2, ReceiptStep
  <2>2. pc[k] \in {"save", "receipt"}
    BY <2>1 DEF SaveCommitted, EmitReceipt
  <2>3. cmd[k] \in Commands
    BY <1>0, <2>2, CallFacts
  <2>4. /\ event[k] \in DOMAIN events
        /\ events[event[k]].command = cmd[k]
        /\ events[event[k]].kind \in RecordKinds \cup {"command_compensated"}
    BY <1>0, <2>2 DEF Recorded
  <2>5. status'[cmd[k]] \in Executed
    <3>1. CASE SaveCommitted(k)
      BY <1>0, <2>3, <3>1 DEF SaveCommitted, SetStatus, Executed, Typed, TypeOK, QueueOK
    <3>2. CASE EmitReceipt(k)
      BY <1>0, <2>3, <3>2, ExecutedStep DEF EmitReceipt, Recorded
    <3> QED
      BY <2>1, <3>1, <3>2
  <2> QED
    BY <2>1, <2>4, <2>5 DEF ReceiptOf
<1> QED
  BY <1>1, <1>2

LEMMA KernelInvInit == Init => KernelInv
  BY TypedInit DEF Init, KernelInv, Recorded, CommittedHasEvent, ReceiptProvesExecution,
                   Executed

LEMMA KernelInvStep == KernelInv /\ [Next]_vars => KernelInv'
<1> SUFFICES ASSUME KernelInv, [Next]_vars PROVE KernelInv'
  OBVIOUS
<1>1. Typed'
  BY TypedStep DEF KernelInv
<1> QED
  BY <1>1, RecordedKept, CommittedHasEventKept, ReceiptProvesExecutionKept DEF KernelInv

LEMMA KernelInvariant == Spec => []KernelInv
  BY KernelInvInit, KernelInvStep, PTL DEF Spec

(* No executed command without its event, for any number of overlapping     *)
(* calls, whatever fails and wherever the process dies.                     *)
THEOREM CommittedHasEventAlways == Spec => []CommittedHasEvent
<1>1. KernelInv => CommittedHasEvent
  BY DEF KernelInv
<1> QED
  BY <1>1, KernelInvariant, PTL

(* No receipt for a command that did not execute, and none without the      *)
(* event it points at.                                                      *)
THEOREM ReceiptProvesExecutionAlways == Spec => []ReceiptProvesExecution
<1>1. KernelInv => ReceiptProvesExecution
  BY DEF KernelInv
<1> QED
  BY <1>1, KernelInvariant, PTL

(* The saves of stale snapshots never take an executed command back to a    *)
(* status from which it could be committed again.                           *)
THEOREM ExecutedStaysExecutedAlways == Spec => ExecutedStaysExecuted
<1> DEFINE Stays == \A c \in Commands : status[c] \in Executed => status'[c] \in Executed
<1>1. ASSUME KernelInv, [Next]_vars PROVE [Stays]_vars
  BY <1>1, ExecutedStep DEF KernelInv
<1> QED
  BY <1>1, KernelInvariant, PTL DEF Spec, ExecutedStaysExecuted

---------------------------------------------------------------------------
(* Before its status is saved, a call is in its running part.               *)
Running == {"parent", "mutate", "index", "record", "save"}

(* What a call in flight does to the shared records.                        *)
LEMMA ContinueFrame ==
  ASSUME Typed, NEW k \in Calls, Continue(k)
  PROVE  /\ pc[k] \in InFlight
         /\ cmd' = cmd
         /\ \A j \in Calls : j # k => pc'[j] = pc[j]
         /\ status' = status \/ (pc[k] = "save" /\ SetStatus(cmd[k], "committed"))
         /\ pc'[k] = "receipt" => FALSE
         /\ pc'[k] \in Running => pc[k] \in Running /\ status' = status
  BY DEF Continue, ReadParent, CreateInStore, UpdateInStore, IngestInStore,
         LinkEvidence, Reindex, MutateThrows, LinkThrows, CreateThrowsLate,
         UpdateThrowsLate, IngestThrowsLate, IndexRecord, RecordEvent, RecordThrows,
         SaveCommitted, SaveThrows, EmitReceipt, recordOrphanMutation, At, Land, Goto, InFlight,
         Running, queue, locals, Typed, TypeOK, CallsOK

(* What the start of a call does.                                           *)
LEMMA BeginFrame ==
  ASSUME Typed, NEW k \in Calls, NEW c \in Commands, Begin(k, c), pc'[k] \in InFlight
  PROVE  /\ MayStart
         /\ receipts' = receipts
         /\ \A j \in Calls : j # k => pc'[j] = pc[j]
         /\ pc'[k] \in Running =>
              /\ status' = status
              /\ \/ cmd'[k] = c /\ status[c] \in {"validated", "approved"}
                 \/ cmd'[k] = c /\ status[c] = "none"
         /\ pc'[k] = "receipt" => \E d \in Commands : cmd'[k] = d /\ status[d] = "none"
  BY DEF Begin, commitMutation, commitUpdate, commitIngest, commitUnknownVerb, BeginCommit,
         BeginCommitFrom, createEntity, ingestArtifact, linkEvidence, rebuildIndex, callDirect,
         CompensateBoth, CompensateThrows, CrashInCompensate, compensateMutation, Fresh, Goto, InFlight,
         Running, ledger, Typed, TypeOK, CallsOK

LEMMA StepFrame ==
  ASSUME NEW c \in Commands, Step(c)
  PROVE  MayStart /\ pc' = pc /\ cmd' = cmd /\ receipts' = receipts
  BY DEF Step, proposeMutation, validateMutation, approveMutation, rejectMutation, ledger, locals

LEMMA CrashFrame ==
  ASSUME Crash
  PROVE  /\ cmd' = cmd /\ receipts' = receipts
         /\ \A k \in Calls : pc'[k] \notin InFlight
  BY DEF Crash, LoseCalls, InFlight, locals, ledger

---------------------------------------------------------------------------
(***************************************************************************)
(* What a step does to one call.  It is the call's own step, its start, or  *)
(* it leaves the call's locals alone and at most kills it.                  *)
(***************************************************************************)
SameCall(k) ==
  /\ op'[k] = op[k] /\ cmd'[k] = cmd[k] /\ landed'[k] = landed[k] /\ wrote'[k] = wrote[k]
  /\ previous'[k] = previous[k] /\ parent'[k] = parent[k]

Killed(k) == MayCrash /\ pc[k] \in InFlight /\ pc'[k] = "crashed"

LEMMA CallStep ==
  ASSUME Typed, [Next]_vars, NEW k \in Calls
  PROVE  \/ SameCall(k) /\ (pc'[k] = pc[k] \/ Killed(k))
         \/ Continue(k)
         \/ \E c \in Commands : Begin(k, c)
<1> DEFINE Left == SameCall(k) /\ (pc'[k] = pc[k] \/ Killed(k))
<1>0. CallsOK
  BY DEF Typed, TypeOK
<1>1. ASSUME NEW c \in Commands, Step(c) PROVE Left
  BY <1>1 DEF Step, proposeMutation, validateMutation, approveMutation, rejectMutation, locals, SameCall
<1>2. ASSUME NEW j \in Calls, Continue(j), j # k PROVE Left
  BY <1>0, <1>2 DEF Continue, ReadParent, CreateInStore, UpdateInStore, IngestInStore,
         LinkEvidence, Reindex, MutateThrows, LinkThrows, CreateThrowsLate,
         UpdateThrowsLate, IngestThrowsLate, IndexRecord, RecordEvent, RecordThrows,
         SaveCommitted, SaveThrows, EmitReceipt, recordOrphanMutation, Land, Goto,
         locals, CallsOK, SameCall
<1>3. ASSUME NEW j \in Calls, NEW c \in Commands, Begin(j, c), j # k PROVE Left
  <2>1. CASE \E d \in Commands : CompensateBoth(j, c, d) \/ CompensateThrows(j, c, d) \/ CrashInCompensate(j, c, d)
    BY <1>0, <1>3, <2>1 DEF CompensateBoth, CompensateThrows, CrashInCompensate,
         compensateMutation, Goto, InFlight, CallsOK, SameCall, Killed
  <2>2. CASE commitMutation(j, c) \/ commitUpdate(j, c) \/ commitIngest(j, c) \/ commitUnknownVerb(j, c)
    BY <1>0, <1>3, <2>2 DEF commitMutation, commitUpdate, commitIngest, commitUnknownVerb,
         BeginCommit, BeginCommitFrom, Goto, CallsOK, SameCall
  <2>3. CASE createEntity(j, c) \/ ingestArtifact(j, c) \/ linkEvidence(j, c) \/ rebuildIndex(j, c)
    BY <1>0, <1>3, <2>3 DEF createEntity, ingestArtifact, linkEvidence, rebuildIndex, callDirect,
         Goto, CallsOK, SameCall
  <2> QED
    BY <1>3, <2>1, <2>2, <2>3 DEF Begin
<1>4. CASE Crash
  BY <1>0, <1>4 DEF Crash, LoseCalls, locals, SameCall, Killed
<1>5. CASE UNCHANGED vars
  BY <1>5 DEF vars, locals, SameCall
<1> QED
  BY <1>1, <1>2, <1>3, <1>4, <1>5 DEF Next

(* The start of a call writes to no store; it leads to a first await, or it *)
(* is a compensation, which is executed at once.                            *)
LEMMA BeginCall ==
  ASSUME Typed, NEW k \in Calls, NEW c \in Commands, Begin(k, c)
  PROVE  /\ pc[k] = "idle"
         /\ wrote' = wrote /\ parent' = parent
         /\ \/ /\ pc'[k] \in {"parent", "mutate", "tampered", "threw"}
               /\ landed'[k] = landed[k]
            \/ /\ pc'[k] \in {"receipt", "orphan"}
               /\ verb'[cmd'[k]] = "compensate"
            \/ MayCrash /\ pc'[k] = "crashed" /\ verb'[cmd'[k]] = "compensate"
<1>0. CallsOK /\ QueueOK
  BY DEF Typed, TypeOK
<1>1. CASE \E d \in Commands : CompensateBoth(k, c, d) \/ CompensateThrows(k, c, d) \/ CrashInCompensate(k, c, d)
  BY <1>0, <1>1 DEF CompensateBoth, CompensateThrows, CrashInCompensate,
         compensateMutation, Goto, InFlight, CallsOK, QueueOK
<1>2. CASE commitMutation(k, c) \/ commitUpdate(k, c) \/ commitIngest(k, c) \/ commitUnknownVerb(k, c)
  BY <1>0, <1>2 DEF commitMutation, commitUpdate, commitIngest, commitUnknownVerb,
         BeginCommit, BeginCommitFrom, Goto, CallsOK
<1>3. CASE createEntity(k, c) \/ ingestArtifact(k, c) \/ linkEvidence(k, c) \/ rebuildIndex(k, c)
  BY <1>0, <1>3 DEF createEntity, ingestArtifact, linkEvidence, rebuildIndex, callDirect,
         Goto, CallsOK
<1> QED
  BY <1>1, <1>2, <1>3 DEF Begin

(* The road of a call: from where to where one of its steps leads, and that *)
(* only the store write touches what it wrote.                              *)
LEMMA ContinueCall ==
  ASSUME Typed, NEW k \in Calls, Continue(k)
  PROVE  /\ cmd' = cmd /\ op' = op /\ previous' = previous /\ verb' = verb /\ target' = target
         /\ pc[k] # "mutate" => landed' = landed /\ wrote' = wrote
         /\ pc[k] # "parent" => parent' = parent
         /\ \/ pc[k] = "parent" /\ pc'[k] = "mutate"
            \/ pc[k] = "mutate" /\ pc'[k] \in {"index", "record"}
            \/ /\ pc[k] = "mutate" /\ pc'[k] = "threw"
               /\ landed' = landed \/ "canonical" \in Faulty \/ "artifact" \in Faulty
            \/ pc[k] = "index" /\ pc'[k] = "record"
            \/ pc[k] = "index" /\ pc'[k] = "threw" /\ "index" \in Faulty
            \/ pc[k] = "record" /\ pc'[k] \in {"save", "orphan"}
            \/ pc[k] \in {"save", "receipt"} /\ pc'[k] \in {"done", "orphan"}
            \/ pc[k] = "orphan" /\ pc'[k] = "receiptFailed"
  BY DEF Continue, ReadParent, CreateInStore, UpdateInStore, IngestInStore,
         LinkEvidence, Reindex, MutateThrows, LinkThrows, CreateThrowsLate,
         UpdateThrowsLate, IngestThrowsLate, IndexRecord, RecordEvent, RecordThrows,
         SaveCommitted, SaveThrows, EmitReceipt, recordOrphanMutation, At, Land, Goto,
         queue, locals, CanFail, Typed, TypeOK, CallsOK

(* A call that ends well has its receipt, one that ends in a                *)
(* ReceiptFailedError has its note.                                         *)
LEMMA SettledStep ==
  ASSUME Typed, NEW k \in Calls, Continue(k)
  PROVE  /\ pc'[k] = "done" => ReceiptOf(k) \in receipts'
         /\ pc'[k] = "receiptFailed" => Noted(k)'
<1>0. CallsOK /\ LedgerOK
  BY DEF Typed, TypeOK
<1>1. ASSUME pc'[k] = "done" PROVE ReceiptOf(k) \in receipts'
  BY <1>0, <1>1 DEF Continue, ReadParent, CreateInStore, UpdateInStore, IngestInStore,
         LinkEvidence, Reindex, MutateThrows, LinkThrows, CreateThrowsLate,
         UpdateThrowsLate, IngestThrowsLate, IndexRecord, RecordEvent, RecordThrows,
         SaveCommitted, SaveThrows, EmitReceipt, recordOrphanMutation, At, Land, Goto, CallsOK
<1>2. ASSUME pc'[k] = "receiptFailed" PROVE Noted(k)'
  <2>1. recordOrphanMutation(k)
    BY <1>0, <1>2 DEF Continue, ReadParent, CreateInStore, UpdateInStore, IngestInStore,
         LinkEvidence, Reindex, MutateThrows, LinkThrows, CreateThrowsLate,
         UpdateThrowsLate, IngestThrowsLate, IndexRecord, RecordEvent, RecordThrows,
         SaveCommitted, SaveThrows, EmitReceipt, recordOrphanMutation, At, Land, Goto, CallsOK
  <2> DEFINE e == LedgerEvent("mutation_orphaned", cmd[k], k, SubjectOf(k))
  <2>2. e \in Events /\ e.kind = "mutation_orphaned" /\ e.call = k
    <3>1. pc[k] # "idle"
      BY <2>1 DEF recordOrphanMutation
    <3> QED
      BY <3>1, CallFacts, EventOfTyped, LedgerEventTyped DEF EventKinds, LedgerEvent
  <2>3. CASE k \in stderr'
    BY <2>3 DEF Noted
  <2>4. CASE events' = Append(events, e)
    <3>1. Len(events) + 1 \in DOMAIN events' /\ events'[Len(events) + 1] = e
      BY <1>0, <2>2, <2>4, AppendedLast DEF LedgerOK
    <3> QED
      BY <2>2, <3>1 DEF Noted
  <2> QED
    BY <2>1, <2>3, <2>4 DEF recordOrphanMutation, recordProvenance
<1> QED
  BY <1>1, <1>2

(* The notes and records of a ledger that only grows.                       *)
HasRecord(k) == \E i \in DOMAIN events : events[i].kind \in RecordKinds /\ events[i].call = k

LEMMA TracesKept ==
  ASSUME Typed, [Next]_vars, NEW k \in Calls
  PROVE  /\ Noted(k) => Noted(k)'
         /\ HasRecord(k) => HasRecord(k)'
<1>1. k \in stderr => k \in stderr'
  <2>1. ASSUME NEW c \in Commands, Step(c) PROVE stderr' = stderr
    BY <2>1 DEF Step, proposeMutation, validateMutation, approveMutation, rejectMutation
  <2>2. ASSUME NEW j \in Calls, Continue(j) PROVE stderr \subseteq stderr'
    BY <2>2 DEF Continue, ReadParent, CreateInStore, UpdateInStore, IngestInStore,
         LinkEvidence, Reindex, MutateThrows, LinkThrows, CreateThrowsLate,
         UpdateThrowsLate, IngestThrowsLate, IndexRecord, RecordEvent, RecordThrows,
         SaveCommitted, SaveThrows, EmitReceipt, recordOrphanMutation, Land
  <2>3. ASSUME NEW j \in Calls, NEW c \in Commands, Begin(j, c) PROVE stderr' = stderr
    BY <2>3 DEF Begin, commitMutation, commitUpdate, commitIngest, commitUnknownVerb,
         BeginCommit, BeginCommitFrom, createEntity, ingestArtifact, linkEvidence,
         rebuildIndex, callDirect, CompensateBoth, CompensateThrows, CrashInCompensate,
         compensateMutation
  <2>4. CASE UNCHANGED vars \/ Crash
    BY <2>4 DEF vars, Crash
  <2> QED
    BY <2>1, <2>2, <2>3, <2>4 DEF Next
<1> QED
  BY <1>1, EventsKept DEF Noted, HasRecord

LEMMA ReceiptsKept ==
  ASSUME Typed, [Next]_vars
  PROVE  receipts \subseteq receipts'
<1>1. ASSUME NEW c \in Commands, Step(c) PROVE receipts' = receipts
  BY <1>1, StepFrame
<1>2. ASSUME NEW j \in Calls, Continue(j) PROVE receipts \subseteq receipts'
  BY <1>2 DEF Continue, ReadParent, CreateInStore, UpdateInStore, IngestInStore,
         LinkEvidence, Reindex, MutateThrows, LinkThrows, CreateThrowsLate,
         UpdateThrowsLate, IngestThrowsLate, IndexRecord, RecordEvent, RecordThrows,
         SaveCommitted, SaveThrows, EmitReceipt, recordOrphanMutation, Land, ledger
<1>3. ASSUME NEW j \in Calls, NEW c \in Commands, Begin(j, c) PROVE receipts' = receipts
  BY <1>3 DEF Begin, commitMutation, commitUpdate, commitIngest, commitUnknownVerb,
         BeginCommit, BeginCommitFrom, createEntity, ingestArtifact, linkEvidence,
         rebuildIndex, callDirect, CompensateBoth, CompensateThrows, CrashInCompensate,
         compensateMutation, ledger
<1>4. CASE UNCHANGED vars \/ Crash
  BY <1>4, CrashFrame DEF vars, ledger
<1> QED
  BY <1>1, <1>2, <1>3, <1>4 DEF Next

(* The payload of a command that some call has.                             *)
LEMMA TargetStep ==
  ASSUME Typed, [Next]_vars, NEW c \in Commands, NEW k \in Calls, cmd[k] = c
  PROVE  target'[c] = target[c]
<1> DEFINE Claim == target'[c] = target[c]
<1>0. TypeOK
  BY DEF Typed
<1>1. ASSUME NEW d \in Commands, Step(d) PROVE Claim
  BY <1>0, <1>1 DEF Step, proposeMutation, validateMutation, approveMutation, rejectMutation,
              Fresh, queue, TypeOK, QueueOK, CallsOK
<1>2. ASSUME NEW j \in Calls, Continue(j) PROVE Claim
  BY <1>2, ContinueCall
<1>3. ASSUME NEW j \in Calls, NEW d \in Commands, Begin(j, d) PROVE Claim
  BY <1>0, <1>3 DEF Begin, commitMutation, commitUpdate, commitIngest, commitUnknownVerb,
              BeginCommit, BeginCommitFrom, createEntity, ingestArtifact, linkEvidence,
              rebuildIndex, callDirect, CompensateBoth, CompensateThrows, CrashInCompensate,
              compensateMutation, Fresh, queue, TypeOK, QueueOK, CallsOK
<1>4. CASE UNCHANGED vars \/ Crash
  BY <1>4 DEF vars, queue, Crash
<1> QED
  BY <1>1, <1>2, <1>3, <1>4 DEF Next

---------------------------------------------------------------------------
(* Where the calls are: what holds whatever fails, crashes or overlaps.     *)
Began ==
  \A k \in Calls :
    /\ pc[k] = "idle" => cmd[k] = None
    /\ pc[k] \in {"idle", "parent", "mutate"} => ~landed[k]
    /\ pc[k] = "receipt" => verb[cmd[k]] = "compensate"

SavingRecorded == \A k \in Calls : pc[k] = "save" => HasRecord(k)

TracedInv == KernelInv /\ Began /\ SavingRecorded

LEMMA BeganKept ==
  ASSUME KernelInv, Began, [Next]_vars
  PROVE  Began'
<1> SUFFICES ASSUME NEW k \in Calls
             PROVE  /\ pc'[k] = "idle" => cmd'[k] = None
                    /\ pc'[k] \in {"idle", "parent", "mutate"} => ~landed'[k]
                    /\ pc'[k] = "receipt" => verb'[cmd'[k]] = "compensate"
  BY DEF Began
<1>0. Typed
  BY DEF KernelInv
<1>1. CASE SameCall(k) /\ (pc'[k] = pc[k] \/ Killed(k))
  <2>1. pc[k] # "idle" => verb'[cmd[k]] = verb[cmd[k]]
    BY <1>0, CallFacts, VerbStep
  <2> QED
    BY <1>1, <2>1 DEF SameCall, Killed, Began
<1>2. CASE Continue(k)
  BY <1>0, <1>2, ContinueCall DEF Began
<1>3. ASSUME NEW c \in Commands, Begin(k, c)
      PROVE  /\ pc'[k] # "idle"
             /\ pc'[k] \in {"parent", "mutate"} => ~landed'[k]
             /\ pc'[k] = "receipt" => verb'[cmd'[k]] = "compensate"
  BY <1>0, <1>3, BeginCall DEF Began
<1> QED
  BY <1>0, <1>1, <1>2, <1>3, CallStep

LEMMA SavingRecordedKept ==
  ASSUME KernelInv, SavingRecorded, [Next]_vars
  PROVE  SavingRecorded'
<1> SUFFICES ASSUME NEW k \in Calls, pc'[k] = "save" PROVE HasRecord(k)'
  BY DEF SavingRecorded
<1>0. Typed /\ events \in Seq(Events)
  BY DEF KernelInv, Typed, TypeOK, LedgerOK
<1>1. CASE pc'[k] = pc[k]
  BY <1>0, <1>1, TracesKept DEF SavingRecorded
<1>2. CASE RecordEvent(k)
  <2>1. EventOf(k) \in Events
    BY <1>0, <1>2, EventOfTyped DEF RecordEvent
  <2>2. Len(events) + 1 \in DOMAIN events' /\ events'[Len(events) + 1] = EventOf(k)
    BY <1>0, <1>2, <2>1, AppendedLast DEF RecordEvent, recordProvenance
  <2>3. EventOf(k).kind \in RecordKinds /\ EventOf(k).call = k
    BY DEF EventOf, KindOf, RecordKinds
  <2> QED
    BY <2>2, <2>3 DEF HasRecord
<1>3. ASSUME NEW a \in Commands, NEW b \in Commands, CompensateBoth(k, a, b) PROVE FALSE
  BY <1>0, <1>3 DEF CompensateBoth, Goto, Typed, TypeOK, CallsOK
<1> QED
  BY <1>0, <1>1, <1>2, <1>3, RecordedStep

LEMMA TracedInvariant == Spec => []TracedInv
<1>1. Init => TracedInv
  BY KernelInvInit DEF Init, TracedInv, Began, SavingRecorded
<1>2. ASSUME TracedInv, [Next]_vars PROVE TracedInv'
  BY <1>2, KernelInvStep, BeganKept, SavingRecordedKept DEF TracedInv
<1> QED
  BY <1>1, <1>2, PTL DEF Spec

---------------------------------------------------------------------------
(***************************************************************************)
(* Every write to a store is explained, for a process that is not killed    *)
(* and whose stores and index do not throw: the ledger and the queue may.   *)
(***************************************************************************)
SoundStores == ~MayCrash /\ Faulty \cap {"canonical", "artifact", "index"} = {}

LandedExplained ==
  \A k \in Calls : landed[k] /\ verb[cmd[k]] # "compensate" => Explained(k)

StoresWritten ==
  /\ \A e \in Ids : \A v \in 1..version[e] : (e \in EarlierEntities /\ v = 1) \/ \E k \in Calls : Wrote(k, e, v)
  /\ \A k \in artifacts \ EarlierArtifacts : k \in Calls /\ landed[k] /\ verb[cmd[k]] = "ingest_artifact"

TruthInv == TracedInv /\ LandedExplained /\ StoresWritten

LEMMA LandedExplainedKept ==
  ASSUME SoundStores, TracedInv, LandedExplained, [Next]_vars
  PROVE  LandedExplained'
<1> SUFFICES ASSUME NEW k \in Calls, landed'[k], verb'[cmd'[k]] # "compensate"
             PROVE  Explained(k)'
  BY DEF LandedExplained
<1>0. Typed /\ Began /\ SavingRecorded
  BY DEF TracedInv, KernelInv
<1>1. CASE SameCall(k) /\ pc'[k] = pc[k]
  <2>1. pc[k] # "idle"
    BY <1>0, <1>1 DEF Began, SameCall
  <2>2. verb'[cmd[k]] = verb[cmd[k]]
    BY <1>0, <2>1, CallFacts, VerbStep
  <2>3. Explained(k)
    BY <1>1, <2>2 DEF SameCall, LandedExplained
  <2> QED
    BY <1>0, <1>1, <2>3, TracesKept DEF Explained, HasRecord
<1>2. CASE Continue(k)
  <2>1. CASE pc'[k] \in InFlight
    BY <2>1 DEF Explained
  <2>2. CASE pc[k] = "save" /\ pc'[k] = "done"
    BY <1>0, <2>2, TracesKept DEF SavingRecorded, Explained, HasRecord
  <2>3. CASE pc'[k] = "receiptFailed"
    BY <1>0, <1>2, <2>3, SettledStep DEF Explained
  <2>4. pc[k] = "receipt" => FALSE
    BY <1>0, <1>2, ContinueCall DEF Began
  <2>5. pc[k] = "mutate" /\ pc'[k] = "threw" => FALSE
    BY <1>0, <1>2, ContinueCall DEF Began, SoundStores
  <2> QED
    BY <1>0, <1>2, <2>1, <2>2, <2>3, <2>4, <2>5, ContinueCall DEF InFlight, SoundStores
<1>3. ASSUME NEW c \in Commands, Begin(k, c) PROVE FALSE
  BY <1>0, <1>3, BeginCall DEF Began, SoundStores
<1> QED
  BY <1>0, <1>1, <1>2, <1>3, CallStep DEF Killed, SoundStores

(* Who writes to the stores, when no write throws after it took effect.     *)
LEMMA StoreStep ==
  ASSUME SoundStores, Typed, [Next]_vars
  PROVE  \/ version' = version /\ artifacts' = artifacts
         \/ \E k \in Calls : CreateInStore(k) \/ UpdateInStore(k) \/ IngestInStore(k)
<1> DEFINE Claim == \/ version' = version /\ artifacts' = artifacts
                    \/ \E k \in Calls : CreateInStore(k) \/ UpdateInStore(k) \/ IngestInStore(k)
<1>1. ASSUME NEW c \in Commands, Step(c) PROVE Claim
  BY <1>1 DEF Step, proposeMutation, validateMutation, approveMutation, rejectMutation, stores
<1>2. ASSUME NEW j \in Calls, Continue(j) PROVE Claim
  BY <1>2 DEF Continue, ReadParent, LinkEvidence, Reindex, MutateThrows, LinkThrows,
         CreateThrowsLate, UpdateThrowsLate, IngestThrowsLate, IndexRecord, RecordEvent,
         RecordThrows, SaveCommitted, SaveThrows, EmitReceipt, recordOrphanMutation,
         stores, CanFail, SoundStores
<1>3. ASSUME NEW j \in Calls, NEW c \in Commands, Begin(j, c) PROVE Claim
  BY <1>3 DEF Begin, commitMutation, commitUpdate, commitIngest, commitUnknownVerb,
         BeginCommit, BeginCommitFrom, createEntity, ingestArtifact, linkEvidence,
         rebuildIndex, callDirect, CompensateBoth, CompensateThrows, CrashInCompensate,
         compensateMutation, stores
<1>4. CASE UNCHANGED vars \/ Crash
  BY <1>4 DEF vars, stores, Crash
<1> QED
  BY <1>1, <1>2, <1>3, <1>4 DEF Next

(* A write that landed keeps its author, its payload and its version.       *)
LEMMA WriteKept ==
  ASSUME TracedInv, [Next]_vars, NEW k \in Calls, landed[k]
  PROVE  /\ landed'[k] /\ wrote'[k] = wrote[k] /\ cmd'[k] = cmd[k]
         /\ verb'[cmd[k]] = verb[cmd[k]] /\ target'[cmd[k]] = target[cmd[k]]
<1>0. Typed /\ pc[k] \notin {"idle", "parent", "mutate"}
  BY DEF TracedInv, KernelInv, Began
<1>1. cmd[k] \in Commands
  BY <1>0, CallFacts
<1>2. verb'[cmd[k]] = verb[cmd[k]] /\ target'[cmd[k]] = target[cmd[k]]
  BY <1>0, <1>1, VerbStep, TargetStep
<1>3. landed'[k] /\ wrote'[k] = wrote[k] /\ cmd'[k] = cmd[k]
  BY <1>0, CallStep, BeginCall, ContinueCall DEF SameCall
<1> QED
  BY <1>2, <1>3

LEMMA StoresWrittenKept ==
  ASSUME SoundStores, TracedInv, StoresWritten, [Next]_vars
  PROVE  StoresWritten'
<1>0. Typed /\ CallsOK /\ StoresOK
  BY DEF TracedInv, KernelInv, Typed, TypeOK
<1>k. ASSUME NEW k \in Calls, NEW e \in Ids, NEW v, Wrote(k, e, v) PROVE Wrote(k, e, v)'
  BY <1>k, WriteKept DEF Wrote
<1>v. ASSUME NEW e \in Ids, NEW v \in 1..version[e]
      PROVE  (e \in EarlierEntities /\ v = 1) \/ \E k \in Calls : Wrote(k, e, v)'
  BY <1>k DEF StoresWritten
<1>a. ASSUME NEW k \in artifacts \ EarlierArtifacts
      PROVE  k \in Calls /\ landed'[k] /\ verb'[cmd'[k]] = "ingest_artifact"
  BY WriteKept DEF StoresWritten
<1>1. CASE version' = version /\ artifacts' = artifacts
  BY <1>1, <1>v, <1>a DEF StoresWritten
<1>2. ASSUME NEW k \in Calls, CreateInStore(k) PROVE StoresWritten'
  <2>1. artifacts' = artifacts
    BY <1>2 DEF CreateInStore
  <2>2. Wrote(k, k, 1)'
    BY <1>0, <1>2 DEF CreateInStore, Land, At, queue, Wrote, CallsOK
  <2>3. ASSUME NEW e \in Ids, NEW v \in 1..version'[e]
        PROVE  (e \in EarlierEntities /\ v = 1) \/ \E j \in Calls : Wrote(j, e, v)'
    <3>1. CASE e = k
      BY <1>0, <1>2, <2>2, <2>3, <3>1 DEF CreateInStore, StoresOK
    <3>2. CASE e # k
      BY <1>0, <1>2, <1>v, <2>3, <3>2 DEF CreateInStore, StoresOK
    <3> QED
      BY <3>1, <3>2
  <2> QED
    BY <1>a, <2>1, <2>3 DEF StoresWritten
<1>3. ASSUME NEW k \in Calls, UpdateInStore(k) PROVE StoresWritten'
  <2>1. artifacts' = artifacts
    BY <1>3 DEF UpdateInStore
  <2>2. target[cmd[k]].entity \in Ids
    <3>1. pc[k] # "idle" /\ verb[cmd[k]] = "update_entity"
      BY <1>3 DEF UpdateInStore, At
    <3> QED
      BY <1>0, <3>1, CallFacts, TargetFacts
  <2>3. PICK t \in Ids, n \in Nat : t = target[cmd[k]].entity /\ n = version[t]
    BY <1>0, <2>2 DEF StoresOK
  <2>4. Wrote(k, t, n + 1)'
    BY <1>0, <1>3, <2>3 DEF UpdateInStore, Land, At, queue, Wrote, CallsOK
  <2>5. version'[t] = n + 1 /\ \A e \in Ids : e # t => version'[e] = version[e]
    BY <1>0, <1>3, <2>3 DEF UpdateInStore, StoresOK
  <2>6. ASSUME NEW e \in Ids, NEW v \in 1..version'[e]
        PROVE  (e \in EarlierEntities /\ v = 1) \/ \E j \in Calls : Wrote(j, e, v)'
    <3>1. CASE e = t
      <4>1. v \in 1..version[t] \/ v = n + 1
        BY <2>3, <2>5, <2>6, <3>1
      <4> QED
        BY <1>v, <2>4, <3>1, <4>1
    <3>2. CASE e # t
      BY <1>v, <2>5, <2>6, <3>2
    <3> QED
      BY <3>1, <3>2
  <2> QED
    BY <1>a, <2>1, <2>6 DEF StoresWritten
<1>4. ASSUME NEW k \in Calls, IngestInStore(k) PROVE StoresWritten'
  <2>1. version' = version /\ artifacts' = artifacts \cup {k}
    BY <1>4 DEF IngestInStore
  <2>2. landed'[k] /\ verb'[cmd'[k]] = "ingest_artifact"
    BY <1>0, <1>4 DEF IngestInStore, Land, At, queue, CallsOK
  <2> QED
    BY <1>v, <1>a, <2>1, <2>2 DEF StoresWritten
<1> QED
  BY <1>0, <1>1, <1>2, <1>3, <1>4, StoreStep

LEMMA TruthInvariant == SoundStores /\ Spec => []TruthInv
<1>1. Init => LandedExplained /\ StoresWritten
  BY DEF Init, LandedExplained, StoresWritten
<1>2. ASSUME SoundStores, TracedInv, LandedExplained /\ StoresWritten, [Next]_vars
      PROVE  (LandedExplained /\ StoresWritten)'
  BY <1>2, LandedExplainedKept, StoresWrittenKept
<1>3. CASE ~SoundStores
  BY <1>3
<1>4. CASE SoundStores
  <2>1. TracedInv /\ LandedExplained /\ StoresWritten /\ [Next]_vars => (LandedExplained /\ StoresWritten)'
    BY <1>2, <1>4
  <2> QED
    BY <1>1, <2>1, TracedInvariant, PTL DEF Spec, TruthInv
<1> QED
  BY <1>3, <1>4

(* No store is ever written to without a trace: every version and every     *)
(* artifact has its event, its orphan note or a call still running, however *)
(* the calls overlap and whatever the ledger and the queue refuse.          *)
THEOREM TruthExplainedAlways ==
  ~MayCrash /\ Faulty \cap {"canonical", "artifact", "index"} = {} /\ Spec => []TruthExplained
<1>1. ASSUME TruthInv PROVE TruthExplained
  <2>0. LandedExplained /\ StoresWritten
    BY <1>1 DEF TruthInv
  <2>1. ASSUME NEW k \in Calls, NEW e \in Ids, NEW v, Wrote(k, e, v) PROVE Explained(k)
    BY <2>0, <2>1 DEF Wrote, LandedExplained
  <2>2. ASSUME NEW k \in artifacts \ EarlierArtifacts PROVE Explained(k)
    BY <2>0 DEF LandedExplained, StoresWritten
  <2> QED
    BY <2>0, <2>1, <2>2 DEF TruthExplained, StoresWritten
<1>2. CASE ~SoundStores
  BY <1>2 DEF SoundStores
<1>3. CASE SoundStores
  <2>1. Spec => []TruthInv
    BY <1>3, TruthInvariant
  <2> QED
    BY <1>1, <2>1, PTL
<1> QED
  BY <1>2, <1>3

---------------------------------------------------------------------------
(***************************************************************************)
(* The missing half of the command-receipt bijection, for a process that is *)
(* not killed: an executed command has its receipt, its orphan note or a    *)
(* call that is about to leave one.                                         *)
(***************************************************************************)
Proving ==
  \A c \in Commands : status[c] \in Executed =>
    \/ \E r \in receipts : r.command = c
    \/ \E k \in Calls : cmd[k] = c /\ (pc[k] \in {"receipt", "orphan"} \/ Noted(k))

ProvingInv == TracedInv /\ Proving

LEMMA ExecutedBy ==
  ASSUME Typed, ~MayCrash, [Next]_vars, NEW c \in Commands,
         status'[c] \in Executed, status[c] \notin Executed
  PROVE  \E k \in Calls : /\ cmd'[k] = c
                          /\ \/ pc'[k] \in {"receipt", "orphan"}
                             \/ cmd[k] = c /\ ReceiptOf(k) \in receipts'
<1> DEFINE Claim == \E k \in Calls : /\ cmd'[k] = c
                                     /\ \/ pc'[k] \in {"receipt", "orphan"}
                                        \/ cmd[k] = c /\ ReceiptOf(k) \in receipts'
<1>0. CallsOK /\ QueueOK
  BY DEF Typed, TypeOK
<1>1. ASSUME NEW d \in Commands, Step(d) PROVE FALSE
  BY <1>0, <1>1 DEF Step, proposeMutation, validateMutation, approveMutation, rejectMutation,
                    SetStatus, Executed, queue, QueueOK
<1>2. ASSUME NEW k \in Calls, Continue(k) PROVE Claim
  <2>1. pc[k] = "save" /\ SetStatus(cmd[k], "committed") /\ cmd' = cmd
    BY <1>2, ContinueFrame
  <2>2. cmd[k] = c
    BY <1>0, <2>1 DEF SetStatus, QueueOK
  <2>3. pc'[k] = "orphan" \/ ReceiptOf(k) \in receipts'
    BY <1>2, <2>1, ContinueCall, SettledStep
  <2> QED
    BY <2>1, <2>2, <2>3
<1>3. ASSUME NEW k \in Calls, NEW d \in Commands, Begin(k, d) PROVE Claim
  <2>1. CASE \E b \in Commands : CompensateBoth(k, d, b) \/ CompensateThrows(k, d, b)
    <3>1. PICK b \in Commands : CompensateBoth(k, d, b) \/ CompensateThrows(k, d, b)
      BY <2>1
    <3>2. cmd'[k] = b /\ pc'[k] \in {"receipt", "orphan"} /\ status[d] \in Executed
      BY <1>0, <3>1 DEF CompensateBoth, CompensateThrows, compensateMutation, Goto, Executed, CallsOK
    <3>3. \A e \in Commands : e # d /\ e # b => status'[e] = status[e]
      BY <1>0, <3>1 DEF CompensateBoth, CompensateThrows, SetStatus, QueueOK
    <3> QED
      BY <3>2, <3>3
  <2>2. CASE \E b \in Commands : CrashInCompensate(k, d, b)
    BY <2>2 DEF CrashInCompensate
  <2>3. CASE commitMutation(k, d) \/ commitUpdate(k, d) \/ commitIngest(k, d) \/ commitUnknownVerb(k, d)
    BY <1>0, <2>3 DEF commitMutation, commitUpdate, commitIngest, commitUnknownVerb,
                      SetStatus, Executed, QueueOK
  <2>4. CASE createEntity(k, d) \/ ingestArtifact(k, d) \/ linkEvidence(k, d) \/ rebuildIndex(k, d)
    BY <2>4 DEF createEntity, ingestArtifact, linkEvidence, rebuildIndex, callDirect
  <2> QED
    BY <1>3, <2>1, <2>2, <2>3, <2>4 DEF Begin
<1>4. CASE UNCHANGED vars \/ Crash
  BY <1>4 DEF vars, queue, Crash
<1> QED
  BY <1>1, <1>2, <1>3, <1>4 DEF Next

LEMMA ProvingKept ==
  ASSUME ~MayCrash, TracedInv, Proving, [Next]_vars
  PROVE  Proving'
<1> SUFFICES ASSUME NEW c \in Commands, status'[c] \in Executed
             PROVE  \/ \E r \in receipts' : r.command = c
                    \/ \E k \in Calls : cmd'[k] = c /\ (pc'[k] \in {"receipt", "orphan"} \/ Noted(k)')
  BY DEF Proving
<1>0. Typed /\ Began
  BY DEF TracedInv, KernelInv
<1>r. \A k \in Calls : ReceiptOf(k).command = cmd[k]
  BY DEF ReceiptOf
<1>1. CASE status[c] \notin Executed
  BY <1>0, <1>1, <1>r, ExecutedBy
<1>2. CASE \E r \in receipts : r.command = c
  BY <1>0, <1>2, ReceiptsKept
<1>3. ASSUME NEW k \in Calls, cmd[k] = c, pc[k] \in {"receipt", "orphan"} \/ Noted(k)
      PROVE  \/ \E r \in receipts' : r.command = c
             \/ cmd'[k] = c /\ (pc'[k] \in {"receipt", "orphan"} \/ Noted(k)')
  <2>1. pc[k] # "idle"
    BY <1>0, <1>3, KernelAssumption DEF Began
  <2>2. CASE SameCall(k) /\ pc'[k] = pc[k]
    BY <1>0, <1>3, <2>2, TracesKept DEF SameCall
  <2>3. CASE Continue(k)
    <3>1. cmd'[k] = c
      BY <1>0, <1>3, <2>3, ContinueCall
    <3>2. CASE Noted(k)
      BY <1>0, <3>1, <3>2, TracesKept
    <3>3. CASE pc[k] \in {"receipt", "orphan"}
      BY <1>0, <1>3, <1>r, <2>3, <3>1, <3>3, ContinueCall, SettledStep
    <3> QED
      BY <1>3, <3>2, <3>3
  <2> QED
    BY <1>0, <2>1, <2>2, <2>3, CallStep, BeginCall DEF Killed
<1> QED
  BY <1>1, <1>2, <1>3 DEF Proving

LEMMA ProvingInvariant == ~MayCrash /\ Spec => []ProvingInv
<1>1. Init => Proving
  BY DEF Init, Proving, Executed
<1>2. CASE MayCrash
  BY <1>2
<1>3. CASE ~MayCrash
  <2>1. TracedInv /\ Proving /\ [Next]_vars => Proving'
    BY <1>3, ProvingKept
  <2> QED
    BY <1>1, <2>1, TracedInvariant, PTL DEF Spec, ProvingInv
<1> QED
  BY <1>2, <1>3

(* A receipt is missing only where a call threw ReceiptFailedError, and     *)
(* then that call's orphan is noted in the ledger or on stderr.             *)
THEOREM ReceiptlessIsOrphanedAlways == ~MayCrash /\ Spec => []ReceiptlessIsOrphaned
<1>1. ProvingInv => ReceiptlessIsOrphaned
  BY DEF ProvingInv, Proving, ReceiptlessIsOrphaned, InFlight
<1>2. CASE MayCrash
  BY <1>2
<1>3. CASE ~MayCrash
  <2>1. Spec => []ProvingInv
    BY <1>3, ProvingInvariant
  <2> QED
    BY <1>1, <2>1, PTL
<1> QED
  BY <1>2, <1>3

-----------------------------------------------------------------------------
(***************************************************************************)
(* What holds of a kernel whose callers await every call before the next    *)
(* (~Overlap), and not otherwise: no command has two receipts, the statuses *)
(* move as CommandLaw says, and the events of updates form a chain.         *)
(***************************************************************************)

OneInFlight == \A j, k \in Calls : pc[j] \in InFlight /\ pc[k] \in InFlight => j = k

(* Between its status check and its save, a commit's command keeps the      *)
(* status that was checked, and a synthetic command is not in the queue.    *)
Unexecuted == \A k \in Calls : pc[k] \in Running => status[cmd[k]] \in {"none", "validated", "approved"}

Unreceipted == \A k \in Calls : pc[k] = "receipt" => \A r \in receipts : r.command # cmd[k]

SoloInv == KernelInv /\ OneInFlight /\ Unexecuted /\ Unreceipted /\ AtMostOneReceipt

(* While a call is in flight, every step is its own or a crash.             *)
LEMMA Alone ==
  ASSUME ~Overlap, OneInFlight, [Next]_vars, NEW k \in Calls, pc[k] \in InFlight
  PROVE  UNCHANGED vars \/ Continue(k) \/ Crash
<1>1. ~MayStart
  BY DEF MayStart
<1>2. ASSUME NEW c \in Commands, Step(c) PROVE FALSE
  BY <1>1, <1>2 DEF Step, proposeMutation, validateMutation, approveMutation, rejectMutation
<1>3. ASSUME NEW j \in Calls, NEW c \in Commands, Begin(j, c) PROVE FALSE
  BY <1>1, <1>3 DEF Begin, commitMutation, commitUpdate, commitIngest, commitUnknownVerb,
                    createEntity, ingestArtifact, linkEvidence, rebuildIndex, callDirect,
                    CompensateBoth, CompensateThrows, CrashInCompensate, compensateMutation
<1>4. ASSUME NEW j \in Calls, Continue(j) PROVE j = k
  <2>1. pc[j] \in InFlight
    BY <1>4 DEF Continue, ReadParent, CreateInStore, UpdateInStore, IngestInStore,
                LinkEvidence, Reindex, MutateThrows, LinkThrows, CreateThrowsLate,
                UpdateThrowsLate, IngestThrowsLate, IndexRecord, RecordEvent, RecordThrows,
                SaveCommitted, SaveThrows, EmitReceipt, recordOrphanMutation, At, InFlight
  <2> QED
    BY <2>1 DEF OneInFlight
<1> QED
  BY <1>2, <1>3, <1>4 DEF Next

LEMMA OneInFlightKept ==
  ASSUME ~Overlap, Typed, OneInFlight, [Next]_vars
  PROVE  OneInFlight'
<1>0. ASSUME MayStart, NEW j \in Calls PROVE pc[j] \notin InFlight
  BY <1>0 DEF MayStart
<1>1. ASSUME NEW c \in Commands, Step(c) PROVE OneInFlight'
  BY <1>1, StepFrame DEF OneInFlight
<1>2. ASSUME NEW k \in Calls, Continue(k) PROVE OneInFlight'
  BY <1>2, ContinueFrame DEF OneInFlight
<1>3. ASSUME NEW k \in Calls, NEW c \in Commands, Begin(k, c) PROVE OneInFlight'
  <2>1. MayStart /\ \A j \in Calls : j # k /\ pc'[j] \in InFlight => pc'[j] = pc[j]
    BY <1>3 DEF Begin, commitMutation, commitUpdate, commitIngest, commitUnknownVerb,
                createEntity, ingestArtifact, linkEvidence, rebuildIndex, callDirect,
                CompensateBoth, CompensateThrows, CrashInCompensate, compensateMutation, Goto,
                InFlight, Typed, TypeOK, CallsOK
  <2> QED
    BY <1>0, <2>1 DEF OneInFlight
<1>4. CASE UNCHANGED vars \/ Crash
  BY <1>4, CrashFrame DEF OneInFlight, vars
<1> QED
  BY <1>1, <1>2, <1>3, <1>4 DEF Next

LEMMA SoloCallsKept ==
  ASSUME ~Overlap, SoloInv, [Next]_vars, NEW k \in Calls
  PROVE  /\ pc'[k] \in Running => status'[cmd'[k]] \in {"none", "validated", "approved"}
         /\ pc'[k] = "receipt" => \A r \in receipts' : r.command # cmd'[k]
<1>0. Typed /\ OneInFlight /\ Unexecuted /\ Unreceipted /\ ReceiptProvesExecution
  BY DEF SoloInv, KernelInv
<1>1. CASE UNCHANGED vars
  BY <1>0, <1>1 DEF vars, queue, locals, ledger, Unexecuted, Unreceipted
<1>2. CASE pc[k] \in InFlight /\ Continue(k)
  BY <1>0, <1>2, ContinueFrame DEF Unexecuted
<1>3. CASE Crash
  BY <1>3, CrashFrame DEF InFlight, Running
<1>4. CASE pc[k] \notin InFlight
  <2>1. ASSUME NEW c \in Commands, Step(c) PROVE pc'[k] \notin InFlight
    BY <1>4, <2>1, StepFrame
  <2>2. ASSUME NEW j \in Calls, Continue(j) PROVE pc'[k] \notin InFlight
    BY <1>0, <1>4, <2>2, ContinueFrame
  <2>3. ASSUME NEW j \in Calls, NEW c \in Commands, Begin(j, c), pc'[k] \in InFlight
        PROVE  /\ pc'[k] \in Running => status'[cmd'[k]] \in {"none", "validated", "approved"}
               /\ pc'[k] = "receipt" => \A r \in receipts' : r.command # cmd'[k]
    <3>1. j = k
      BY <1>0, <1>4, <2>3 DEF Begin, commitMutation, commitUpdate, commitIngest,
            commitUnknownVerb, createEntity, ingestArtifact, linkEvidence, rebuildIndex,
            callDirect, CompensateBoth, CompensateThrows, CrashInCompensate,
            compensateMutation, Goto, InFlight, Typed, TypeOK, CallsOK
    <3>2. ASSUME NEW d \in Commands, status[d] = "none", NEW r \in receipts PROVE r.command # d
      BY <1>0, <3>2 DEF ReceiptProvesExecution, Executed
    <3> QED
      BY <1>0, <2>3, <3>1, <3>2, BeginFrame
  <2> QED
    BY <1>1, <1>3, <2>1, <2>2, <2>3 DEF Next, InFlight, Running
<1> QED
  BY <1>0, <1>1, <1>2, <1>3, <1>4, Alone

LEMMA AtMostOneReceiptKept ==
  ASSUME ~Overlap, SoloInv, [Next]_vars
  PROVE  AtMostOneReceipt'
<1>0. Typed /\ OneInFlight /\ Unexecuted /\ Unreceipted /\ ReceiptProvesExecution /\ AtMostOneReceipt
  BY DEF SoloInv, KernelInv
<1>1. ASSUME NEW r \in receipts', r \notin receipts, NEW s \in receipts
      PROVE  r.command # s.command
  <2>1. PICK k \in Calls : r = ReceiptOf(k) /\ UNCHANGED events /\ (SaveCommitted(k) \/ EmitReceipt(k))
    BY <1>0, <1>1, ReceiptStep
  <2>2. r.command = cmd[k]
    BY <2>1 DEF ReceiptOf
  <2>3. CASE SaveCommitted(k)
    BY <1>0, <2>2, <2>3 DEF SaveCommitted, Unexecuted, Running, ReceiptProvesExecution, Executed
  <2>4. CASE EmitReceipt(k)
    BY <1>0, <2>2, <2>4 DEF EmitReceipt, Unreceipted
  <2> QED
    BY <2>1, <2>3, <2>4
<1>2. ASSUME NEW r \in receipts', r \notin receipts, NEW s \in receipts', s \notin receipts
      PROVE  r = s
  <2>1. PICK k \in Calls : r = ReceiptOf(k) /\ (SaveCommitted(k) \/ EmitReceipt(k))
    BY <1>0, <1>2, ReceiptStep
  <2>2. receipts' \subseteq receipts \cup {ReceiptOf(k)}
    BY <2>1 DEF SaveCommitted, EmitReceipt
  <2> QED
    BY <1>2, <2>1, <2>2
<1> QED
  BY <1>0, <1>1, <1>2 DEF AtMostOneReceipt

LEMMA SoloInvInit == Init => SoloInv
  BY KernelInvInit DEF SoloInv, Init, OneInFlight, Unexecuted, Unreceipted, AtMostOneReceipt,
                       InFlight, Running

LEMMA SoloInvStep == ~Overlap /\ SoloInv /\ [Next]_vars => SoloInv'
<1> SUFFICES ASSUME ~Overlap, SoloInv, [Next]_vars PROVE SoloInv'
  OBVIOUS
<1>1. KernelInv'
  BY KernelInvStep DEF SoloInv
<1>2. OneInFlight'
  BY OneInFlightKept DEF SoloInv, KernelInv
<1>3. Unexecuted' /\ Unreceipted'
  BY SoloCallsKept DEF Unexecuted, Unreceipted
<1> QED
  BY <1>1, <1>2, <1>3, AtMostOneReceiptKept DEF SoloInv

LEMMA SoloInvariant == ~Overlap /\ Spec => []SoloInv
<1>1. ~Overlap => (SoloInv /\ [Next]_vars => SoloInv')
  BY SoloInvStep
<1>2. CASE Overlap
  BY <1>2
<1>3. CASE ~Overlap
  <2>1. SoloInv /\ [Next]_vars => SoloInv'
    BY <1>1, <1>3
  <2> QED
    BY <2>1, SoloInvInit, PTL DEF Spec
<1> QED
  BY <1>2, <1>3

(* One half of the command-receipt bijection, for callers that await.       *)
THEOREM AtMostOneReceiptAlways == ~Overlap /\ Spec => []AtMostOneReceipt
<1>1. SoloInv => AtMostOneReceipt
  BY DEF SoloInv
<1>2. CASE Overlap
  BY <1>2
<1>3. CASE ~Overlap
  <2>1. Spec => []SoloInv
    BY <1>3, SoloInvariant
  <2> QED
    BY <1>1, <2>1, PTL
<1> QED
  BY <1>2, <1>3

---------------------------------------------------------------------------
(* The rows of validTransitions() that the kernel uses.                     *)
LEMMA LawMoves ==
  ASSUME NEW c \in Commands, NEW s, SetStatus(c, s),
         \/ status[c] = "proposed"  /\ s \in {"validated", "rejected"}
         \/ status[c] = "validated" /\ s \in {"approved", "committed", "rejected"}
         \/ status[c] = "approved"  /\ s \in {"committed", "rejected"}
  PROVE  Law!Next
<1>1. /\ Law!validTransitions["proposed"]  = {"validated", "rejected"}
      /\ Law!validTransitions["validated"] = {"approved", "committed", "rejected"}
      /\ Law!validTransitions["approved"]  = {"committed", "rejected"}
  BY DEF Law!validTransitions
<1>2. status[c] \in Law!Statuses /\ s \in Law!validTransitions[status[c]]
  BY <1>1 DEF Law!Statuses
<1>3. Law!Move(c)
  BY <1>2 DEF Law!Move, SetStatus
<1> QED
  BY <1>3 DEF Law!Next

LEMMA LawEnters ==
  ASSUME NEW c \in Commands, status[c] = "none", NEW s \in {"proposed", "committed"}, SetStatus(c, s)
  PROVE  Law!Next
  BY DEF SetStatus, Law!Enter, Law!Next

(* Every step of the kernel is a step of the law, or leaves the statuses.   *)
LEMMA LawStep ==
  ASSUME SoloInv, [Next]_vars
  PROVE  [Law!Next]_status
<1>0. Typed /\ Unexecuted
  BY DEF SoloInv, KernelInv
<1>s. ASSUME NEW k \in Calls, pc[k] = "save", SetStatus(cmd[k], "committed") PROVE Law!Next
  <2>1. cmd[k] \in Commands /\ status[cmd[k]] \in {"none", "validated", "approved"}
    BY <1>0, <1>s, CallFacts DEF Unexecuted, Running
  <2> QED
    BY <1>s, <2>1, LawMoves, LawEnters
<1>1. ASSUME NEW c \in Commands, Step(c) PROVE Law!Next \/ UNCHANGED status
  <2>1. CASE proposeMutation(c)
    BY <2>1, LawEnters DEF proposeMutation, Fresh, queue
  <2>2. CASE validateMutation(c)
    BY <2>2, LawMoves DEF validateMutation
  <2>3. CASE approveMutation(c)
    BY <2>3, LawMoves DEF approveMutation
  <2>4. CASE rejectMutation(c)
    BY <2>4, LawMoves DEF rejectMutation
  <2> QED
    BY <1>1, <2>1, <2>2, <2>3, <2>4 DEF Step
<1>2. ASSUME NEW k \in Calls, Continue(k) PROVE Law!Next \/ UNCHANGED status
  BY <1>0, <1>2, <1>s, ContinueFrame
<1>3. ASSUME NEW k \in Calls, NEW c \in Commands, Begin(k, c) PROVE Law!Next \/ UNCHANGED status
  <2>1. ASSUME NEW d \in Commands, compensateMutation(k, c, d),
               status' = [status EXCEPT ![c] = "compensated", ![d] = "committed"]
        PROVE  Law!Next
    BY <2>1 DEF compensateMutation, Fresh, Law!Compensate, Law!Next
  <2>2. ASSUME NEW d \in Commands, compensateMutation(k, c, d), SetStatus(d, "committed")
        PROVE  Law!Next
    BY <2>2, LawEnters DEF compensateMutation, Fresh
  <2>3. ASSUME NEW d \in Commands,
               CompensateBoth(k, c, d) \/ CompensateThrows(k, c, d) \/ CrashInCompensate(k, c, d)
        PROVE  Law!Next \/ UNCHANGED status
    BY <2>1, <2>2, <2>3 DEF CompensateBoth, CompensateThrows, CrashInCompensate
  <2>4. CASE commitUnknownVerb(k, c)
    BY <2>4, LawMoves DEF commitUnknownVerb, BeginCommit, BeginCommitFrom
  <2>5. CASE commitMutation(k, c) \/ commitUpdate(k, c) \/ commitIngest(k, c) \/ createEntity(k, c)
             \/ ingestArtifact(k, c) \/ linkEvidence(k, c) \/ rebuildIndex(k, c)
    BY <2>5 DEF commitMutation, commitUpdate, commitIngest, createEntity, ingestArtifact,
                linkEvidence, rebuildIndex, callDirect
  <2> QED
    BY <1>3, <2>3, <2>4, <2>5 DEF Begin
<1>4. CASE Crash
  BY <1>4, <1>s DEF Crash
<1>5. CASE UNCHANGED vars
  BY <1>5 DEF vars, queue
<1> QED
  BY <1>1, <1>2, <1>3, <1>4, <1>5 DEF Next

(* The kernel of one caller implements the lifecycle law.                   *)
THEOREM KernelImplementsLaw == ~Overlap /\ Spec => LawSpec
<1>1. Init => Law!Init
  BY DEF Init, Law!Init
<1>2. SoloInv /\ [Next]_vars => [Law!Next]_status
  BY LawStep
<1>3. CASE Overlap
  BY <1>3
<1>4. CASE ~Overlap
  <2>1. Spec => []SoloInv
    BY <1>4, SoloInvariant
  <2> QED
    BY <1>1, <1>2, <2>1, PTL DEF Spec, LawSpec, Law!Spec
<1> QED
  BY <1>3, <1>4

---------------------------------------------------------------------------
(***************************************************************************)
(* The lineage of updates, for callers that await every call: whatever      *)
(* fails, and wherever the process is killed.                               *)
(***************************************************************************)
TargetEntity(k) == target[cmd[k]].entity

(* What an update under way has read is still what it read.                 *)
Displacing ==
  \A k \in Calls : pc[k] \in {"parent", "mutate", "index", "record"} /\ verb[cmd[k]] = "update_entity" =>
    /\ pc[k] \in {"parent", "mutate"} => previous[k] = version[TargetEntity(k)]
    /\ pc[k] \in {"index", "record"} => wrote[k] = previous[k] + 1
    /\ pc[k] # "parent" => \A i \in DOMAIN events : events[i].subject = TargetEntity(k) => i <= parent[k]

(* The event of a commit names the command of its call, which is past its   *)
(* store write.                                                             *)
CommitEvents ==
  \A i \in DOMAIN events : events[i].kind = "mutation_committed" =>
    /\ events[i].call \in Calls
    /\ pc[events[i].call] \notin {"idle", "parent", "mutate"}
    /\ events[i].command = cmd[events[i].call]

LineageInv ==
  TracedInv /\ OneInFlight /\ Displacing /\ CommitEvents /\ PreviousIsDisplaced /\ LineageIsChain

(* An event of a commit is appended in the recorded part of its call.       *)
LEMMA CommitEventStep ==
  ASSUME Typed, [Next]_vars, NEW i \in DOMAIN events', i \notin DOMAIN events,
         events'[i].kind = "mutation_committed"
  PROVE  \E k \in Calls : /\ events'[i] = EventOf(k) /\ Continue(k) /\ pc[k] = "record"
                          /\ pc'[k] \in {"save", "orphan"} /\ UNCHANGED <<version, wrote>>
<1>0. CallsOK /\ events \in Seq(Events) /\ events' \in Seq(Events)
  BY TypedStep DEF Typed, TypeOK, LedgerOK
<1>1. ASSUME NEW e, events' = Append(events, e) PROVE events'[i] = e
  BY <1>0, <1>1
<1>2. ASSUME NEW c \in Commands, Step(c) PROVE FALSE
  BY <1>1, <1>2 DEF Step, proposeMutation, validateMutation, approveMutation, rejectMutation,
         recordProvenance, recordProvenanceThrows, LedgerEvent, ledger
<1>3. ASSUME NEW k \in Calls, Continue(k)
      PROVE  events'[i] = EventOf(k) /\ (RecordEvent(k) \/ RecordThrows(k))
  BY <1>1, <1>3 DEF Continue, ReadParent, CreateInStore, UpdateInStore, IngestInStore,
         LinkEvidence, Reindex, MutateThrows, LinkThrows, CreateThrowsLate,
         UpdateThrowsLate, IngestThrowsLate, IndexRecord, RecordEvent, RecordThrows,
         SaveCommitted, SaveThrows, EmitReceipt, recordOrphanMutation,
         recordProvenance, recordProvenanceThrows, LedgerEvent, ledger
<1>4. ASSUME NEW k \in Calls, RecordEvent(k) \/ RecordThrows(k)
      PROVE  pc[k] = "record" /\ pc'[k] \in {"save", "orphan"} /\ UNCHANGED <<version, wrote>>
  BY <1>0, <1>4 DEF RecordEvent, RecordThrows, Goto, stores, locals, CallsOK
<1>5. ASSUME NEW k \in Calls, NEW c \in Commands, Begin(k, c) PROVE FALSE
  <2>1. CASE \E d \in Commands : CompensateBoth(k, c, d)
    <3>1. PICK d \in Commands : CompensateBoth(k, c, d)
      BY <2>1
    <3> DEFINE e == LedgerEvent("command_compensated", d, k, None)
    <3>2. e.kind # "mutation_committed"
      BY DEF LedgerEvent
    <3>3. events' = events \/ events' = Append(events, e)
      BY <3>1 DEF CompensateBoth, recordProvenance, recordProvenanceThrows
    <3> QED
      BY <1>1, <3>2, <3>3
  <2>2. CASE \E d \in Commands : CompensateThrows(k, c, d) \/ CrashInCompensate(k, c, d)
    BY <2>2 DEF CompensateThrows, CrashInCompensate
  <2>3. CASE commitMutation(k, c) \/ commitUpdate(k, c) \/ commitIngest(k, c) \/ commitUnknownVerb(k, c)
    BY <2>3 DEF commitMutation, commitUpdate, commitIngest, commitUnknownVerb, BeginCommit,
         BeginCommitFrom, ledger
  <2>4. CASE createEntity(k, c) \/ ingestArtifact(k, c) \/ linkEvidence(k, c) \/ rebuildIndex(k, c)
    BY <2>4 DEF createEntity, ingestArtifact, linkEvidence, rebuildIndex, callDirect, ledger
  <2> QED
    BY <1>5, <2>1, <2>2, <2>3, <2>4 DEF Begin
<1>6. CASE UNCHANGED vars \/ Crash
  BY <1>6 DEF vars, ledger, Crash
<1> QED
  BY <1>2, <1>3, <1>4, <1>5, <1>6 DEF Next

LEMMA CommitEventsKept ==
  ASSUME TracedInv, CommitEvents, [Next]_vars
  PROVE  CommitEvents'
<1> SUFFICES ASSUME NEW i \in DOMAIN events', events'[i].kind = "mutation_committed"
             PROVE  /\ events'[i].call \in Calls
                    /\ pc'[events'[i].call] \notin {"idle", "parent", "mutate"}
                    /\ events'[i].command = cmd'[events'[i].call]
  BY DEF CommitEvents
<1>0. Typed
  BY DEF TracedInv, KernelInv
<1>1. CASE i \in DOMAIN events
  <2>1. events'[i] = events[i]
    BY <1>0, <1>1, EventsKept
  <2>2. PICK k \in Calls : /\ k = events[i].call /\ pc[k] \notin {"idle", "parent", "mutate"}
                           /\ events[i].command = cmd[k]
    BY <1>1, <2>1 DEF CommitEvents
  <2>3. pc'[k] \notin {"idle", "parent", "mutate"} /\ cmd'[k] = cmd[k]
    BY <1>0, <2>2, CallStep, ContinueCall, BeginCall DEF SameCall, Killed
  <2> QED
    BY <2>1, <2>2, <2>3
<1>2. CASE i \notin DOMAIN events
  <2>1. PICK k \in Calls : events'[i] = EventOf(k) /\ Continue(k) /\ pc'[k] \in {"save", "orphan"}
    BY <1>0, <1>2, CommitEventStep
  <2>2. EventOf(k).call = k /\ EventOf(k).command = cmd[k]
    BY DEF EventOf
  <2> QED
    BY <1>0, <2>1, <2>2, ContinueCall
<1> QED
  BY <1>1, <1>2

(* The last update event of an entity is the one LastOf finds.              *)
LEMMA LastOfIsLast ==
  ASSUME NEW s \in Seq(Events), NEW S \in SUBSET DOMAIN s, NEW i \in S
  PROVE  LastOf(S) \in S /\ i <= LastOf(S)
  BY LastExists DEF LastOf

LEMMA DisplacingKept ==
  ASSUME ~Overlap, TracedInv, OneInFlight, Displacing, [Next]_vars
  PROVE  Displacing'
<1> SUFFICES ASSUME NEW k \in Calls, pc'[k] \in {"parent", "mutate", "index", "record"},
                    verb'[cmd'[k]] = "update_entity"
             PROVE  /\ pc'[k] \in {"parent", "mutate"} => previous'[k] = version'[TargetEntity(k)']
                    /\ pc'[k] \in {"index", "record"} => wrote'[k] = previous'[k] + 1
                    /\ pc'[k] # "parent" =>
                         \A i \in DOMAIN events' : events'[i].subject = TargetEntity(k)' => i <= parent'[k]
  BY DEF Displacing
<1>0. Typed /\ CallsOK /\ StoresOK /\ events \in Seq(Events)
  BY DEF TracedInv, KernelInv, Typed, TypeOK, LedgerOK
<1>1. CASE UNCHANGED vars
  BY <1>1 DEF vars, queue, stores, ledger, locals, Displacing, TargetEntity
<1>2. CASE Continue(k) /\ verb[cmd[k]] = "update_entity"
  <2>1. TargetEntity(k)' = TargetEntity(k) /\ previous' = previous
    BY <1>0, <1>2, ContinueCall DEF TargetEntity
  <2>2. CASE ReadParent(k)
    <3> DEFINE own == {i \in DOMAIN events : events[i].subject = TargetEntity(k)}
    <3>1. /\ parent'[k] = IF own = {} THEN 0 ELSE LastOf(own)
          /\ pc[k] = "parent" /\ pc'[k] = "mutate" /\ version' = version /\ events' = events
      BY <1>0, <2>2 DEF ReadParent, Goto, stores, ledger, CallsOK, TargetEntity
    <3>2. \A i \in own : i <= parent'[k]
      BY <1>0, <3>1, LastOfIsLast
    <3> QED
      BY <1>2, <2>1, <3>1, <3>2 DEF Displacing
  <2>3. CASE UpdateInStore(k)
    <3>1. /\ pc[k] = "mutate" /\ pc'[k] = "index" /\ events' = events /\ parent' = parent
          /\ wrote'[k] = version[TargetEntity(k)] + 1
      BY <1>0, <2>3 DEF UpdateInStore, At, Land, Goto, CallsOK, TargetEntity
    <3> QED
      BY <1>2, <2>1, <3>1 DEF Displacing
  <2>4. CASE IndexRecord(k)
    <3>1. /\ pc[k] = "index" /\ pc'[k] \in {"record", "threw"} /\ events' = events
          /\ parent' = parent /\ wrote' = wrote
      BY <1>0, <2>4 DEF IndexRecord, Goto, ledger, locals, CallsOK
    <3> QED
      BY <1>2, <2>1, <3>1 DEF Displacing
  <2>5. ReadParent(k) \/ UpdateInStore(k) \/ IndexRecord(k)
    BY <1>0, <1>2 DEF Continue, CreateInStore, IngestInStore, LinkEvidence, Reindex, MutateThrows,
         LinkThrows, CreateThrowsLate, UpdateThrowsLate, IngestThrowsLate, RecordEvent,
         RecordThrows, SaveCommitted, SaveThrows, EmitReceipt, recordOrphanMutation, At, Land,
         Goto, CallsOK
  <2> QED
    BY <2>2, <2>3, <2>4, <2>5
<1>3. ASSUME NEW c \in Commands, Begin(k, c)
      PROVE  pc'[k] = "parent" /\ previous'[k] = version'[TargetEntity(k)']
  <2>1. CASE commitUpdate(k, c)
    BY <1>0, <2>1 DEF commitUpdate, BeginCommit, BeginCommitFrom, Goto, stores, CallsOK, TargetEntity
  <2>2. CASE commitMutation(k, c) \/ commitIngest(k, c) \/ commitUnknownVerb(k, c)
    BY <1>0, <2>2 DEF commitMutation, commitIngest, commitUnknownVerb, BeginCommit,
         BeginCommitFrom, CallsOK
  <2>3. CASE createEntity(k, c) \/ ingestArtifact(k, c) \/ linkEvidence(k, c) \/ rebuildIndex(k, c)
    BY <1>0, <2>3 DEF createEntity, ingestArtifact, linkEvidence, rebuildIndex, callDirect,
         CallsOK, Typed, TypeOK, QueueOK
  <2>4. CASE \E d \in Commands : CompensateBoth(k, c, d) \/ CompensateThrows(k, c, d) \/ CrashInCompensate(k, c, d)
    BY <1>0, <2>4 DEF CompensateBoth, CompensateThrows, CrashInCompensate, compensateMutation,
         CallsOK, Typed, TypeOK, QueueOK
  <2> QED
    BY <1>3, <2>1, <2>2, <2>3, <2>4 DEF Begin
<1>4. CASE SameCall(k) /\ pc'[k] = pc[k]
  <2>1. pc[k] \in InFlight
    BY <1>4 DEF InFlight
  <2>2. ~Crash
    BY <1>4, <2>1, CrashFrame
  <2> QED
    BY <1>0, <1>1, <1>2, <2>1, <2>2, Alone, ContinueCall
<1>5. Continue(k) => verb[cmd[k]] = "update_entity"
  BY <1>0, ContinueCall
<1> QED
  BY <1>0, <1>2, <1>3, <1>4, <1>5, CallStep DEF Killed

(* An update that is recorded keeps its verb and what it wrote.             *)
LEMMA UpdateEventStep ==
  ASSUME TracedInv, CommitEvents, [Next]_vars, NEW i \in DOMAIN events', IsUpdate(i)'
  PROVE  \/ /\ i \in DOMAIN events /\ events'[i] = events[i] /\ IsUpdate(i)
            /\ wrote'[events[i].call] = wrote[events[i].call]
         \/ \E k \in Calls : /\ i \notin DOMAIN events
                             /\ events'[i] = EventOf(k) /\ pc[k] = "record" /\ wrote' = wrote
                             /\ verb[cmd[k]] = "update_entity"
<1>0. Typed
  BY DEF TracedInv, KernelInv
<1>1. CASE i \in DOMAIN events
  <2>1. events'[i] = events[i] /\ events[i].kind = "mutation_committed"
    BY <1>0, <1>1, EventsKept DEF IsUpdate
  <2>2. PICK k \in Calls : /\ k = events[i].call /\ pc[k] \notin {"idle", "parent", "mutate"}
                           /\ events[i].command = cmd[k]
    BY <1>1, <2>1 DEF CommitEvents
  <2>3. verb'[cmd[k]] = verb[cmd[k]]
    BY <1>0, <2>2, CallFacts, VerbStep
  <2>4. wrote'[k] = wrote[k]
    BY <1>0, <2>2, CallStep, ContinueCall, BeginCall DEF SameCall
  <2> QED
    BY <1>1, <2>1, <2>2, <2>3, <2>4 DEF IsUpdate
<1>2. CASE i \notin DOMAIN events
  <2>1. PICK k \in Calls : /\ events'[i] = EventOf(k) /\ Continue(k) /\ pc[k] = "record"
                           /\ wrote' = wrote
    BY <1>0, <1>2, CommitEventStep DEF IsUpdate
  <2>2. EventOf(k).command = cmd[k]
    BY DEF EventOf
  <2> QED
    BY <1>0, <1>2, <2>1, <2>2, ContinueCall DEF IsUpdate
<1> QED
  BY <1>1, <1>2

LEMMA PreviousIsDisplacedKept ==
  ASSUME LineageInv, [Next]_vars
  PROVE  PreviousIsDisplaced'
<1> SUFFICES ASSUME NEW i \in DOMAIN events', IsUpdate(i)'
             PROVE  wrote'[events'[i].call] = events'[i].previous + 1
  BY DEF PreviousIsDisplaced
<1>1. ASSUME NEW k \in Calls, events'[i] = EventOf(k), pc[k] = "record", wrote' = wrote,
             verb[cmd[k]] = "update_entity"
      PROVE  wrote'[events'[i].call] = events'[i].previous + 1
  <2>1. EventOf(k).call = k /\ EventOf(k).previous = previous[k]
    BY DEF EventOf
  <2> QED
    BY <1>1, <2>1 DEF LineageInv, Displacing
<1> QED
  BY <1>1, UpdateEventStep DEF LineageInv, PreviousIsDisplaced

LEMMA LineageIsChainKept ==
  ASSUME LineageInv, [Next]_vars
  PROVE  LineageIsChain'
<1> SUFFICES ASSUME NEW i \in DOMAIN events', NEW j \in DOMAIN events', IsUpdate(i)', j < i,
                    events'[j].subject = events'[i].subject
             PROVE  j <= events'[i].parent
  BY DEF LineageIsChain
<1>0. Typed /\ events \in Seq(Events) /\ events' \in Seq(Events)
  BY TypedStep DEF LineageInv, TracedInv, KernelInv, Typed, TypeOK, LedgerOK
<1>j. j \in DOMAIN events /\ events'[j] = events[j]
  <2>1. events' = events \/ \E e \in Events : events' = Append(events, e)
    BY <1>0, EventsStep DEF LineageInv
  <2>2. j \in DOMAIN events
    BY <1>0, <2>1
  <2> QED
    BY <1>0, <2>2, EventsKept DEF LineageInv
<1>1. CASE i \in DOMAIN events /\ events'[i] = events[i] /\ IsUpdate(i)
  BY <1>1, <1>j DEF LineageInv, LineageIsChain
<1>2. ASSUME NEW k \in Calls, events'[i] = EventOf(k), pc[k] = "record", verb[cmd[k]] = "update_entity"
      PROVE  j <= events'[i].parent
  <2>1. EventOf(k).subject = TargetEntity(k) /\ EventOf(k).parent = parent[k]
    BY <1>2 DEF EventOf, SubjectOf, TargetEntity
  <2> QED
    BY <1>2, <1>j, <2>1 DEF LineageInv, Displacing
<1> QED
  BY <1>1, <1>2, UpdateEventStep DEF LineageInv

LEMMA LineageInvariant == ~Overlap /\ Spec => []LineageInv
<1>1. Init => LineageInv
  BY KernelInvInit DEF Init, LineageInv, TracedInv, Began, SavingRecorded, OneInFlight, Displacing,
                       CommitEvents, PreviousIsDisplaced, LineageIsChain, InFlight
<1>2. ASSUME ~Overlap, LineageInv, TracedInv', [Next]_vars PROVE LineageInv'
  <2>1. Typed
    BY <1>2 DEF LineageInv, TracedInv, KernelInv
  <2> QED
    BY <1>2, <2>1, OneInFlightKept, DisplacingKept, CommitEventsKept, PreviousIsDisplacedKept,
       LineageIsChainKept DEF LineageInv
<1>3. CASE Overlap
  BY <1>3
<1>4. CASE ~Overlap
  <2>1. LineageInv /\ TracedInv' /\ [Next]_vars => LineageInv'
    BY <1>2, <1>4
  <2> QED
    BY <1>1, <2>1, TracedInvariant, PTL DEF Spec
<1> QED
  BY <1>3, <1>4

(* The event of an update carries exactly the version that it displaced.    *)
THEOREM PreviousIsDisplacedAlways == ~Overlap /\ Spec => []PreviousIsDisplaced
<1>1. LineageInv => PreviousIsDisplaced
  BY DEF LineageInv
<1>2. CASE Overlap
  BY <1>2
<1>3. CASE ~Overlap
  <2>1. Spec => []LineageInv
    BY <1>3, LineageInvariant
  <2> QED
    BY <1>1, <2>1, PTL
<1> QED
  BY <1>2, <1>3

(* Walking up from an update's event misses no earlier event of its entity. *)
THEOREM LineageIsChainAlways == ~Overlap /\ Spec => []LineageIsChain
<1>1. LineageInv => LineageIsChain
  BY DEF LineageInv
<1>2. CASE Overlap
  BY <1>2
<1>3. CASE ~Overlap
  <2>1. Spec => []LineageInv
    BY <1>3, LineageInvariant
  <2> QED
    BY <1>1, <2>1, PTL
<1> QED
  BY <1>2, <1>3

---------------------------------------------------------------------------
(***************************************************************************)
(* A link can be traced from both of its ends.  What a trace relies on: the *)
(* event of a link is about two objects that are there, a call past its     *)
(* store write has found them, and an executed link has its event.  And the *)
(* stores hold finitely much, each id in one of them, or a walk would find  *)
(* no end or the wrong object.                                              *)
(***************************************************************************)
Held == {e \in Ids : version[e] > 0}

StoresFinite == IsFiniteSet(Held) /\ IsFiniteSet(artifacts) /\ IsFiniteSet(receipts)

IdsHaveOneKind ==
  /\ \A e \in Held : e \in EarlierEntities \/ (e \in Calls /\ landed[e] /\ verb[cmd[e]] = "create_entity")
  /\ \A a \in artifacts : a \in EarlierArtifacts \/ (a \in Calls /\ landed[a] /\ verb[cmd[a]] = "ingest_artifact")

EndsHeld(t) == t.entity \in Held /\ t.artifact \in artifacts

HasLink(k) == \E i \in DOMAIN events : events[i].kind = "evidence_linked" /\ events[i].call = k

IsLinkOf(e, k) ==
  /\ k \in Calls /\ pc[k] # "idle" /\ verb[cmd[k]] = "link_evidence"
  /\ e.subject = target[cmd[k]].entity /\ e.command \in {None, cmd[k]}
  /\ EndsHeld(target[cmd[k]])

LinkEvents == \A i \in DOMAIN events : events[i].kind = "evidence_linked" => IsLinkOf(events[i], events[i].call)

LinkCalls ==
  \A k \in Calls : pc[k] \in {"index", "record", "save"} /\ verb[cmd[k]] = "link_evidence" =>
    /\ pc[k] # "index" /\ EndsHeld(target[cmd[k]])
    /\ op[k] = "commit" \/ pc[k] = "save" => HasLink(k)

LinksExecuted ==
  \A c \in Commands : status[c] \in Executed /\ verb[c] = "link_evidence" =>
    \E k \in Calls : cmd[k] = c /\ HasLink(k)

LinkInv == TracedInv /\ StoresFinite /\ IdsHaveOneKind /\ LinkEvents /\ LinkCalls /\ LinksExecuted

(* Who writes to the stores, whether the write throws afterwards or not.    *)
LEMMA WritesStep ==
  ASSUME Typed, [Next]_vars
  PROVE  \/ version' = version /\ artifacts' = artifacts
         \/ \E k \in Calls : \/ CreateInStore(k) \/ UpdateInStore(k) \/ IngestInStore(k)
                             \/ CreateThrowsLate(k) \/ UpdateThrowsLate(k) \/ IngestThrowsLate(k)
<1> DEFINE Claim == \/ version' = version /\ artifacts' = artifacts
                    \/ \E k \in Calls : \/ CreateInStore(k) \/ UpdateInStore(k) \/ IngestInStore(k)
                                        \/ CreateThrowsLate(k) \/ UpdateThrowsLate(k) \/ IngestThrowsLate(k)
<1>1. ASSUME NEW c \in Commands, Step(c) PROVE Claim
  BY <1>1 DEF Step, proposeMutation, validateMutation, approveMutation, rejectMutation, stores
<1>2. ASSUME NEW j \in Calls, Continue(j) PROVE Claim
  BY <1>2 DEF Continue, ReadParent, LinkEvidence, Reindex, MutateThrows, LinkThrows,
         IndexRecord, RecordEvent, RecordThrows, SaveCommitted, SaveThrows, EmitReceipt,
         recordOrphanMutation, stores
<1>3. ASSUME NEW j \in Calls, NEW c \in Commands, Begin(j, c) PROVE Claim
  BY <1>3 DEF Begin, commitMutation, commitUpdate, commitIngest, commitUnknownVerb,
         BeginCommit, BeginCommitFrom, createEntity, ingestArtifact, linkEvidence,
         rebuildIndex, callDirect, CompensateBoth, CompensateThrows, CrashInCompensate,
         compensateMutation, stores
<1>4. CASE UNCHANGED vars \/ Crash
  BY <1>4 DEF vars, stores, Crash
<1> QED
  BY <1>1, <1>2, <1>3, <1>4 DEF Next

(* A step adds at most one object, which its call creates.                  *)
LEMMA HeldStep ==
  ASSUME Typed, [Next]_vars
  PROVE  \/ Held' = Held /\ artifacts' = artifacts
         \/ \E k \in Calls : /\ Held' = Held \cup {k} /\ artifacts' = artifacts
                             /\ landed'[k] /\ verb'[cmd'[k]] = "create_entity"
         \/ \E k \in Calls : /\ Held' = Held /\ artifacts' = artifacts \cup {k}
                             /\ landed'[k] /\ verb'[cmd'[k]] = "ingest_artifact"
<1>0. Typed /\ CallsOK /\ StoresOK /\ Calls \subseteq Ids
  BY DEF Typed, TypeOK, Ids
<1>1. CASE version' = version /\ artifacts' = artifacts
  BY <1>1 DEF Held
<1>2. ASSUME NEW k \in Calls, CreateInStore(k) \/ CreateThrowsLate(k)
      PROVE  /\ Held' = Held \cup {k} /\ artifacts' = artifacts
             /\ landed'[k] /\ verb'[cmd'[k]] = "create_entity"
  <2>1. version' = [version EXCEPT ![k] = 1] /\ artifacts' = artifacts
    BY <1>2 DEF CreateInStore, CreateThrowsLate
  <2>2. version'[k] = 1 /\ \A e \in Ids : e # k => version'[e] = version[e]
    BY <1>0, <2>1 DEF StoresOK
  <2>3. Held' = Held \cup {k}
    BY <1>0, <2>2 DEF Held
  <2>4. landed'[k] /\ verb'[cmd'[k]] = "create_entity"
    BY <1>0, <1>2 DEF CreateInStore, CreateThrowsLate, Land, At, queue, CallsOK
  <2> QED
    BY <2>1, <2>3, <2>4
<1>3. ASSUME NEW k \in Calls, UpdateInStore(k) \/ UpdateThrowsLate(k)
      PROVE  Held' = Held /\ artifacts' = artifacts
  <2>1. target[cmd[k]].entity \in Ids
    <3>1. pc[k] # "idle" /\ verb[cmd[k]] = "update_entity"
      BY <1>3 DEF UpdateInStore, UpdateThrowsLate, At
    <3> QED
      BY <1>0, <3>1, CallFacts, TargetFacts
  <2>2. PICK t \in Ids, n \in Nat : t = target[cmd[k]].entity /\ n = version[t]
    BY <1>0, <2>1 DEF StoresOK
  <2>3. n > 0 /\ version' = [version EXCEPT ![t] = n + 1] /\ artifacts' = artifacts
    BY <1>0, <1>3, <2>2 DEF UpdateInStore, UpdateThrowsLate, StoresOK
  <2>4. version'[t] = n + 1 /\ \A e \in Ids : e # t => version'[e] = version[e]
    BY <1>0, <2>3 DEF StoresOK
  <2> QED
    BY <2>2, <2>3, <2>4 DEF Held
<1>4. ASSUME NEW k \in Calls, IngestInStore(k) \/ IngestThrowsLate(k)
      PROVE  /\ Held' = Held /\ artifacts' = artifacts \cup {k}
             /\ landed'[k] /\ verb'[cmd'[k]] = "ingest_artifact"
  <2>1. version' = version /\ artifacts' = artifacts \cup {k}
    BY <1>4 DEF IngestInStore, IngestThrowsLate
  <2>2. landed'[k] /\ verb'[cmd'[k]] = "ingest_artifact"
    BY <1>0, <1>4 DEF IngestInStore, IngestThrowsLate, Land, At, queue, CallsOK
  <2> QED
    BY <2>1, <2>2 DEF Held
<1> QED
  BY <1>0, <1>1, <1>2, <1>3, <1>4, WritesStep

LEMMA OneReceiptStep ==
  ASSUME Typed, [Next]_vars
  PROVE  receipts' = receipts \/ \E r : receipts' = receipts \cup {r}
<1>1. receipts \subseteq receipts'
  BY ReceiptsKept
<1>2. CASE \A r \in receipts' : r \in receipts
  BY <1>1, <1>2
<1>3. ASSUME NEW r \in receipts', r \notin receipts PROVE \E s : receipts' = receipts \cup {s}
  <2>1. PICK k \in Calls : SaveCommitted(k) \/ EmitReceipt(k)
    BY <1>3, ReceiptStep
  <2>2. receipts' = receipts \cup {ReceiptOf(k)} \/ receipts' = receipts
    BY <2>1 DEF SaveCommitted, EmitReceipt
  <2> QED
    BY <1>3, <2>2
<1> QED
  BY <1>2, <1>3

LEMMA StoresFiniteKept ==
  ASSUME Typed, StoresFinite, [Next]_vars
  PROVE  StoresFinite'
<1>1. \A S, x : IsFiniteSet(S) => IsFiniteSet(S \cup {x})
  BY FS_AddElement
<1>2. IsFiniteSet(Held)' /\ IsFiniteSet(artifacts')
  BY <1>1, HeldStep DEF StoresFinite
<1>3. IsFiniteSet(receipts')
  BY <1>1, OneReceiptStep DEF StoresFinite
<1> QED
  BY <1>2, <1>3 DEF StoresFinite

LEMMA IdsHaveOneKindKept ==
  ASSUME TracedInv, IdsHaveOneKind, [Next]_vars
  PROVE  IdsHaveOneKind'
<1>0. Typed
  BY DEF TracedInv, KernelInv
<1>1. ASSUME NEW k \in Calls, landed[k] PROVE landed'[k] /\ verb'[cmd'[k]] = verb[cmd[k]]
  BY <1>1, WriteKept
<1>2. \A e \in Held : e \in EarlierEntities \/ (e \in Calls /\ landed'[e] /\ verb'[cmd'[e]] = "create_entity")
  BY <1>1 DEF IdsHaveOneKind
<1>3. \A a \in artifacts : a \in EarlierArtifacts \/ (a \in Calls /\ landed'[a] /\ verb'[cmd'[a]] = "ingest_artifact")
  BY <1>1 DEF IdsHaveOneKind
<1> QED
  BY <1>0, <1>2, <1>3, HeldStep DEF IdsHaveOneKind

LEMMA KindsAreApart ==
  ASSUME IdsHaveOneKind
  PROVE  Held \cap artifacts = {}
  BY KernelAssumption DEF IdsHaveOneKind

(* A call that began keeps its command, with verb and target.               *)
LEMMA CommandKept ==
  ASSUME Typed, [Next]_vars, NEW k \in Calls, pc[k] # "idle"
  PROVE  /\ pc'[k] # "idle" /\ cmd'[k] = cmd[k] /\ op'[k] = op[k]
         /\ verb'[cmd[k]] = verb[cmd[k]] /\ target'[cmd[k]] = target[cmd[k]]
<1>1. cmd[k] \in Commands
  BY CallFacts
<1>2. verb'[cmd[k]] = verb[cmd[k]] /\ target'[cmd[k]] = target[cmd[k]]
  BY <1>1, VerbStep, TargetStep
<1>3. pc'[k] # "idle" /\ cmd'[k] = cmd[k] /\ op'[k] = op[k]
  <2>1. CASE SameCall(k) /\ (pc'[k] = pc[k] \/ Killed(k))
    BY <2>1 DEF SameCall, Killed
  <2>2. CASE Continue(k)
    BY <2>2, ContinueCall
  <2>3. ASSUME NEW c \in Commands, Begin(k, c) PROVE FALSE
    BY <2>3, BeginCall
  <2> QED
    BY <2>1, <2>2, <2>3, CallStep
<1> QED
  BY <1>2, <1>3

LEMMA LinkKept ==
  ASSUME Typed, [Next]_vars, NEW k \in Calls
  PROVE  HasLink(k) => HasLink(k)'
  BY EventsKept DEF HasLink

LEMMA EndsKept ==
  ASSUME Typed, [Next]_vars
  PROVE  \A t : EndsHeld(t) => EndsHeld(t)'
  BY HeldStep DEF EndsHeld

(* The event of a link is appended by its call: at the store write of a     *)
(* commit, or in the recorded part of a direct call.                        *)
Linking(k, e) ==
  \/ /\ pc[k] = "mutate" /\ verb[cmd[k]] = "link_evidence" /\ op[k] = "commit"
     /\ EndsHeld(target[cmd[k]])
     /\ e = LedgerEvent("evidence_linked", None, k, target[cmd[k]].entity)
  \/ pc[k] = "record" /\ e = EventOf(k)

LEMMA LinkWritten ==
  ASSUME Typed, NEW k \in Calls, LinkEvidence(k) \/ LinkThrows(k)
  PROVE  /\ pc[k] = "mutate" /\ verb[cmd[k]] = "link_evidence" /\ EndsHeld(target[cmd[k]])
         /\ LET e == LedgerEvent("evidence_linked", None, k, target[cmd[k]].entity)
            IN events' = events \/ (op[k] = "commit" /\ events' = Append(events, e))
<1>1. pc[k] = "mutate" /\ verb[cmd[k]] = "link_evidence"
  BY DEF LinkEvidence, LinkThrows, At
<1>2. target[cmd[k]].entity \in Ids
  BY <1>1, CallFacts, TargetFacts
<1>3. EndsHeld(target[cmd[k]])
  BY <1>2 DEF LinkEvidence, LinkThrows, EndsHeld, Held
<1>4. LET e == LedgerEvent("evidence_linked", None, k, target[cmd[k]].entity)
      IN events' = events \/ (op[k] = "commit" /\ events' = Append(events, e))
  BY DEF LinkEvidence, LinkThrows, recordProvenance, recordProvenanceThrows
<1> QED
  BY <1>1, <1>3, <1>4

LEMMA LinkEventStep ==
  ASSUME Typed, [Next]_vars, NEW i \in DOMAIN events', i \notin DOMAIN events,
         events'[i].kind = "evidence_linked"
  PROVE  \E k \in Calls : Continue(k) /\ Linking(k, events'[i])
<1>0. CallsOK /\ events \in Seq(Events) /\ events' \in Seq(Events)
  BY TypedStep DEF Typed, TypeOK, LedgerOK
<1>1. ASSUME NEW e, events' = Append(events, e) PROVE events'[i] = e
  BY <1>0, <1>1
<1>2. ASSUME NEW c \in Commands, Step(c) PROVE FALSE
  BY <1>1, <1>2 DEF Step, proposeMutation, validateMutation, approveMutation, rejectMutation,
         recordProvenance, recordProvenanceThrows, LedgerEvent, ledger
<1>3. ASSUME NEW k \in Calls, Continue(k) PROVE Linking(k, events'[i])
  <2>1. CASE LinkEvidence(k) \/ LinkThrows(k)
    BY <1>1, <2>1, LinkWritten DEF Linking
  <2>2. CASE RecordEvent(k) \/ RecordThrows(k)
    BY <1>1, <2>2 DEF RecordEvent, RecordThrows, recordProvenance, recordProvenanceThrows, Linking
  <2>3. CASE ~ (LinkEvidence(k) \/ LinkThrows(k) \/ RecordEvent(k) \/ RecordThrows(k))
    BY <1>1, <1>3, <2>3 DEF Continue, ReadParent, CreateInStore, UpdateInStore, IngestInStore,
         Reindex, MutateThrows, CreateThrowsLate, UpdateThrowsLate, IngestThrowsLate,
         IndexRecord, SaveCommitted, SaveThrows, EmitReceipt, recordOrphanMutation,
         recordProvenance, recordProvenanceThrows, LedgerEvent, ledger
  <2> QED
    BY <2>1, <2>2, <2>3
<1>5. ASSUME NEW k \in Calls, NEW c \in Commands, Begin(k, c) PROVE FALSE
  <2>1. CASE \E d \in Commands : CompensateBoth(k, c, d)
    <3>1. PICK d \in Commands : CompensateBoth(k, c, d)
      BY <2>1
    <3> DEFINE e == LedgerEvent("command_compensated", d, k, None)
    <3>2. e.kind # "evidence_linked"
      BY DEF LedgerEvent
    <3>3. events' = events \/ events' = Append(events, e)
      BY <3>1 DEF CompensateBoth, recordProvenance, recordProvenanceThrows
    <3> QED
      BY <1>1, <3>2, <3>3
  <2>2. CASE \E d \in Commands : CompensateThrows(k, c, d) \/ CrashInCompensate(k, c, d)
    BY <2>2 DEF CompensateThrows, CrashInCompensate
  <2>3. CASE commitMutation(k, c) \/ commitUpdate(k, c) \/ commitIngest(k, c) \/ commitUnknownVerb(k, c)
    BY <2>3 DEF commitMutation, commitUpdate, commitIngest, commitUnknownVerb, BeginCommit,
         BeginCommitFrom, ledger
  <2>4. CASE createEntity(k, c) \/ ingestArtifact(k, c) \/ linkEvidence(k, c) \/ rebuildIndex(k, c)
    BY <2>4 DEF createEntity, ingestArtifact, linkEvidence, rebuildIndex, callDirect, ledger
  <2> QED
    BY <1>5, <2>1, <2>2, <2>3, <2>4 DEF Begin
<1>6. CASE UNCHANGED vars \/ Crash
  BY <1>6 DEF vars, ledger, Crash
<1> QED
  BY <1>2, <1>3, <1>5, <1>6 DEF Next

LEMMA LinkEventsKept ==
  ASSUME Typed, LinkEvents, LinkCalls, [Next]_vars
  PROVE  LinkEvents'
<1> SUFFICES ASSUME NEW i \in DOMAIN events', events'[i].kind = "evidence_linked"
             PROVE  IsLinkOf(events[i], events[i].call)'
  BY DEF LinkEvents
<1>1. CASE i \in DOMAIN events
  <2>1. events'[i] = events[i]
    BY <1>1, EventsKept
  <2>2. PICK k \in Calls : k = events[i].call /\ IsLinkOf(events[i], k)
    BY <1>1, <2>1 DEF LinkEvents, IsLinkOf
  <2>3. /\ pc'[k] # "idle" /\ cmd'[k] = cmd[k]
        /\ verb'[cmd[k]] = verb[cmd[k]] /\ target'[cmd[k]] = target[cmd[k]]
    BY <2>2, CommandKept DEF IsLinkOf
  <2>4. EndsHeld(target[cmd[k]])'
    BY <2>2, <2>3, EndsKept DEF IsLinkOf, EndsHeld
  <2> QED
    BY <2>1, <2>2, <2>3, <2>4 DEF IsLinkOf
<1>2. CASE i \notin DOMAIN events
  <2>1. PICK k \in Calls : Continue(k) /\ Linking(k, events'[i])
    BY <1>2, LinkEventStep
  <2>2. /\ events'[i].call = k /\ pc[k] # "idle" /\ verb[cmd[k]] = "link_evidence"
        /\ events'[i].subject = target[cmd[k]].entity /\ events'[i].command \in {None, cmd[k]}
        /\ EndsHeld(target[cmd[k]])
    <3>1. CASE pc[k] = "record" /\ events'[i] = EventOf(k)
      <4>1. KindOf(k) = "evidence_linked" /\ events'[i].call = k /\ events'[i].command = cmd[k]
            /\ events'[i].subject = SubjectOf(k)
        BY <3>1 DEF EventOf
      <4>2. op[k] # "commit" /\ verb[cmd[k]] = "link_evidence"
        BY <4>1 DEF KindOf
      <4>3. SubjectOf(k) = target[cmd[k]].entity
        BY <4>2 DEF SubjectOf
      <4> QED
        BY <3>1, <4>1, <4>2, <4>3 DEF LinkCalls
    <3>2. CASE pc[k] # "record"
      BY <2>1, <3>2 DEF Linking, LedgerEvent
    <3> QED
      BY <2>1, <3>1, <3>2 DEF Linking
  <2>3. /\ pc'[k] # "idle" /\ cmd'[k] = cmd[k]
        /\ verb'[cmd[k]] = verb[cmd[k]] /\ target'[cmd[k]] = target[cmd[k]]
    BY <2>2, CommandKept
  <2>4. EndsHeld(target[cmd[k]])'
    BY <2>2, <2>3, EndsKept DEF EndsHeld
  <2> QED
    BY <2>2, <2>3, <2>4 DEF IsLinkOf
<1> QED
  BY <1>1, <1>2

(* How the call of a link comes past its store write, and to its save.      *)
LEMMA LinkCallStep ==
  ASSUME Typed, NEW k \in Calls, Continue(k), verb[cmd[k]] = "link_evidence"
  PROVE  /\ pc'[k] = "index" => FALSE
         /\ pc'[k] = "record" => \/ pc[k] = "index"
                                 \/ EndsHeld(target[cmd[k]]) /\ (op[k] = "commit" => HasLink(k)')
         /\ pc'[k] = "save" => pc[k] = "record" /\ (op[k] # "commit" => HasLink(k)')
<1>0. CallsOK /\ events \in Seq(Events)
  BY DEF Typed, TypeOK, LedgerOK
<1>1. CASE LinkEvidence(k)
  <2> DEFINE e == LedgerEvent("evidence_linked", None, k, target[cmd[k]].entity)
  <2>1. pc'[k] = "record" /\ EndsHeld(target[cmd[k]])
    BY <1>0, <1>1, LinkWritten DEF LinkEvidence, Land, Goto, CallsOK
  <2>2. op[k] = "commit" => events' = Append(events, e)
    BY <1>1 DEF LinkEvidence, recordProvenance
  <2>3. e.kind = "evidence_linked" /\ e.call = k
    BY DEF LedgerEvent
  <2>4. events' = Append(events, e) => HasLink(k)'
    <3> HIDE DEF e
    <3> HAVE events' = Append(events, e)
    <3>1. Len(events) + 1 \in DOMAIN events' /\ events'[Len(events) + 1] = e
      BY <1>0
    <3> QED
      BY <2>3, <3>1 DEF HasLink
  <2> QED
    BY <2>1, <2>2, <2>4
<1>2. CASE RecordEvent(k)
  <2>1. pc[k] = "record" /\ pc'[k] = "save" /\ events' = Append(events, EventOf(k))
    BY <1>0, <1>2 DEF RecordEvent, Goto, recordProvenance, CallsOK
  <2>2. op[k] # "commit" => EventOf(k).kind = "evidence_linked" /\ EventOf(k).call = k
    BY DEF EventOf, KindOf
  <2>3. Len(events) + 1 \in DOMAIN events' /\ events'[Len(events) + 1] = EventOf(k)
    BY <1>0, <2>1
  <2> QED
    BY <2>1, <2>2, <2>3 DEF HasLink
<1>3. CASE ~ (LinkEvidence(k) \/ RecordEvent(k))
  BY <1>0, <1>3 DEF Continue, ReadParent, CreateInStore, UpdateInStore, IngestInStore, Reindex,
         MutateThrows, LinkThrows, CreateThrowsLate, UpdateThrowsLate, IngestThrowsLate,
         IndexRecord, RecordThrows, SaveCommitted, SaveThrows, EmitReceipt,
         recordOrphanMutation, At, Land, Goto, CallsOK
<1> QED
  BY <1>1, <1>2, <1>3

LEMMA LinkCallsKept ==
  ASSUME Typed, LinkCalls, [Next]_vars
  PROVE  LinkCalls'
<1> SUFFICES ASSUME NEW k \in Calls, verb'[cmd'[k]] = "link_evidence", pc'[k] \in {"index", "record", "save"}
             PROVE  /\ pc'[k] # "index" /\ EndsHeld(target[cmd[k]])'
                    /\ (op'[k] = "commit" \/ pc'[k] = "save") => HasLink(k)'
  BY DEF LinkCalls
<1>1. ASSUME NEW c \in Commands, Begin(k, c) PROVE FALSE
  BY <1>1, BeginCall
<1>2. CASE Continue(k) \/ (SameCall(k) /\ pc'[k] = pc[k])
  <2>1. pc[k] # "idle"
    BY <1>2, ContinueCall
  <2>2. cmd'[k] = cmd[k] /\ op'[k] = op[k] /\ verb[cmd[k]] = "link_evidence" /\ target'[cmd[k]] = target[cmd[k]]
    BY <2>1, CommandKept
  <2>3. EndsHeld(target[cmd[k]]) => EndsHeld(target[cmd[k]])'
    BY <2>2, EndsKept DEF EndsHeld
  <2>4. HasLink(k) => HasLink(k)'
    BY LinkKept
  <2>5. CASE Continue(k)
    BY <2>2, <2>3, <2>4, <2>5, LinkCallStep, ContinueCall DEF LinkCalls
  <2>6. CASE pc'[k] = pc[k]
    BY <2>2, <2>3, <2>4, <2>6 DEF LinkCalls
  <2> QED
    BY <1>2, <2>5, <2>6
<1> QED
  BY <1>1, <1>2, CallStep DEF Killed

LEMMA LinksExecutedKept ==
  ASSUME Typed, LinkEvents, LinkCalls, LinksExecuted, [Next]_vars
  PROVE  LinksExecuted'
<1> SUFFICES ASSUME NEW c \in Commands, status'[c] \in Executed, verb'[c] = "link_evidence"
             PROVE  \E k \in Calls : cmd'[k] = c /\ HasLink(k)'
  BY DEF LinksExecuted
<1>1. \A k \in Calls : HasLink(k) => pc[k] # "idle"
  BY DEF HasLink, LinkEvents, IsLinkOf
<1>2. CASE status[c] \in Executed
  <2>1. verb[c] = "link_evidence"
    BY <1>2, VerbStep DEF Executed
  <2>2. PICK k \in Calls : cmd[k] = c /\ HasLink(k)
    BY <1>2, <2>1 DEF LinksExecuted
  <2> QED
    BY <1>1, <2>2, CommandKept, LinkKept
<1>3. CASE \E k \in Calls : pc[k] = "save" /\ cmd[k] = c
  <2>1. PICK k \in Calls : pc[k] = "save" /\ cmd[k] = c
    BY <1>3
  <2>2. cmd'[k] = c /\ verb[c] = "link_evidence"
    BY <2>1, CommandKept
  <2>3. HasLink(k)
    BY <2>1, <2>2 DEF LinkCalls
  <2> QED
    BY <2>2, <2>3, LinkKept
<1> QED
  BY <1>2, <1>3, ExecuteStep

LEMMA LinkInvInit == Init => LinkInv
<1> SUFFICES ASSUME Init PROVE LinkInv
  OBVIOUS
<1>1. TracedInv
  BY KernelInvInit DEF Init, TracedInv, Began, SavingRecorded
<1>2. Held = EarlierEntities
  BY DEF Init, Held, Ids
<1>3. StoresFinite
  <2>1. IsFiniteSet(EarlierEntities) /\ IsFiniteSet(EarlierArtifacts)
    BY EarlierIsFinite, FS_Subset
  <2> QED
    BY <1>2, <2>1, FS_EmptySet DEF Init, StoresFinite
<1>4. IdsHaveOneKind
  BY <1>2 DEF Init, IdsHaveOneKind
<1>5. DOMAIN events = {}
  BY DEF Init
<1>6. LinkEvents
  BY <1>5 DEF LinkEvents
<1>7. LinkCalls
  BY DEF Init, LinkCalls
<1>8. LinksExecuted
  BY DEF Init, LinksExecuted, Executed
<1> QED
  BY <1>1, <1>3, <1>4, <1>6, <1>7, <1>8 DEF LinkInv

LEMMA LinkInvariant == Spec => []LinkInv
<1>1. LinkInv /\ TracedInv' /\ [Next]_vars => LinkInv'
  <2> SUFFICES ASSUME LinkInv, TracedInv', [Next]_vars PROVE LinkInv'
    OBVIOUS
  <2>1. Typed
    BY DEF LinkInv, TracedInv, KernelInv
  <2> QED
    BY <2>1, StoresFiniteKept, IdsHaveOneKindKept, LinkEventsKept, LinkCallsKept, LinksExecutedKept
       DEF LinkInv
<1> QED
  BY <1>1, LinkInvInit, TracedInvariant, PTL DEF Spec

(* What the traces are built from.                                          *)
LEMMA RecordsAre ==
  ASSUME Typed, NEW i \in DOMAIN events
  PROVE  /\ EventRecord(i).id = i /\ i \in Nat /\ i # 0
         /\ EventRecord(i).store \in Five /\ EventRecord(i).kind = events[i].kind
<1>1. i \in Nat /\ i # 0
  BY DEF Typed, TypeOK, LedgerOK
<1>2. EventRecord(i).id = i /\ EventRecord(i).kind = events[i].kind
  BY DEF EventRecord
<1>3. EventRecord(i).store \in {"index", "ledger", "artifact", "canonical"}
  BY DEF EventRecord
<1> QED
  BY <1>1, <1>2, <1>3 DEF Five

LEMMA LinkRecords ==
  ASSUME LinkInv, NEW i \in DOMAIN events, events[i].kind = "evidence_linked"
  PROVE  LET t == target[cmd[events[i].call]]
         IN /\ EventRecord(i).subject = t.entity /\ EventRecord(i).artifact = t.artifact
            /\ EndsHeld(t)
<1>1. IsLinkOf(events[i], events[i].call)
  BY DEF LinkInv, LinkEvents
<1>2. events[i].subject # None
  BY <1>1, KernelAssumption DEF IsLinkOf, EndsHeld, Held, Ids
<1> QED
  BY <1>1, <1>2 DEF EventRecord, IsLinkOf

LEMMA LedgerIsLinked ==
  ASSUME LinkInv
  PROVE  IsLinked(Ledger)
<1> DEFINE g == Ledger
           ReceiptRecord(r) == [id |-> r, event |-> r.event, affected |-> AffectedIds(r)]
<1>0. Typed /\ StoresFinite /\ IdsHaveOneKind
  BY DEF LinkInv, TracedInv, KernelInv
<1>1. /\ g.entities = Held /\ g.artifacts = artifacts /\ g.index = {}
      /\ g.events = {EventRecord(i) : i \in DOMAIN events}
      /\ g.receipts = {ReceiptRecord(r) : r \in receipts}
  BY DEF Ledger, Held
<1> HIDE DEF g
<1>2. IsFiniteSet(g.entities) /\ IsFiniteSet(g.artifacts) /\ IsFiniteSet(g.index)
  BY <1>0, <1>1, FS_EmptySet DEF StoresFinite
<1>3. IsFiniteSet(g.events)
  <2> DEFINE f == [i \in DOMAIN events |-> EventRecord(i)]
  <2>1. IsFiniteSet(DOMAIN events)
    <3>1. DOMAIN events = 1..Len(events) /\ Len(events) \in Nat
      BY <1>0 DEF Typed, TypeOK, LedgerOK
    <3> QED
      BY <3>1, FS_Interval
  <2>2. DOMAIN f = DOMAIN events /\ \A i \in DOMAIN events : f[i] = EventRecord(i)
    OBVIOUS
  <2> HIDE DEF f
  <2>3. IsFiniteSet({f[i] : i \in DOMAIN events})
    BY <2>1, <2>2, ImageIsFinite
  <2>4. {f[i] : i \in DOMAIN events} = {EventRecord(i) : i \in DOMAIN events}
    BY <2>2
  <2> QED
    BY <1>1, <2>3, <2>4
<1>4. IsFiniteSet(g.receipts)
  <2> DEFINE f == [r \in receipts |-> ReceiptRecord(r)]
  <2>1. DOMAIN f = receipts /\ \A r \in receipts : f[r] = ReceiptRecord(r)
    OBVIOUS
  <2> HIDE DEF f, ReceiptRecord
  <2>2. IsFiniteSet({f[r] : r \in receipts})
    BY <1>0, <2>1, ImageIsFinite DEF StoresFinite
  <2>3. {f[r] : r \in receipts} = {ReceiptRecord(r) : r \in receipts}
    BY <2>1
  <2> QED
    BY <1>1, <2>2, <2>3
<1>5. \A e \in g.events : e.id \in Nat /\ e.id # 0 /\ e.store \in Five
  BY <1>0, <1>1, RecordsAre
<1>6. \A e, f \in g.events : e.id = f.id => e = f
  BY <1>0, <1>1, RecordsAre
<1>7. \A q, r \in g.receipts : q.id = r.id => q = r
  BY <1>1
<1>8. StoresAre(g)
  BY <1>1, <1>2, <1>3, <1>4, <1>5, <1>6, <1>7 DEF StoresAre
<1>9. g.entities \cap g.artifacts = {}
  BY <1>0, <1>1, KindsAreApart
<1>10. \A l \in Links(g.events) : l.subject \in g.entities /\ l.artifact \in g.artifacts
  <2> TAKE l \in Links(g.events)
  <2>1. PICK i \in DOMAIN events : l = EventRecord(i)
    BY <1>1 DEF Links
  <2>2. events[i].kind = "evidence_linked"
    BY <1>0, <2>1, RecordsAre DEF Links
  <2> QED
    BY <1>1, <2>1, <2>2, LinkRecords DEF EndsHeld
<1> QED
  BY <1>1, <1>8, <1>9, <1>10 DEF IsLinked, g

(* An executed link has its event among those that the traces look at.      *)
LEMMA LinkedHasLink ==
  ASSUME LinkInv, NEW c \in Linked
  PROVE  \E l \in Links(Ledger.events) : l.subject = target[c].entity /\ l.artifact = target[c].artifact
<1>1. PICK k \in Calls : cmd[k] = c /\ HasLink(k)
  BY DEF Linked, LinkInv, LinksExecuted
<1>2. PICK i \in DOMAIN events : events[i].kind = "evidence_linked" /\ events[i].call = k
  BY <1>1 DEF HasLink
<1>3. EventRecord(i).subject = target[c].entity /\ EventRecord(i).artifact = target[c].artifact
  BY <1>1, <1>2, LinkRecords
<1>4. EventRecord(i) \in Links(Ledger.events)
  <2>1. EventRecord(i) \in Ledger.events
    BY DEF Ledger
  <2>2. EventRecord(i).kind = "evidence_linked"
    BY <1>2, RecordsAre DEF LinkInv, TracedInv, KernelInv
  <2> QED
    BY <2>1, <2>2 DEF Links
<1> QED
  BY <1>3, <1>4

(* The receipt of a link is about both of its ends, and its event is there. *)
LEMMA LinkedReceipts ==
  ASSUME LinkInv, NEW c \in Linked, NEW r \in receipts, r.command = c
  PROVE  \E q \in Ledger.receipts :
           /\ q.id = r /\ q.event = r.event
           /\ {target[c].entity, target[c].artifact} \subseteq q.affected
           /\ \E e \in Ledger.events : q.event = e.id
<1> DEFINE q == [id |-> r, event |-> r.event, affected |-> AffectedIds(r)]
<1>1. q \in Ledger.receipts
  BY DEF Ledger
<1>2. verb[c] = "link_evidence"
  BY DEF Linked
<1>3. AffectedIds(r) = {target[c].artifact, target[c].entity}
  BY <1>2 DEF AffectedIds
<1>4. r.event \in DOMAIN events
  BY DEF LinkInv, TracedInv, KernelInv, ReceiptProvesExecution
<1>5. EventRecord(r.event) \in Ledger.events /\ EventRecord(r.event).id = r.event
  BY <1>4 DEF Ledger, EventRecord
<1> QED
  BY <1>1, <1>3, <1>5

LEMMA LinksTraceable ==
  ASSUME LinkInv, NEW c \in Linked
  PROVE  Traceable(c)
<1> DEFINE g        == Ledger
           entity   == <<"canonical", target[c].entity>>
           artifact == <<"artifact", target[c].artifact>>
           answer   == why(g, entity)
           forth    == traceObject(g, artifact, Options("forward", 10))
           both     == traceObject(g, entity, Options("bidirectional", 10))
           back     == traceObject(g, entity, Options("backward", 10))
           bundle   == traceBundle(g, <<entity, artifact>>, Options("backward", 10))
           Receipt(r) == traceObject(g, <<"receipt", r>>, Options("bidirectional", 10))
<1>1. IsLinked(g)
  BY LedgerIsLinked
<1>2. PICK l \in Links(g.events) : l.subject = target[c].entity /\ l.artifact = target[c].artifact
  BY LinkedHasLink
<1>3. StoresAre(g) /\ l.subject \in g.entities /\ l.artifact \in g.artifacts
  BY <1>1 DEF IsLinked
<1>4. entity = <<"canonical", l.subject>> /\ artifact = <<"artifact", l.artifact>>
  BY <1>2
<1>5. \A d : Options(d, 10).depth = 10 /\ Options(d, 10).direction = d
  BY DEF Options
<1>6. /\ Backward(Options("bidirectional", 10)) /\ Forward(Options("bidirectional", 10))
      /\ Forward(Options("forward", 10))
  BY <1>5 DEF Backward, Forward
<1>7. \A r \in {x \in receipts : x.command = c} : \E q \in g.receipts :
        /\ q.id = r /\ q.event = r.event /\ {l.subject, l.artifact} \subseteq q.affected
        /\ \E e \in g.events : q.event = e.id
  BY <1>2, LinkedReceipts
<1> HIDE DEF g
<1>8. entity \in Owned(g) /\ artifact \in Owned(g)
  BY <1>3, <1>4 DEF Owned
<1>9. entity \in Objects(g) /\ artifact \in Objects(g)
  BY <1>1, <1>8, OwnedAre
<1> HIDE DEF entity, artifact
<1>10. /\ artifact \in answer.links /\ \A gap \in answer.gaps : gap.warning # "none"
       /\ \A r \in g.receipts : l.subject \in r.affected => <<"receipt", r.id>> \in answer.receipts
  BY <1>1, <1>4, WhyShows
<1>11. ASSUME NEW r \in receipts, r.command = c
       PROVE  /\ <<"receipt", r>> \in answer.receipts
              /\ {Node(EventUri(r.event)), Node(entity), Node(artifact)} \subseteq Receipt(r).nodes
  <2>1. PICK q \in g.receipts : /\ q.id = r /\ q.event = r.event /\ {l.subject, l.artifact} \subseteq q.affected
                                /\ \E e \in g.events : q.event = e.id
    BY <1>7, <1>11
  <2>2. PICK e \in g.events : q.event = e.id
    BY <2>1
  <2>3. <<"receipt", r>> \in answer.receipts
    BY <1>10, <2>1
  <2> DEFINE o == Options("bidirectional", 10)
  <2>4. Backward(o) /\ Forward(o) /\ o.depth \in Nat /\ o.depth >= 2
    BY <1>5, <1>6
  <2> HIDE DEF o
  <2>5. {Node(EventUri(q.event)), Node(<<"canonical", l.subject>>), Node(<<"artifact", l.artifact>>)}
          \subseteq traceObject(g, <<"receipt", q.id>>, o).nodes
    BY <1>1, <2>1, <2>2, <2>4, ReceiptShows
  <2> QED
    BY <1>4, <2>1, <2>3, <2>5 DEF o
<1>12. {Node(entity), Node(artifact)} \subseteq forth.nodes /\ Edge(artifact, entity, "evidence_linked_to") \in forth.edges
  <2> DEFINE o == Options("forward", 10)
  <2>1. Forward(o) /\ o.depth \in Nat /\ o.depth >= 2
    BY <1>5, <1>6
  <2> HIDE DEF o
  <2> QED
    BY <1>1, <1>4, <2>1, ForthShows DEF o
<1>13. resolveAll(g, <<entity, artifact>>)
  <2>1. resolve(g, entity) /\ resolve(g, artifact)
    BY <1>9, ObjectsResolve
  <2>2. \A n \in DOMAIN <<entity, artifact>> : n = 1 \/ n = 2
    OBVIOUS
  <2> QED
    BY <2>1, <2>2 DEF resolveAll
<1>14. \A n \in both.nodes \cup forth.nodes : n.isGap <=> ~ resolve(g, n.uri)
  BY <1>3, <1>5, <1>9, GapsDoNotResolve
<1>15. bundle.nodes = back.nodes /\ bundle.edges = back.edges /\ bundle.gaps = back.gaps
  <2> DEFINE o == Options("backward", 10)
  <2>1. o.direction = "backward" /\ o.depth \in Nat /\ o.depth >= 2
    BY <1>5
  <2> HIDE DEF o
  <2> QED
    BY <1>1, <1>4, <2>1, BundleIs DEF o
<1>16. Cardinality(g.entities) + Cardinality(g.artifacts) <= 10 =>
         [nodes |-> Uris(both), edges |-> both.edges, gaps |-> both.gaps]
           = Closure(g, Options("bidirectional", 10), entity)
  <2> DEFINE o == Options("bidirectional", 10)
  <2>1. o.depth = 10 /\ o.depth \in Nat
    BY <1>5
  <2> HIDE DEF o
  <2> HAVE Cardinality(g.entities) + Cardinality(g.artifacts) <= 10
  <2>2. LET t == traceObject(g, entity, o)
        IN [nodes |-> {n.uri : n \in t.nodes}, edges |-> t.edges, gaps |-> t.gaps] = Closure(g, o, entity)
    BY <1>1, <1>8, <2>1, DepthSuffices
  <2> QED
    BY <2>2 DEF Uris, o
<1> HIDE DEF answer, forth, both, back, bundle, Receipt
<1>17. <<bundle.nodes, bundle.edges, bundle.gaps>> = <<back.nodes, back.edges, back.gaps>>
  BY <1>15
<1>18. \A r \in {x \in receipts : x.command = c} :
         /\ <<"receipt", r>> \in answer.receipts
         /\ {Node(EventUri(r.event)), Node(entity), Node(artifact)} \subseteq Receipt(r).nodes
  BY <1>11
<1> QED
  BY <1>10, <1>12, <1>13, <1>14, <1>16, <1>17, <1>18
  DEF Traceable, g, entity, artifact, answer, forth, both, back, bundle, Receipt

(* Whichever way evidence was linked, and whatever failed, crashed or       *)
(* overlapped since: the traces show the link from both ends, and nothing   *)
(* that is not there.                                                       *)
THEOREM LinkIsTraceableAlways == Spec => []LinkIsTraceable
<1>1. LinkInv => LinkIsTraceable
  BY LinksTraceable DEF LinkIsTraceable
<1> QED
  BY <1>1, LinkInvariant, PTL

(* And this while calls are in flight, too: a trace needs no quiet moment.  *)
THEOREM LinkIsTraceableThroughout == Spec => [](\A c \in Linked : Traceable(c))
<1>1. LinkInv => \A c \in Linked : Traceable(c)
  BY LinksTraceable
<1> QED
  BY <1>1, LinkInvariant, PTL
=============================================================================
