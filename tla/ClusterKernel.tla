--------------------------- MODULE ClusterKernel ---------------------------
(***************************************************************************)
(* One ClusterKernel over its four stores and a dataDir: the command queue, *)
(* the staging area pending-content/, the canonical and artifact stores,    *)
(* the ledger.  JavaScript runs a method to its next await, so a step here  *)
(* is what one call does between two awaits; calls in flight interleave     *)
(* at those points.  A store call takes effect in a step of its own: the    *)
(* local and sqlite adapters run at once, PostgresCanonicalStore later.     *)
(*                                                                          *)
(* Data is abstracted to what the properties tell apart: an entity is its   *)
(* latest version number, an artifact its existence, content its hash.  The *)
(* entity or artifact that a call creates is named after the call.          *)
(***************************************************************************)
EXTENDS Naturals, Sequences

CONSTANTS
  Commands,   \* command ids
  Calls,      \* calls with several awaits: commits, compensations, direct verbs
  Contents,   \* sha256 hashes of artifact contents
  EarlierEntities, EarlierArtifacts,  \* what an earlier session left in the two stores
  None,       \* no call, no command, no entity
  Proposable, \* bound: the commands that may be proposed; the others are
              \* ids for the synthetic and compensating commands of calls
  Offered,    \* the verbs that are proposed
  Direct,     \* the verbs that are called directly
  Overlap,    \* TRUE iff a call may start while another is in flight
  Faulty,     \* the parts of the system whose writes may throw
  MayCrash    \* TRUE iff the process may be killed and restarted

Verbs == {"create_entity", "update_entity", "ingest_artifact", "link_evidence",
          "reindex", "propose_mutation", "compensate"}

ASSUME KernelAssumption ==
  /\ None \notin Commands \cup Calls \cup Contents \cup EarlierEntities \cup EarlierArtifacts
  /\ Calls \cap (EarlierEntities \cup EarlierArtifacts) = {}
  /\ EarlierEntities \cap EarlierArtifacts = {}
  /\ Proposable \subseteq Commands
  /\ Offered \subseteq Verbs
  /\ Direct \subseteq {"create_entity", "ingest_artifact", "link_evidence", "reindex"}
  /\ Overlap \in BOOLEAN
  /\ MayCrash \in BOOLEAN
  /\ Faulty \subseteq {"canonical", "artifact", "index", "ledger", "queue"}

VARIABLES
  status,     \* the command queue: command -> status, "none" if it has no record
  verb,       \* command -> verb
  target,     \* command -> the entity, artifact and content its payload names
  valid,      \* command -> whether its payload passes validateCommand
  pending,    \* pending-content/: the hashes that have a staging file
  version,    \* canonical store: entity -> latest version, 0 if absent
  artifacts,  \* artifact store: the artifacts it holds
  events,     \* ledger: provenance events in append order
  receipts,   \* ledger: receipts
  pc,         \* call -> where it is, or how it ended
  op,         \* call -> the kernel method it is a call of
  cmd,        \* call -> its command: committed, synthetic or compensating
  previous,   \* call -> version an update read before displacing it
  parent,     \* call -> position of the event an update chains to, 0 for none
  wrote,      \* call -> version an update or create wrote
  landed,     \* call -> whether its store write took effect (ghost)
  event,      \* call -> position of its provenance event
  stderr      \* calls whose orphan record went to stderr only

queue  == <<status, verb, target, valid>>
stores == <<version, artifacts>>
ledger == <<events, receipts>>
locals == <<op, cmd, previous, parent, wrote, landed, event>>
vars   == <<queue, pending, stores, ledger, pc, locals, stderr>>

InFlight == {"parent", "mutate", "index", "record", "save", "receipt", "orphan"}
Ended    == {"done", "threw", "tampered", "receiptFailed", "crashed"}

(* A call names what it creates.                                            *)
Ids == Calls \cup EarlierEntities \cup EarlierArtifacts

(* What a payload names: only the references that its verb has.  An id of   *)
(* the other kind is not found, no more than that of a call to come.        *)
Targets == [entity : Calls \cup EarlierEntities \cup {None}, artifact : Calls \cup EarlierArtifacts \cup {None},
            content : Contents \cup {None}]

TargetsOf(v) ==
  {t \in Targets : /\ t.entity # None   <=> v \in {"update_entity", "link_evidence"}
                   /\ t.artifact # None <=> v = "link_evidence"
                   /\ t.content # None  <=> v = "ingest_artifact"}

EventKinds == {"command_approved", "command_rejected", "command_compensated",
               "entity_created", "artifact_ingested", "evidence_linked",
               "index_rebuilt", "mutation_committed", "mutation_orphaned"}

RecordKinds == {"entity_created", "artifact_ingested", "evidence_linked",
                "index_rebuilt", "mutation_committed"}

(* subject is None where the subject is no entity or artifact.  The event   *)
(* of a direct verb does not name its synthetic command in the code (the    *)
(* receipt ties the two); here it does, and call says whose event it is.    *)
Events == [kind : EventKinds, command : Commands \cup {None}, call : Calls \cup {None},
           subject : Ids \cup {None}, parent : Nat, previous : Nat]

Receipts == [command : Commands, event : Nat, call : Calls]

CanFail(part) == part \in Faulty

Executed == {"committed", "compensated"}

(* A process that opens the dataDir: the stores may hold what an earlier    *)
(* session wrote, with its events rotated away into a ledger archive.       *)
Init ==
  /\ status    = [c \in Commands |-> "none"]
  /\ verb      = [c \in Commands |-> "none"]
  /\ target    = [c \in Commands |-> None]
  /\ valid     = [c \in Commands |-> FALSE]
  /\ pending   = {}
  /\ version   = [e \in Ids |-> IF e \in EarlierEntities THEN 1 ELSE 0]
  /\ artifacts = EarlierArtifacts
  /\ events    = <<>>
  /\ receipts  = {}
  /\ pc        = [k \in Calls |-> "idle"]
  /\ op        = [k \in Calls |-> "none"]
  /\ cmd       = [k \in Calls |-> None]
  /\ previous  = [k \in Calls |-> 0]
  /\ parent    = [k \in Calls |-> 0]
  /\ wrote     = [k \in Calls |-> 0]
  /\ landed    = [k \in Calls |-> FALSE]
  /\ event     = [k \in Calls |-> 0]
  /\ stderr    = {}

(* A caller that awaits every call before the next never overlaps them.     *)
MayStart == Overlap \/ \A k \in Calls : pc[k] \notin InFlight

(* ids are random: a command id is fresh until some call or proposal has it *)
Fresh(c) == status[c] = "none" /\ \A k \in Calls : cmd[k] # c

SetStatus(c, s) == status' = [status EXCEPT ![c] = s]
Goto(k, where)  == pc' = [pc EXCEPT ![k] = where]

(***************************************************************************)
(* The ledger.  An append either succeeds or throws; one that throws may    *)
(* have left its record (LocalLedgerStore adds it to memory before the file *)
(* write, and a file write can land although its fsync throws).             *)
(***************************************************************************)
LedgerEvent(kind, c, k, subject) ==
  [kind |-> kind, command |-> c, call |-> k, subject |-> subject,
   parent |-> 0, previous |-> 0]

recordProvenance(e) == events' = Append(events, e)

recordProvenanceThrows(e) ==
  /\ CanFail("ledger")
  /\ events' = events \/ events' = Append(events, e)

ReceiptOf_Unknown(k) == [command |-> None, event |-> event[k], call |-> k]

ReceiptOf(k) == [command |-> cmd[k], event |-> event[k], call |-> k]

(***************************************************************************)
(* The command verbs without an await between their read and their save.    *)
(***************************************************************************)

(* proposeMutation stages the bytes of an ingest, then saves the command.   *)
(* If the save throws the staging file stays behind.                        *)
proposeMutation(c) ==
  /\ c \in Proposable
  /\ MayStart
  /\ Fresh(c)
  /\ \E v \in Offered, ok \in BOOLEAN : \E t \in TargetsOf(v) :
       /\ pending' = IF v = "ingest_artifact" THEN pending \cup {t.content} ELSE pending
       /\ \/ /\ SetStatus(c, "proposed")
             /\ verb'   = [verb EXCEPT ![c] = v]
             /\ target' = [target EXCEPT ![c] = t]
             /\ valid'  = [valid EXCEPT ![c] = ok]
          \/ CanFail("queue") /\ UNCHANGED queue
  /\ UNCHANGED <<stores, ledger, pc, locals, stderr>>

(* The save of the validated command stands inside the try whose catch      *)
(* marks the command rejected: if it throws, a valid command is rejected.   *)
validateMutation(c) ==
  /\ MayStart
  /\ status[c] = "proposed"
  /\ \/ valid[c] /\ SetStatus(c, "validated")
     \/ ~valid[c] /\ SetStatus(c, "rejected")
     \/ valid[c] /\ CanFail("queue") /\ SetStatus(c, "rejected")
  /\ UNCHANGED <<verb, target, valid, pending, stores, ledger, pc, locals, stderr>>

(* The status is saved before the event is appended, which may throw.       *)
approveMutation(c) ==
  /\ MayStart
  /\ status[c] = "validated"
  /\ SetStatus(c, "approved")
  /\ LET e == LedgerEvent("command_approved", c, None, None)
     IN  recordProvenance(e) \/ recordProvenanceThrows(e)
  /\ UNCHANGED <<verb, target, valid, pending, stores, receipts, pc, locals, stderr>>

(* markRejected, which has no guard, in place of rejectCommand.             *)
rejectMutation_AnyStatus(c) ==
  /\ MayStart
  /\ status[c] # "none"
  /\ SetStatus(c, "rejected")
  /\ recordProvenance(LedgerEvent("command_rejected", c, None, None))
  /\ UNCHANGED <<verb, target, valid, pending, stores, receipts, pc, locals, stderr>>

rejectMutation(c) ==
  /\ MayStart
  /\ status[c] \in {"proposed", "validated", "approved"}
  /\ SetStatus(c, "rejected")
  /\ pending' = IF verb[c] = "ingest_artifact" THEN pending \ {target[c].content} ELSE pending
  /\ LET e == LedgerEvent("command_rejected", c, None, None)
     IN  recordProvenance(e) \/ recordProvenanceThrows(e)
  /\ UNCHANGED <<verb, target, valid, stores, receipts, pc, locals, stderr>>

(***************************************************************************)
(* commitMutation: the status check and the first read of its verb's arm.   *)
(***************************************************************************)
BeginCommitFrom(committable, k, c) ==
  /\ pc[k] = "idle"
  /\ status[c] \in committable
  /\ op'  = [op EXCEPT ![k] = "commit"]
  /\ cmd' = [cmd EXCEPT ![k] = c]
  /\ UNCHANGED <<verb, target, valid, pending, stores, ledger, parent, wrote, landed, event, stderr>>

BeginCommit_Again(k, c)    == BeginCommitFrom({"validated", "approved", "committed"}, k, c)
BeginCommit_Proposed(k, c) == BeginCommitFrom({"proposed", "validated", "approved"}, k, c)

BeginCommit(k, c) == BeginCommitFrom({"validated", "approved"}, k, c)

commitMutation(k, c) ==
  /\ MayStart
  /\ verb[c] \in {"create_entity", "link_evidence", "reindex"}
  /\ BeginCommit(k, c)
  /\ Goto(k, "mutate")
  /\ UNCHANGED <<status, previous>>

commitUpdate_NoSnapshot(k, c) ==
  /\ MayStart
  /\ verb[c] = "update_entity"
  /\ BeginCommit(k, c)
  /\ Goto(k, "parent")
  /\ UNCHANGED <<status, previous>>

(* An update reads the version it is about to displace.                     *)
commitUpdate(k, c) ==
  /\ MayStart
  /\ verb[c] = "update_entity"
  /\ BeginCommit(k, c)
  /\ previous' = [previous EXCEPT ![k] = version[target[c].entity]]
  /\ Goto(k, "parent")
  /\ UNCHANGED status

(* An ingest reads its staging file; nobody outside the kernel touches it.  *)
commitIngest(k, c) ==
  /\ MayStart
  /\ verb[c] = "ingest_artifact"
  /\ BeginCommit(k, c)
  /\ Goto(k, IF target[c].content \in pending THEN "mutate" ELSE "tampered")
  /\ UNCHANGED <<status, previous>>

(* The default arm: a verb without an arm of its own is rejected.           *)
commitUnknownVerb(k, c) ==
  /\ MayStart
  /\ verb[c] \in {"propose_mutation", "compensate"}
  /\ BeginCommit(k, c)
  /\ Goto(k, "threw")
  /\ SetStatus(c, "rejected") \/ (CanFail("queue") /\ UNCHANGED status)
  /\ UNCHANGED previous

(* listEvents({subjectId}) is in append order and the parent is its last.   *)
LastOf_First(own) == CHOOSE i \in own : \A j \in own : i <= j

LastOf(own) == CHOOSE i \in own : \A j \in own : j <= i

ReadParent(k) ==
  /\ pc[k] = "parent"
  /\ LET own == {i \in DOMAIN events : events[i].subject = target[cmd[k]].entity}
     IN  parent' = [parent EXCEPT ![k] = IF own = {} THEN 0 ELSE LastOf(own)]
  /\ Goto(k, "mutate")
  /\ UNCHANGED <<queue, pending, stores, ledger, op, cmd, previous, wrote, landed, event, stderr>>

(***************************************************************************)
(* createEntity, ingestArtifact, linkEvidence, rebuildIndex: the call mints *)
(* a synthetic command, saved only after its event.                         *)
(***************************************************************************)
callDirect(k, c, v) ==
  /\ MayStart
  /\ v \in Direct
  /\ pc[k] = "idle"
  /\ Fresh(c)
  /\ \E t \in TargetsOf(v) : target' = [target EXCEPT ![c] = t]
  /\ verb'  = [verb EXCEPT ![c] = v]
  /\ valid' = [valid EXCEPT ![c] = TRUE]
  /\ op'    = [op EXCEPT ![k] = "direct"]
  /\ cmd'   = [cmd EXCEPT ![k] = c]
  /\ Goto(k, "mutate")
  /\ UNCHANGED <<status, pending, stores, ledger, previous, parent, wrote, landed, event, stderr>>

createEntity(k, c)   == callDirect(k, c, "create_entity")
ingestArtifact(k, c) == callDirect(k, c, "ingest_artifact")
linkEvidence(k, c)   == callDirect(k, c, "link_evidence")
rebuildIndex(k, c)   == callDirect(k, c, "reindex")

(***************************************************************************)
(* The store write of a commit or of a direct verb, then the index write.   *)
(***************************************************************************)
At(k, where, v) == pc[k] = where /\ verb[cmd[k]] = v

Land(k, where) ==
  /\ landed' = [landed EXCEPT ![k] = TRUE]
  /\ Goto(k, where)
  /\ UNCHANGED <<queue, pending, receipts, op, cmd, previous, parent, event, stderr>>

CreateInStore(k) ==
  /\ At(k, "mutate", "create_entity")
  /\ version' = [version EXCEPT ![k] = 1]
  /\ wrote'   = [wrote EXCEPT ![k] = 1]
  /\ Land(k, "index")
  /\ UNCHANGED <<artifacts, events>>

UpdateInStore(k) ==
  LET e == target[cmd[k]].entity
  IN  /\ At(k, "mutate", "update_entity")
      /\ version[e] > 0
      /\ version' = [version EXCEPT ![e] = @ + 1]
      /\ wrote'   = [wrote EXCEPT ![k] = version[e] + 1]
      /\ Land(k, "index")
      /\ UNCHANGED <<artifacts, events>>

IngestInStore(k) ==
  /\ At(k, "mutate", "ingest_artifact")
  /\ artifacts' = artifacts \cup {k}
  /\ Land(k, "index")
  /\ UNCHANGED <<version, events, wrote>>

(* The commit arm of link_evidence appends evidence_linked inside the       *)
(* switch; linkEvidence appends it as its own event, inside its try.        *)
LinkEvidence(k) ==
  LET t == target[cmd[k]]
  IN  /\ At(k, "mutate", "link_evidence")
      /\ t.artifact \in artifacts /\ version[t.entity] > 0
      /\ \/ op[k] = "direct" /\ UNCHANGED events
         \/ /\ op[k] = "commit"
            /\ recordProvenance(LedgerEvent("evidence_linked", None, k, t.entity))
      /\ Land(k, "record")
      /\ UNCHANGED <<stores, wrote>>

(* performIndexRebuild                                                      *)
Reindex(k) ==
  /\ At(k, "mutate", "reindex")
  /\ Land(k, "record")
  /\ UNCHANGED <<stores, events, wrote>>

(* A reference does not resolve, or the write is refused: the raw error     *)
(* leaves the method and the command keeps its status.                      *)
MutateThrows(k) ==
  LET t == target[cmd[k]]
      v == verb[cmd[k]]
  IN  /\ pc[k] = "mutate"
      /\ \/ v \in {"create_entity", "update_entity"} /\ CanFail("canonical")
         \/ v = "update_entity" /\ version[t.entity] = 0
         \/ v = "ingest_artifact" /\ CanFail("artifact")
         \/ v = "reindex" /\ CanFail("index")
         \/ v = "link_evidence" /\ (t.artifact \notin artifacts \/ version[t.entity] = 0)
      /\ Goto(k, "threw")
      /\ UNCHANGED <<queue, pending, stores, ledger, locals, stderr>>

(* The local stores change their map before persist() writes the file, so   *)
(* a write that throws can have taken effect all the same.                  *)
CreateThrowsLate(k) ==
  /\ At(k, "mutate", "create_entity")
  /\ CanFail("canonical")
  /\ version' = [version EXCEPT ![k] = 1]
  /\ wrote'   = [wrote EXCEPT ![k] = 1]
  /\ Land(k, "threw")
  /\ UNCHANGED <<artifacts, events>>

UpdateThrowsLate(k) ==
  LET e == target[cmd[k]].entity
  IN  /\ At(k, "mutate", "update_entity")
      /\ CanFail("canonical")
      /\ version[e] > 0
      /\ version' = [version EXCEPT ![e] = @ + 1]
      /\ wrote'   = [wrote EXCEPT ![k] = version[e] + 1]
      /\ Land(k, "threw")
      /\ UNCHANGED <<artifacts, events>>

IngestThrowsLate(k) ==
  /\ At(k, "mutate", "ingest_artifact")
  /\ CanFail("artifact")
  /\ artifacts' = artifacts \cup {k}
  /\ Land(k, "threw")
  /\ UNCHANGED <<version, events, wrote>>

LinkThrows(k) ==
  LET t == target[cmd[k]]
  IN  /\ At(k, "mutate", "link_evidence") /\ op[k] = "commit"
      /\ t.artifact \in artifacts /\ version[t.entity] > 0
      /\ recordProvenanceThrows(LedgerEvent("evidence_linked", None, k, t.entity))
      /\ Goto(k, "threw")
      /\ UNCHANGED <<queue, pending, stores, receipts, locals, stderr>>

(* The index write has no try of its own: when it throws, the store keeps   *)
(* the write and nothing is recorded.                                       *)
IndexRecord(k) ==
  /\ pc[k] = "index"
  /\ Goto(k, "record") \/ (CanFail("index") /\ Goto(k, "threw"))
  /\ UNCHANGED <<queue, pending, stores, ledger, locals, stderr>>

(***************************************************************************)
(* The recorded part: event, then command, then receipt, in one try whose   *)
(* catch records the orphan and throws ReceiptFailedError.                  *)
(***************************************************************************)
SubjectOf(k) ==
  LET t == target[cmd[k]]
      v == verb[cmd[k]]
  IN  IF v \in {"create_entity", "ingest_artifact"} THEN k
      ELSE IF v = "link_evidence" /\ op[k] = "commit" THEN t.artifact
      ELSE IF v \in {"update_entity", "link_evidence"} THEN t.entity
      ELSE None

KindOf(k) ==
  LET v == verb[cmd[k]]
  IN  IF op[k] = "commit" THEN "mutation_committed"
      ELSE IF v = "create_entity" THEN "entity_created"
      ELSE IF v = "ingest_artifact" THEN "artifact_ingested"
      ELSE IF v = "link_evidence" THEN "evidence_linked"
      ELSE "index_rebuilt"

EventOf(k) ==
  [kind |-> KindOf(k), command |-> cmd[k], call |-> k, subject |-> SubjectOf(k),
   parent |-> parent[k], previous |-> previous[k]]

(* A committed ingest drops its staging file before the event is appended.  *)
Unstage(k) ==
  pending' = IF op[k] = "commit" /\ verb[cmd[k]] = "ingest_artifact"
             THEN pending \ {target[cmd[k]].content} ELSE pending

RecordEvent(k) ==
  /\ pc[k] = "record"
  /\ Unstage(k)
  /\ recordProvenance(EventOf(k))
  /\ event' = [event EXCEPT ![k] = Len(events) + 1]
  /\ Goto(k, "save")
  /\ UNCHANGED <<queue, stores, receipts, op, cmd, previous, parent, wrote, landed, stderr>>

(* The command saved before its event.                                      *)
RecordThrows_Saved(k) ==
  /\ pc[k] = "record"
  /\ Unstage(k)
  /\ recordProvenanceThrows(EventOf(k))
  /\ SetStatus(cmd[k], "committed")
  /\ Goto(k, "orphan")
  /\ UNCHANGED <<verb, target, valid, stores, receipts, locals, stderr>>

(* The event appended outside the try.                                      *)
RecordThrows_Raw(k) ==
  /\ pc[k] = "record"
  /\ Unstage(k)
  /\ recordProvenanceThrows(EventOf(k))
  /\ Goto(k, "threw")
  /\ UNCHANGED <<queue, stores, receipts, locals, stderr>>

RecordThrows(k) ==
  /\ pc[k] = "record"
  /\ Unstage(k)
  /\ recordProvenanceThrows(EventOf(k))
  /\ Goto(k, "orphan")
  /\ UNCHANGED <<queue, stores, receipts, locals, stderr>>

(* markCommitted was applied to the command as read when the call began:    *)
(* the save writes committed over whatever status the queue holds now.      *)
SaveCommitted(k) ==
  /\ pc[k] = "save"
  /\ SetStatus(cmd[k], "committed")
  /\ \/ receipts' = receipts \cup {ReceiptOf(k)} /\ Goto(k, "done")
     \/ /\ CanFail("ledger")
        /\ receipts' \in {receipts, receipts \cup {ReceiptOf(k)}}
        /\ Goto(k, "orphan")
  /\ UNCHANGED <<verb, target, valid, pending, stores, events, locals, stderr>>

(* A failed save swallowed: the receipt is minted all the same.             *)
SaveThrows_Receipt(k) ==
  /\ pc[k] = "save"
  /\ CanFail("queue")
  /\ receipts' = receipts \cup {ReceiptOf(k)}
  /\ Goto(k, "done")
  /\ UNCHANGED <<queue, pending, stores, events, locals, stderr>>

SaveThrows_Raw(k) ==
  /\ pc[k] = "save"
  /\ CanFail("queue")
  /\ Goto(k, "threw")
  /\ UNCHANGED <<queue, pending, stores, ledger, locals, stderr>>

(* A save can land and throw: the marker file is written after the rename.  *)
SaveThrows(k) ==
  /\ pc[k] = "save"
  /\ CanFail("queue")
  /\ UNCHANGED status \/ SetStatus(cmd[k], "committed")
  /\ Goto(k, "orphan")
  /\ UNCHANGED <<verb, target, valid, pending, stores, ledger, locals, stderr>>

(* compensateMutation: both commands and the event between two awaits.      *)
compensateMutation(k, c, d) ==
  /\ MayStart
  /\ pc[k] = "idle"
  /\ status[c] = "committed"
  /\ Fresh(d)
  /\ op'     = [op EXCEPT ![k] = "compensate"]
  /\ cmd'    = [cmd EXCEPT ![k] = d]
  /\ verb'   = [verb EXCEPT ![d] = "compensate"]
  /\ \E t \in TargetsOf("compensate") : target' = [target EXCEPT ![d] = t]
  /\ valid'  = [valid EXCEPT ![d] = TRUE]
  /\ pending' = IF verb[c] = "ingest_artifact" THEN pending \ {target[c].content} ELSE pending
  /\ UNCHANGED <<stores, receipts, previous, parent, wrote, stderr>>

CompensateBoth(k, c, d) ==
  LET e == LedgerEvent("command_compensated", d, k, None)
  IN  /\ compensateMutation(k, c, d)
      /\ status' = [status EXCEPT ![c] = "compensated", ![d] = "committed"]
      /\ landed' = [landed EXCEPT ![k] = TRUE]
      /\ \/ /\ recordProvenance(e)
            /\ event' = [event EXCEPT ![k] = Len(events) + 1]
            /\ Goto(k, "receipt")
         \/ /\ recordProvenanceThrows(e)
            /\ Goto(k, "orphan")
            /\ UNCHANGED event

(* The queue refuses the first or the second of the two saves, or the       *)
(* second lands and throws.                                                 *)
CompensateThrows(k, c, d) ==
  /\ CanFail("queue")
  /\ compensateMutation(k, c, d)
  /\ \/ UNCHANGED <<status, landed>>
     \/ /\ \/ SetStatus(d, "committed")
           \/ status' = [status EXCEPT ![c] = "compensated", ![d] = "committed"]
        /\ landed' = [landed EXCEPT ![k] = TRUE]
  /\ Goto(k, "orphan")
  /\ UNCHANGED <<events, event>>

EmitReceipt(k) ==
  /\ pc[k] = "receipt"
  /\ \/ receipts' = receipts \cup {ReceiptOf(k)} /\ Goto(k, "done")
     \/ /\ CanFail("ledger")
        /\ receipts' \in {receipts, receipts \cup {ReceiptOf(k)}}
        /\ Goto(k, "orphan")
  /\ UNCHANGED <<queue, pending, stores, events, locals, stderr>>

(* KERNEL-R009: the second failure swallowed.                               *)
recordOrphanMutation_Silent(k) ==
  LET e == LedgerEvent("mutation_orphaned", cmd[k], k, SubjectOf(k))
  IN  /\ pc[k] = "orphan"
      /\ recordProvenance(e) \/ recordProvenanceThrows(e)
      /\ Goto(k, "receiptFailed")
      /\ UNCHANGED <<queue, pending, stores, receipts, locals, stderr>>

(* recordOrphanMutation is best effort: if the ledger refuses the event as  *)
(* well, only a line on stderr is left.                                     *)
recordOrphanMutation(k) ==
  LET e == LedgerEvent("mutation_orphaned", cmd[k], k, SubjectOf(k))
  IN  /\ pc[k] = "orphan"
      /\ \/ recordProvenance(e) /\ UNCHANGED stderr
         \/ recordProvenanceThrows(e) /\ stderr' = stderr \cup {k}
      /\ Goto(k, "receiptFailed")
      /\ UNCHANGED <<queue, pending, stores, receipts, locals>>

(***************************************************************************)
(* A crash loses the calls in flight; queue, stores, ledger and staging are *)
(* on disk.  It may strike between the writes of one step: after the        *)
(* unstaging and before the event, after the save and before the receipt,   *)
(* after the first save of a compensation.                                  *)
(***************************************************************************)
LoseCalls == pc' = [k \in Calls |-> IF pc[k] \in InFlight THEN "crashed" ELSE pc[k]]

Crash ==
  /\ MayCrash
  /\ \E k \in Calls : pc[k] \in InFlight
  /\ LoseCalls
  /\ \/ UNCHANGED <<status, pending>>
     \/ \E k \in Calls : pc[k] = "record" /\ Unstage(k) /\ UNCHANGED status
     \/ \E k \in Calls : pc[k] = "save" /\ SetStatus(cmd[k], "committed") /\ UNCHANGED pending
  /\ UNCHANGED <<verb, target, valid, stores, ledger, locals, stderr>>

CrashInCompensate(k, c, d) ==
  /\ MayCrash
  /\ compensateMutation(k, c, d)
  /\ \/ SetStatus(d, "committed")
     \/ status' = [status EXCEPT ![c] = "compensated", ![d] = "committed"]
  /\ pc' = [j \in Calls |-> IF j = k \/ pc[j] \in InFlight THEN "crashed" ELSE pc[j]]
  /\ landed' = [landed EXCEPT ![k] = TRUE]
  /\ UNCHANGED <<events, event>>

(* One step of the call k once it is in flight: the event loop's turn.      *)
Continue(k) ==
  \/ ReadParent(k)
  \/ CreateInStore(k) \/ UpdateInStore(k) \/ IngestInStore(k) \/ LinkEvidence(k) \/ Reindex(k)
  \/ MutateThrows(k) \/ LinkThrows(k)
  \/ CreateThrowsLate(k) \/ UpdateThrowsLate(k) \/ IngestThrowsLate(k)
  \/ IndexRecord(k)
  \/ RecordEvent(k) \/ RecordThrows(k)
  \/ SaveCommitted(k) \/ SaveThrows(k)
  \/ EmitReceipt(k)
  \/ recordOrphanMutation(k)

Begin(k, c) ==
  \/ commitMutation(k, c) \/ commitUpdate(k, c) \/ commitIngest(k, c) \/ commitUnknownVerb(k, c)
  \/ createEntity(k, c) \/ ingestArtifact(k, c) \/ linkEvidence(k, c) \/ rebuildIndex(k, c)
  \/ \E d \in Commands : CompensateBoth(k, c, d) \/ CompensateThrows(k, c, d) \/ CrashInCompensate(k, c, d)

Step(c) == proposeMutation(c) \/ validateMutation(c) \/ approveMutation(c) \/ rejectMutation(c)

Next ==
  \/ \E c \in Commands : Step(c)
  \/ \E k \in Calls : Continue(k)
  \/ \E k \in Calls, c \in Commands : Begin(k, c)
  \/ Crash

Spec == Init /\ [][Next]_vars

(* Every promise a store returns settles, and the event loop runs every     *)
(* continuation; no caller is obliged to start anything.                    *)
Fairness == \A k \in Calls : WF_vars(Continue(k))

FairSpec == Spec /\ Fairness

---------------------------------------------------------------------------
QueueOK ==
  /\ status  \in [Commands -> {"none", "proposed", "validated", "approved",
                               "committed", "rejected", "compensated"}]
  /\ verb    \in [Commands -> Verbs \cup {"none"}]
  /\ target  \in [Commands -> Targets \cup {None}]
  /\ valid   \in [Commands -> BOOLEAN]
  /\ pending \subseteq Contents

StoresOK ==
  /\ version   \in [Ids -> Nat]
  /\ artifacts \subseteq Ids

LedgerOK ==
  /\ events   \in Seq(Events)
  /\ receipts \subseteq Receipts

CallsOK ==
  /\ pc       \in [Calls -> {"idle"} \cup InFlight \cup Ended]
  /\ op       \in [Calls -> {"none", "commit", "direct", "compensate"}]
  /\ cmd      \in [Calls -> Commands \cup {None}]
  /\ previous \in [Calls -> Nat]
  /\ parent   \in [Calls -> Nat]
  /\ wrote    \in [Calls -> Nat]
  /\ landed   \in [Calls -> BOOLEAN]
  /\ event    \in [Calls -> Nat]
  /\ stderr   \subseteq Calls

TypeOK == QueueOK /\ StoresOK /\ LedgerOK /\ CallsOK

(***************************************************************************)
(* Safety.                                                                  *)
(***************************************************************************)

(* commitMutation saves committed after its event, "so we never have a      *)
(* 'committed' record without an associated provenance event"; the direct   *)
(* verbs keep the same order.  Whatever fails, crashes or overlaps, every   *)
(* executed command other than a compensating one has its event.            *)
CommittedHasEvent ==
  \A c \in Commands : status[c] \in Executed /\ verb[c] # "compensate" =>
    \E i \in DOMAIN events : events[i].command = c /\ events[i].kind \in RecordKinds

(* PROV-005, "a receipt is proof a committed command executed": the command *)
(* of a receipt is executed, and stays so although other calls hold older   *)
(* snapshots of it, and the receipt points at the event of that command.    *)
ReceiptProvesExecution ==
  \A r \in receipts :
    /\ status[r.command] \in Executed
    /\ r.event \in DOMAIN events
    /\ events[r.event].command = r.command
    /\ events[r.event].kind \in RecordKinds \cup {"command_compensated"}

(* The command-receipt bijection that verify checks, one half: no command   *)
(* has two receipts, retries after a failed commit included.                *)
AtMostOneReceipt ==
  \A r, s \in receipts : r.command = s.command => r = s

(* The other half.  A receipt may be missing only where ReceiptFailedError  *)
(* was thrown, and then the ledger, or at least stderr, names the orphan.   *)
Noted(k) ==
  \/ k \in stderr
  \/ \E i \in DOMAIN events : events[i].kind = "mutation_orphaned" /\ events[i].call = k

ReceiptlessIsOrphaned ==
  \A c \in Commands :
    status[c] \in Executed /\ (\A k \in Calls : cmd[k] = c => pc[k] \notin InFlight) =>
      \/ \E r \in receipts : r.command = c
      \/ \E k \in Calls : cmd[k] = c /\ Noted(k)

(* "No store is ever written to" without a trace: every version of every    *)
(* entity and every artifact was written by a call that is still running,   *)
(* has its event in the ledger, or is noted as an orphan.                   *)
Explained(k) ==
  \/ pc[k] \in InFlight
  \/ Noted(k)
  \/ \E i \in DOMAIN events : events[i].kind \in RecordKinds /\ events[i].call = k

Wrote(k, e, v) ==
  /\ landed[k] /\ wrote[k] = v
  /\ \/ verb[cmd[k]] = "create_entity" /\ k = e
     \/ verb[cmd[k]] = "update_entity" /\ target[cmd[k]].entity = e

TruthExplained ==
  /\ \A e \in Ids : \A v \in 1..version[e] :
       (e \in EarlierEntities /\ v = 1) \/ \E k \in Calls : Wrote(k, e, v) /\ Explained(k)
  /\ \A k \in artifacts \ EarlierArtifacts : Explained(k)

(* PROV-002: the event of an update carries the version it displaced, read  *)
(* before the write.                                                        *)
IsUpdate(i) == events[i].kind = "mutation_committed" /\ verb[events[i].command] = "update_entity"

PreviousIsDisplaced ==
  \A i \in DOMAIN events : IsUpdate(i) => wrote[events[i].call] = events[i].previous + 1

(* PROV-002 lineage, "so the version chain is walkable via trace()": the    *)
(* parent of an update's event is the last earlier event of its entity, so  *)
(* walking up from the last update misses none.                             *)
LineageIsChain ==
  \A i, j \in DOMAIN events :
    IsUpdate(i) /\ j < i /\ events[j].subject = events[i].subject => j <= events[i].parent

(***************************************************************************)
(* What a step may never do.                                                *)
(***************************************************************************)

(* No interleaving, fault or crash takes an executed command back to a      *)
(* status from which it could be committed again.                           *)
ExecutedStaysExecuted ==
  [][\A c \in Commands : status[c] \in Executed => status'[c] \in Executed]_vars

(* docs/mutation-law.md: "rejected | Terminal. Mutation will not execute."  *)
RejectedIsTerminal ==
  [][\A c \in Commands : status[c] = "rejected" => status'[c] = "rejected"]_vars

(* One caller that awaits each call moves the statuses only as              *)
(* validTransitions() allows: the kernel implements CommandLaw.             *)
Law == INSTANCE CommandLaw

LawSpec == Law!Spec

(***************************************************************************)
(* Liveness.                                                                *)
(***************************************************************************)

(* A write that landed is eventually proved by a receipt or noted as an     *)
(* orphan: no commit is left half recorded.                                 *)
LandedIsSettled ==
  \A k \in Calls : landed[k] ~> (Noted(k) \/ \E r \in receipts : r.call = k)

(***************************************************************************)
(* What docs and comments say and the code does not do.                     *)
(***************************************************************************)

(* commitMutation, before its switch: "Any exception inside the switch is a *)
(* clean failure - the store has not yet mutated".                          *)
SwitchFailureIsClean ==
  \A k \in Calls : op[k] = "commit" /\ pc[k] = "threw" => ~landed[k]

===========================================================================
