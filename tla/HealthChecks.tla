---------------------------- MODULE HealthChecks ----------------------------
(***************************************************************************)
(* verify(), doctor() and the two ledger checks of ops/, as functions of a  *)
(* cluster: each check gives its status, buildClusterHealth the verdict.    *)
(*                                                                         *)
(* A cluster k is a record: canonical (entity -> its versions), artifacts   *)
(* (artifact -> its metadata and the state of its blob), events, receipts,  *)
(* commands (command -> its status), staging (the staged files) and index   *)
(* (the sources that have a record).  A ledger record is whole iff its      *)
(* content still has the hash it was stamped with, and prev names the       *)
(* record it was chained to.  Every store can be read, and the samples are  *)
(* larger than the clusters.                                                *)
(***************************************************************************)
EXTENDS Naturals, Sequences, FiniteSets, Functions

CONSTANTS Commands,     \* command ids
          MaxRuns       \* bound: commits ever started, commands ever proposed

Runs       == 1 .. MaxRuns
Forged     == 0
NoArtifact == [filename |-> Forged, blob |-> "none"]

Entities(k)  == {e \in Runs : k.canonical[e] # <<>>}
Artifacts(k) == {a \in Runs : k.artifacts[a] # NoArtifact}
Sources(k)   == Entities(k) \cup Artifacts(k)
Latest(k, e) == k.canonical[e][Len(k.canonical[e])]
Named(log, id) == {i \in DOMAIN log : log[i].id = id}

Unless(trouble, status) == IF trouble THEN status ELSE "healthy"

-----------------------------------------------------------------------------
(* The checks.  The first of index_references_valid is a record without its *)
(* source, the second an entity without its record.                         *)
index_references_valid(k) ==
    IF k.index \ Sources(k) # {} THEN "corrupt" ELSE Unless(Entities(k) \ k.index # {}, "stale")

no_orphaned_mutations(k) ==
    Unless(\E i \in DOMAIN k.events : k.events[i].action = "mutation_orphaned", "degraded")

provenance_references_valid(k) ==
    Unless(\E i \in DOMAIN k.events : k.events[i].subject \notin Sources(k), "stale")

\* The event is read by its id, and a read of an edited one throws.
receipts_provenance_valid(k) ==
    IF \E r \in Range(k.receipts) : \E i \in Named(k.events, r.event) : ~ k.events[i].whole
    THEN "unreachable"
    ELSE Unless(\E r \in Range(k.receipts) : Named(k.events, r.event) = {}, "stale")

artifact_content_integrity(k) ==
    Unless(\E a \in Artifacts(k) : k.artifacts[a].blob # "whole", "corrupt")

\* The first record need not be the first ever: a rotation moves those away.
checkIntegrityChain(log) ==
    /\ \A i \in DOMAIN log : log[i].whole
    /\ \A i \in DOMAIN log \ {1} : log[i].prev = log[i - 1].id

ledger_integrity_chain(k) ==
    Unless(~ checkIntegrityChain(k.events) \/ ~ checkIntegrityChain(k.receipts), "corrupt")

Committed(k)     == {c \in Commands : k.commands[c] = "committed"}
ReceiptsOf(k, c) == {i \in DOMAIN k.receipts : k.receipts[i].cmd = c}

command_receipt_bijection(k) ==
    Unless(\/ \E i \in DOMAIN k.receipts : k.receipts[i].cmd \notin Committed(k)
           \/ \E c \in Committed(k) : Cardinality(ReceiptsOf(k, c)) # 1, "corrupt")

canonical_lineage_intact(k) ==
    Unless(\E e \in Entities(k) : {v.n : v \in Range(k.canonical[e])} # 1 .. Latest(k, e).n,
           "corrupt")

index_populated(k)   == Unless(k.index = {} /\ Sources(k) # {}, "degraded")
no_orphan_staging(k) == Unless(\E f \in k.staging : k.commands[f] = "none", "degraded")

-----------------------------------------------------------------------------
(* The verdicts.  An error is a check that is corrupt or unreachable; a     *)
(* warning one that is stale or degraded.                                   *)
buildClusterHealth(statuses) ==
    IF "corrupt" \in statuses THEN "corrupt"
    ELSE IF "unreachable" \in statuses THEN "unreachable"
    ELSE Unless(statuses \cap {"stale", "degraded"} # {}, "degraded")

SharedChecks(k) ==
    {no_orphaned_mutations(k), provenance_references_valid(k), receipts_provenance_valid(k),
     artifact_content_integrity(k), ledger_integrity_chain(k), command_receipt_bijection(k)}

verify(k) == buildClusterHealth(
    SharedChecks(k) \cup {index_references_valid(k), canonical_lineage_intact(k)})
doctor(k) == buildClusterHealth(
    SharedChecks(k) \cup {index_populated(k), no_orphan_staging(k)})

\* The checks of the ledger alone: what is missing, and what was edited.
Tampered(log) == Unless(\E i \in DOMAIN log : ~ log[i].whole, "corrupt")

checkReceipts(k) == {
    Unless(\E r \in Range(k.receipts) : Named(k.events, r.event) = {}, "stale"),
    Tampered(k.receipts)}
checkProvenance(k) == {
    Unless(\E i \in DOMAIN k.events : k.events[i].subject \notin Sources(k), "stale"),
    Tampered(k.events)}
=============================================================================
