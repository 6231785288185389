---------------------------- MODULE BackupRestore ----------------------------
(***************************************************************************)
(* Backup, restore and the health checks, over two clusters: home, which   *)
(* is backed up, and a copy that starts empty.  backup() reads one store   *)
(* after the other while commits may go on; restore() goes through the     *)
(* file record by record, may be killed between two of them and run again, *)
(* and may be pointed at the copy or at home itself.  verify() and         *)
(* doctor() are in HealthChecks.                                           *)
(*                                                                         *)
(* A commit is numbered: the number is the id of what it creates, of its   *)
(* event and of its receipt, and stands for the value it writes.           *)
(***************************************************************************)
EXTENDS HealthChecks, Picking, SequencesExt

CONSTANTS Verb,         \* what each command does
          Options,      \* what the callers give backup and restore: the command
                        \* line neither a commandQueue nor a dataDir
          MaxFaults     \* bound: receipts not written, blobs lost, records altered,
                        \* restores killed, indexes not rebuilt

Verbs == {"create_entity", "update_entity", "ingest_artifact"}

ASSUME VerbsAreModelled == Verb \in [Commands -> Verbs]
ASSUME OptionsAreModelled == Options \subseteq SUBSET {"commandQueue", "dataDir"}
ASSUME BoundsAreNatural == {MaxRuns, MaxFaults} \subseteq Nat
ASSUME CommandsAreFinite == IsFiniteSet(Commands)

Clusters == {"home", "copy"}

VARIABLES options,   \* what this caller gives
          cluster,   \* the stores, queue and staging area of each cluster
          commits,   \* command -> its commit in flight
          born,      \* commits started so far
          backup,    \* the backup in progress
          file,      \* the backup file
          restore,   \* the restore in progress, or the last one's result
          foreign,   \* clusters that something else than restores of file wrote to
          decayed,   \* <<cluster, artifact>> whose blob was changed on disk
          faults

vars == <<options, cluster, commits, born, backup, file, restore, foreign, decayed, faults>>

WithQueue == "commandQueue" \in options

Idle       == [step |-> "none"]
NoRestore  == [step |-> "none"]
NoBackup   == [step |-> "none", items |-> <<>>, quiet |-> FALSE]
NoFile     == [items |-> <<>>]

Empty == [canonical |-> [e \in Runs |-> <<>>],
          artifacts |-> [a \in Runs |-> NoArtifact],
          events    |-> <<>>,
          receipts  |-> <<>>,
          commands  |-> [c \in Commands |-> "none"],
          staging   |-> {},
          index     |-> {}]

\* append() and appendReceipt() stamp a record and chain it to the last one.
LastId(log) == IF log = <<>> THEN 0 ELSE log[Len(log)].id
append(log, id, action, subject) ==
    Append(log, [id |-> id, action |-> action, subject |-> subject,
                 prev |-> LastId(log), whole |-> TRUE])
appendReceipt(log, id, event, cmd) ==
    Append(log, [id |-> id, event |-> event, cmd |-> cmd,
                 prev |-> LastId(log), whole |-> TRUE])

-----------------------------------------------------------------------------
(* The kernel: a command is proposed and approved, then committed in steps. *)

\* What a step of the kernel on cluster n does to the observers.
Disturbs(n) == /\ foreign' = foreign \cup {n}
               /\ backup' = IF n = "home" THEN [backup EXCEPT !.quiet = FALSE] ELSE backup

\* The copy has only the commands that a restore brings it.
Propose(c) ==
    /\ cluster["home"].commands[c] = "none"
    /\ Cardinality({d \in Commands : cluster["home"].commands[d] # "none"}) < MaxRuns
    /\ cluster' = [cluster EXCEPT
          !["home"].commands[c] = "approved",
          !["home"].staging = IF Verb[c] = "ingest_artifact" THEN @ \cup {c} ELSE @]
    /\ Disturbs("home")
    /\ UNCHANGED <<commits, born, file, restore, decayed, faults>>

\* The owner store, the index, and for an ingest its staging file.
Stored(k, c, run, subject) ==
    CASE Verb[c] = "create_entity" ->
            [k EXCEPT !.canonical[run] = <<[n |-> 1, by |-> run]>>, !.index = @ \cup {run}]
      [] Verb[c] = "update_entity" ->
            [k EXCEPT !.canonical[subject] =
                Append(@, [n |-> @[Len(@)].n + 1, by |-> run])]
      [] Verb[c] = "ingest_artifact" ->
            [k EXCEPT !.artifacts[run] = [filename |-> run, blob |-> "whole"],
                      !.index = @ \cup {run},
                      !.staging = @ \ {c}]

Subjects(k, c, run) ==
    CASE Verb[c] = "create_entity"   -> {run}
      [] Verb[c] = "update_entity"   -> Entities(k)
      [] Verb[c] = "ingest_artifact" -> IF c \in k.staging THEN {run} ELSE {}

NextPhase_ReceiptFirst == [event |-> "receipt", receipt |-> "save", save |-> "none"]
NextPhase == [event |-> "save", save |-> "receipt", receipt |-> "none"]

CommitStore(n, c) ==
    /\ commits[c] = Idle /\ cluster[n].commands[c] = "approved" /\ born < MaxRuns
    /\ \E subject \in Subjects(cluster[n], c, born + 1) :
        /\ cluster' = [cluster EXCEPT ![n] = Stored(@, c, born + 1, subject)]
        /\ commits' = [commits EXCEPT ![c] =
              [step |-> "event", at |-> n, run |-> born + 1, subject |-> subject]]
    /\ born' = born + 1
    /\ Disturbs(n)
    /\ UNCHANGED <<file, restore, decayed, faults>>

Continue(c) == LET next == NextPhase[commits[c].step] IN
    commits' = [commits EXCEPT ![c] = IF next = "none" THEN Idle ELSE [@ EXCEPT !.step = next]]

CommitEvent(c) ==
    /\ commits[c].step = "event"
    /\ cluster' = [cluster EXCEPT ![commits[c].at].events =
          append(@, commits[c].run, "mutation_committed", commits[c].subject)]
    /\ Continue(c) /\ Disturbs(commits[c].at)
    /\ UNCHANGED <<born, file, restore, decayed, faults>>

CommitSave(c) ==
    /\ commits[c].step = "save"
    /\ cluster' = [cluster EXCEPT ![commits[c].at].commands[c] = "committed"]
    /\ Continue(c) /\ Disturbs(commits[c].at)
    /\ UNCHANGED <<born, file, restore, decayed, faults>>

CommitReceipt(c) ==
    /\ commits[c].step = "receipt"
    /\ cluster' = [cluster EXCEPT ![commits[c].at].receipts =
          appendReceipt(@, commits[c].run, commits[c].run, c)]
    /\ Continue(c) /\ Disturbs(commits[c].at)
    /\ UNCHANGED <<born, file, restore, decayed, faults>>

Fault == faults < MaxFaults /\ faults' = faults + 1

\* The receipt cannot be written: what remains is an event, if that can be.
recordOrphanMutation(c) ==
    /\ commits[c].step = "receipt" /\ Fault
    /\ \/ UNCHANGED cluster
       \/ cluster' = [cluster EXCEPT ![commits[c].at].events =
             append(@, MaxRuns + commits[c].run, "mutation_orphaned", commits[c].subject)]
    /\ Continue(c) /\ Disturbs(commits[c].at)
    /\ UNCHANGED <<born, file, restore, decayed>>

-----------------------------------------------------------------------------
(* backup(): the entities, the artifacts, the events, the receipts, then   *)
(* the contents; queue and staging area in the same step as the last of    *)
(* these.  The file is a list of items, with a mark where restore() will   *)
(* rebuild the index.                                                      *)

IndexMark == [kind |-> "index", id |-> Forged]
EntityItem(e, version)   == [kind |-> "entity", id |-> e, n |-> version.n, by |-> version.by]
ArtifactItem(a, metadata) ==
    [kind |-> "artifact", id |-> a, filename |-> metadata.filename, blob |-> metadata.blob]
EventItem(r)   == [kind |-> "event", id |-> r.id, action |-> r.action, subject |-> r.subject,
                   prev |-> r.prev, whole |-> r.whole]
ReceiptItem(r) == [kind |-> "receipt", id |-> r.id, event |-> r.event, cmd |-> r.cmd,
                   prev |-> r.prev, whole |-> r.whole]
OnlyBackup == UNCHANGED <<cluster, commits, born, restore, foreign, decayed, faults>>

Reads(step, next, items) ==
    /\ backup.step = step
    /\ backup' = [backup EXCEPT !.step = next, !.items = @ \o items]
    /\ UNCHANGED file /\ OnlyBackup

\* Only the latest version of an entity is listed.
EntityItems(k) == LET es == InOrder(Entities(k)) IN
    [i \in DOMAIN es |-> EntityItem(es[i], Latest(k, es[i]))]
ArtifactItems(k) == LET as == InOrder(Artifacts(k)) IN
    [i \in DOMAIN as |-> ArtifactItem(as[i], k.artifacts[as[i]])]
EventItems_OffByOne(k) == [i \in 1 .. Len(k.events) - 1 |-> EventItem(k.events[i + 1])]
EventItems(k)   == [i \in DOMAIN k.events |-> EventItem(k.events[i])]
ReceiptItems(k) == [i \in DOMAIN k.receipts |-> ReceiptItem(k.receipts[i])]
QueueItems(k, given) ==
    LET cs == SetToSeq({c \in Commands : "commandQueue" \in given /\ k.commands[c] # "none"}) IN
    [i \in DOMAIN cs |-> [kind |-> "command", id |-> cs[i], status |-> k.commands[cs[i]]]]
\* Files whose name is a hash: not the temporary ones.
StagingItems(k, given) == LET fs == SetToSeq({f \in k.staging : "dataDir" \in given}) IN
    [i \in DOMAIN fs |-> [kind |-> "staging", id |-> fs[i], whole |-> TRUE]]

BackupEntities ==
    LET k == cluster["home"] IN
    /\ backup.step = "none" /\ file = NoFile
    /\ backup' = [step |-> "artifacts", items |-> EntityItems(k),
                  quiet |-> \A c \in Commands : commits[c] = Idle,
                  health |-> [verify |-> verify(k), doctor |-> doctor(k)]]
    /\ UNCHANGED file /\ OnlyBackup

BackupArtifacts == Reads("artifacts", "events", ArtifactItems(cluster["home"]))
BackupEvents    == Reads("events", "receipts", EventItems(cluster["home"]))
BackupReceipts  == Reads("receipts", "contents", ReceiptItems(cluster["home"]))

\* getContent throws on a blob that lost its hash, and gives null for none.
BackupContents ==
    LET k == cluster["home"]
        Listed == {x.id : x \in {y \in Range(backup.items) : y.kind = "artifact"}}
        Filled == [i \in DOMAIN backup.items |-> LET x == backup.items[i] IN
                      IF x.kind = "artifact" THEN [x EXCEPT !.blob = k.artifacts[x.id].blob] ELSE x]
    IN
    /\ backup.step = "contents"
    /\ \/ /\ \A a \in Listed : k.artifacts[a].blob # "damaged"
          /\ file' = [items |-> Filled \o <<IndexMark>> \o QueueItems(k, options) \o StagingItems(k, options),
                      quiet |-> backup.quiet, health |-> backup.health, altered |-> FALSE]
       \/ /\ \E a \in Listed : k.artifacts[a].blob = "damaged"
          /\ UNCHANGED file
    /\ backup' = NoBackup
    /\ OnlyBackup

-----------------------------------------------------------------------------
(* restore(): one step per item of the file.                               *)

Current == file.items[restore.at]
Handles(kind) == restore.step = "running" /\ Current.kind = kind
Target == cluster[restore.into]

Advanced == [restore EXCEPT !.at = @ + 1,
                             !.step = IF restore.at = Len(file.items) THEN "done" ELSE @]
OnlyRestore == UNCHANGED <<commits, born, backup, file, foreign, decayed, faults>>

Writes(k) == cluster' = [cluster EXCEPT ![restore.into] = k] /\ restore' = Advanced
Skips     == UNCHANGED cluster /\ restore' = Advanced
Refuses   == UNCHANGED cluster /\ restore' = [Advanced EXCEPT !.errors = @ \cup {restore.at}]

StartRestore(n) ==
    /\ file # NoFile /\ restore.step # "running"
    /\ restore' = [step |-> "running", into |-> n, at |-> 1, errors |-> {}, unindexed |-> FALSE]
    /\ UNCHANGED <<cluster, commits, born, backup, file, foreign, decayed, faults>>

assertContentMatch_Never(existing, incoming) == TRUE
assertContentMatch(existing, incoming) == existing = incoming

\* The latest version is compared; the other versions of the file's entity
\* are unknown to it.
RestoreEntity ==
    LET incoming == [n |-> Current.n, by |-> Current.by]
        exists == Current.id \in Entities(Target) IN
    /\ Handles("entity")
    /\ \/ exists /\ assertContentMatch(Latest(Target, Current.id), incoming) /\ Skips
       \/ exists /\ ~ assertContentMatch(Latest(Target, Current.id), incoming) /\ Refuses
       \/ ~ exists /\ Writes([Target EXCEPT !.canonical[Current.id] = <<incoming>>])
    /\ OnlyRestore

\* An artifact that is there keeps its blob, whatever the state of that blob.
RestoreArtifact ==
    LET exists == Current.id \in Artifacts(Target)
        matches == assertContentMatch(Target.artifacts[Current.id].filename, Current.filename) IN
    /\ Handles("artifact")
    /\ \/ exists /\ matches /\ Skips
       \/ exists /\ ~ matches /\ Refuses
       \/ ~ exists /\ Current.blob # "whole" /\ Refuses
       \/ ~ exists /\ Current.blob = "whole"
             /\ Writes([Target EXCEPT !.artifacts[Current.id] =
                            [filename |-> Current.filename, blob |-> "whole"]])
    /\ OnlyRestore

reconcileImportedIntegrity_Trusts(record) == TRUE
reconcileImportedIntegrity(record) == record.whole
Find_Nothing(log, id) == <<>>
Find(log, id) == Pick(log, Named(log, id))

\* importEvent and importReceipt keep id, hash and link as they are in the file.
RestoreLog(log, record, Appended) ==
    LET found == Find(log, record.id) IN
    /\ \/ found # <<>> /\ assertContentMatch(found[1], record) /\ Skips
       \/ found # <<>> /\ ~ assertContentMatch(found[1], record) /\ Refuses
       \/ found = <<>> /\ ~ reconcileImportedIntegrity(record) /\ Refuses
       \/ found = <<>> /\ reconcileImportedIntegrity(record) /\ Writes(Appended)
    /\ OnlyRestore

EventOf(x)   == [id |-> x.id, action |-> x.action, subject |-> x.subject,
                 prev |-> x.prev, whole |-> x.whole]
ReceiptOf(x) == [id |-> x.id, event |-> x.event, cmd |-> x.cmd,
                 prev |-> x.prev, whole |-> x.whole]

RestoreEvent ==
    /\ Handles("event")
    /\ RestoreLog(Target.events, EventOf(Current),
                  [Target EXCEPT !.events = Append(@, EventOf(Current))])

RestoreReceipt ==
    /\ Handles("receipt")
    /\ RestoreLog(Target.receipts, ReceiptOf(Current),
                  [Target EXCEPT !.receipts = Append(@, ReceiptOf(Current))])

\* An artifact whose blob lost its hash is left out.  Any artifact may be, and
\* the swap may fail: rebuildIndex() returns its errors, and restore() does not
\* look at them.
rebuildIndex(k) == Entities(k) \cup {a \in Artifacts(k) : k.artifacts[a].blob # "damaged"}
rebuildIndex_Fails(k) == {k.index} \cup {Entities(k) \cup as : as \in SUBSET Artifacts(k)}

Reindexes(index, unindexed) ==
    /\ cluster' = [cluster EXCEPT ![restore.into].index = index]
    /\ restore' = [Advanced EXCEPT !.unindexed = unindexed]

RestoreIndex ==
    /\ Handles("index")
    /\ \/ /\ Reindexes(rebuildIndex(Target), rebuildIndex(Target) # Sources(Target))
          /\ UNCHANGED faults
       \/ /\ \E index \in rebuildIndex_Fails(Target) : Reindexes(index, TRUE)
          /\ Fault
    /\ UNCHANGED <<commits, born, backup, file, foreign, decayed>>

\* Every command of the file is saved over whatever the queue has.
RestoreCommand ==
    /\ Handles("command")
    /\ Writes([Target EXCEPT !.commands[Current.id] = Current.status])
    /\ OnlyRestore

RestoreStaging ==
    /\ Handles("staging")
    /\ \/ ~ Current.whole /\ Refuses
       \/ Current.whole /\ Writes([Target EXCEPT !.staging = @ \cup {Current.id}])
    /\ OnlyRestore

-----------------------------------------------------------------------------
(* What goes wrong from outside.                                           *)

CrashRestore ==
    /\ restore.step = "running" /\ Fault
    /\ restore' = NoRestore
    /\ UNCHANGED <<cluster, commits, born, backup, file, foreign, decayed>>

ChangeBlob(n, a) ==
    /\ a \in Artifacts(cluster[n]) /\ cluster[n].artifacts[a].blob = "whole" /\ Fault
    /\ \E blob \in {"damaged", "gone"} :
          cluster' = [cluster EXCEPT ![n].artifacts[a].blob = blob]
    /\ decayed' = decayed \cup {<<n, a>>}
    /\ Disturbs(n)
    /\ UNCHANGED <<commits, born, file, restore>>

\* Edited, and not stamped anew.
Alterations(x) ==
    CASE x.kind = "entity"   -> {[x EXCEPT !.by = Forged]}
      [] x.kind = "artifact" -> {[x EXCEPT !.filename = Forged], [x EXCEPT !.blob = "damaged"]}
      [] x.kind \in {"event", "receipt", "staging"} -> {[x EXCEPT !.whole = FALSE]}
      [] OTHER -> {}

AlterFile ==
    /\ file # NoFile /\ restore.step # "running" /\ Fault
    /\ \E i \in DOMAIN file.items : \E x \in Alterations(file.items[i]) :
          file' = [file EXCEPT !.items[i] = x, !.altered = TRUE]
    /\ restore' = NoRestore
    /\ foreign' = foreign \cup {n \in Clusters : cluster[n] # Empty}
    /\ UNCHANGED <<cluster, commits, born, backup, decayed>>

-----------------------------------------------------------------------------
Init ==
    /\ options \in Options
    /\ cluster = [n \in Clusters |-> Empty]
    /\ commits = [c \in Commands |-> Idle]
    /\ born = 0
    /\ backup = NoBackup /\ file = NoFile /\ restore = NoRestore
    /\ foreign = {} /\ decayed = {} /\ faults = 0

Step ==
    \/ \E n \in Clusters, c \in Commands : CommitStore(n, c)
    \/ \E c \in Commands :
          \/ Propose(c) \/ CommitEvent(c) \/ CommitSave(c)
          \/ CommitReceipt(c) \/ recordOrphanMutation(c)
    \/ BackupEntities \/ BackupArtifacts \/ BackupEvents \/ BackupReceipts \/ BackupContents
    \/ \E n \in Clusters : StartRestore(n)
    \/ RestoreEntity \/ RestoreArtifact \/ RestoreEvent \/ RestoreReceipt
    \/ RestoreIndex \/ RestoreCommand \/ RestoreStaging
    \/ CrashRestore \/ AlterFile
    \/ \E n \in Clusters, a \in Runs : ChangeBlob(n, a)

Next == Step /\ UNCHANGED options

Spec == Init /\ [][Next]_vars

-----------------------------------------------------------------------------
(* Properties.                                                             *)

Logs(k) == Range(k.events) \cup Range(k.receipts)

\* A backup reads the ledger before the queue, and a commit saves its command
\* before it appends its receipt: however the two overlap, every receipt in
\* the file has its command in the file, committed.
ReceiptsKeepTheirCommands ==
    WithQueue => \A i \in DOMAIN file.items : file.items[i].kind = "receipt" =>
        \E j \in DOMAIN file.items : /\ file.items[j].kind = "command"
                                     /\ file.items[j].id = file.items[i].cmd
                                     /\ file.items[j].status = "committed"

\* The restore that ran last has ended, and nothing else wrote to its cluster.
RestoredAlone == restore.step = "done" /\ restore.into \notin foreign
NeverUpdated == \A x \in Range(file.items) : x.kind = "entity" => x.n = 1

\* A backup of a cluster that nothing wrote to meanwhile, restored without an
\* error, gives a cluster of which doctor() and verify() say what they said of
\* the first one: its health, and its troubles, survive.  But for the lineage
\* of an entity that was ever updated: its older versions are not in the file,
\* and verify() says so.  And an index that could not be rebuilt, of which
\* restore() says nothing, shows as far as the two look at the index.  This is
\* so for a caller that gives the queue.  Where it is not given, as by the
\* command line, one receipt is enough to make the restored cluster corrupt.
KeptOf(kind) == {file.items[i] :
                   i \in {j \in DOMAIN file.items \ restore.errors : file.items[j].kind = kind}}

QuietBackupVerifies ==
    RestoredAlone /\ restore.errors = {} /\ file.quiet /\ ~ file.altered =>
        LET k == cluster[restore.into] IN
        IF WithQueue
        THEN /\ doctor(k) = buildClusterHealth({file.health.doctor, index_populated(k)})
             /\ verify(k) = buildClusterHealth({index_references_valid(k),
                               IF NeverUpdated THEN file.health.verify ELSE "corrupt"})
        ELSE /\ doctor(k) = "corrupt" <=> KeptOf("receipt") # {}
             /\ verify(k) = "corrupt" <=> KeptOf("receipt") # {} \/ ~ NeverUpdated

\* What the first m items are meant to leave in an empty cluster, the index aside.
Left(items, m) ==
    LET At(kind)       == {i \in 1 .. m : items[i].kind = kind}
        Kept(kind, id) == Pick(items, {i \in At(kind) : items[i].id = id})
        Whole(kind)    == Pick(items, {i \in At(kind) : items[i].whole})
    IN [canonical |-> [e \in Runs |-> LET x == Kept("entity", e) IN
                          [i \in DOMAIN x |-> [n |-> x[i].n, by |-> x[i].by]]],
        artifacts |-> [a \in Runs |-> LET x == Kept("artifact", a) IN
                          IF x # <<>> /\ x[1].blob = "whole"
                          THEN [filename |-> x[1].filename, blob |-> "whole"] ELSE NoArtifact],
        events    |-> LET x == Whole("event") IN [i \in DOMAIN x |-> EventOf(x[i])],
        receipts  |-> LET x == Whole("receipt") IN [i \in DOMAIN x |-> ReceiptOf(x[i])],
        commands  |-> [c \in Commands |-> LET x == Kept("command", c) IN
                          IF x = <<>> THEN "none" ELSE x[1].status],
        staging   |-> {items[i].id : i \in {j \in At("staging") : items[j].whole}},
        index     |-> {}]

Restored == Left(file.items, Len(file.items))

\* A restore may be killed after any record and run again, any number of
\* times: the one that ends leaves exactly what the file says, nothing twice,
\* and an index of all of it and of nothing else, unless its rebuild failed.
RestoreConverges ==
    RestoredAlone =>
        LET k == cluster[restore.into] IN
        /\ [k EXCEPT !.index = {}] = Restored
        /\ k.index \subseteq Sources(k)
        /\ ~ restore.unindexed => k.index = Sources(k)

Holds(k, x) ==
    CASE x.kind = "entity"   -> [n |-> x.n, by |-> x.by] \in Range(k.canonical[x.id])
      [] x.kind = "artifact" -> k.artifacts[x.id].filename = x.filename
      [] x.kind = "event"    -> EventOf(x) \in Range(k.events)
      [] x.kind = "receipt"  -> ReceiptOf(x) \in Range(k.receipts)
      [] x.kind = "staging"  -> x.whole
      [] OTHER -> TRUE

\* No record is swallowed: when a restore ends, into whatever cluster and beside
\* whatever commits, each record of the file is in the store as the file has it
\* or is reported as an error.  (What rebuildIndex() reports is: see
\* QuietBackupVerifies.)
RestoreIsComplete ==
    restore.step = "done" =>
        \A i \in DOMAIN file.items :
            i \in restore.errors \/ Holds(cluster[restore.into], file.items[i])

\* And what it refused shows afterwards: from a healthy backup, doctor() calls
\* the restored cluster healthy only if no record was refused but a staged file,
\* and the checks of the ledger tell a lost event and a lost artifact apart, as
\* long as a record that names it was kept.  Without the queue doctor() cannot
\* tell: it calls the cluster corrupt for every receipt that was kept.
RefusedOf(kind) == {file.items[i] : i \in {j \in restore.errors : file.items[j].kind = kind}}

RefusalsShow ==
    RestoredAlone /\ file.quiet /\ file.health.doctor = "healthy" =>
        LET k == cluster[restore.into] IN
        /\ IF WithQueue
           THEN doctor(k) = "healthy" <=>
                   /\ \A i \in restore.errors : file.items[i].kind = "staging"
                   /\ index_populated(k) = "healthy"
           ELSE KeptOf("receipt") # {} => doctor(k) = "corrupt"
        /\ "stale" \in checkReceipts(k) <=>
              \E x \in RefusedOf("event"), y \in KeptOf("receipt") : y.event = x.id
        /\ "stale" \in checkProvenance(k) <=>
              \E x \in RefusedOf("artifact"), y \in KeptOf("event") : y.subject = x.id

\* A restore answers for every record of its file, and its refusals show.
RefusalsAreReported == RestoreIsComplete /\ RefusalsShow

\* No record whose content lost its hash gets from a file into a store: what is
\* damaged in a cluster was damaged there.
AlteredStaysOut == \A n \in Clusters :
    /\ \A r \in Logs(cluster[n]) : r.whole
    /\ \A a \in Runs : cluster[n].artifacts[a].blob \in {"damaged", "gone"} => <<n, a>> \in decayed
=============================================================================
